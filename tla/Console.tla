------------------------------ MODULE Console -------------------------------
(***************************************************************************)
(* The kernel console (Console/KernelConsole*.c) and the keyboard handler  *)
(* that scrolls it (Input/KernelKeyboard.c).                               *)
(*                                                                         *)
(* Text goes to the scrollback; the visible rows are drawn into a back     *)
(* buffer; presenting copies it to the screen, a line or all of it.  The   *)
(* keyboard interrupt scrolls, draws and presents in interrupt context, so *)
(* a newline, which reads the view and uses it later, is three steps.      *)
(* Colours, glyphs and the scrollbar are left out.                         *)
(***************************************************************************)
EXTENDS Integers, Sequences

CONSTANTS
    ScrollbackRows,   \* KCONSOLE_SCROLLBACK_ROWS
    ScrollbackColumns,   \* KCONSOLE_SCROLLBACK_COLS
    FitRows,          \* rows of text that fit the screen
    FitColumns,       \* columns of text that fit the screen
    Chars,            \* printable characters
    MaxWritten,       \* bound on the characters and calls of the kernel
    MaxKeys           \* bound on the bytes of the keyboard

VARIABLES
    console,    \* gConsole with the back buffer and the screen
    newline,    \* the newline in progress: the step, the view it read
    keyboard,   \* the Held fields and the extended prefix
    pressed,    \* the keys that are down: <<key, extended>>
    ghost,      \* lines written so far; a view drawn stale; a present missed
    written, keys

consoleVars == <<console, newline, keyboard, pressed, ghost, written, keys>>

\* KConsoleConfigureGeometry: what fits, at least 1 and at most the scrollback.
Geometry(fits, limit) == IF fits = 0 THEN 1 ELSE IF fits > limit THEN limit ELSE fits

ShownRows == Geometry(FitRows, ScrollbackRows)
ShownColumns == Geometry(FitColumns, ScrollbackColumns)

Rows == 0..(ShownRows - 1)
Columns == 0..(ShownColumns - 1)
Keys == {"up", "down", "pageUp", "pageDown"}

Blank == [c \in Columns |-> " "]
BlankScreen == [r \in Rows |-> Blank]
Clean == [active |-> FALSE, row |-> 0, min |-> 0, max |-> 0]

Cell == Chars \cup {" "}

ConsoleState ==
    [cells : [0..(ScrollbackRows - 1) -> [Columns -> Cell]],
     line : 0..(ScrollbackRows - 1), column : 0..ShownColumns, total : 1..ScrollbackRows,
     top : Nat, follows : BOOLEAN, back : [Rows -> [Columns -> Cell]],
     front : [Rows -> [Columns -> Cell]],
     dirty : [active : BOOLEAN, row : Rows, min : Columns, max : Columns],
     suppressed : BOOLEAN]

-----------------------------------------------------------------------------
MaximumViewTop(c) == IF c.total <= ShownRows THEN 0 ELSE c.total - ShownRows

\* KConsoleRenderCell for every cell: the scrollback below the view's top.
View(c) ==
    [r \in Rows |-> IF c.top + r < c.total /\ c.top + r < ScrollbackRows
                    THEN c.cells[c.top + r] ELSE Blank]

\* KConsolePresent: the copy is made with interrupts off, unless suppressed.
Present(c) == IF c.suppressed THEN c ELSE [c EXCEPT !.front = c.back]

RenderVisible(c) == Present([c EXCEPT !.back = View(c), !.dirty = Clean])

\* The drawn rows move up and the bottom row is drawn.
FastTailScrollPresent(c) ==
    Present([c EXCEPT !.back = [r \in Rows |-> IF r < ShownRows - 1 THEN c.back[r + 1]
                                               ELSE View(c)[r]],
                      !.dirty = Clean])

PresentDirtyLine(c) ==
    LET d == c.dirty
        shown == [c EXCEPT !.front[d.row] =
                     [k \in Columns |-> IF d.min <= k /\ k <= d.max THEN c.back[d.row][k] ELSE @[k]]]
    IN  IF ~d.active THEN c
        ELSE [(IF c.suppressed THEN c ELSE shown) EXCEPT !.dirty = Clean]

\* Mutant of MarkDirtyCell: the line that was dirty is forgotten.
MarkDirtyCellForgets(c, row, col) ==
    [c EXCEPT !.dirty = [active |-> TRUE, row |-> row, min |-> col, max |-> col]]

\* A dirty line of another row is presented first.
MarkDirtyCell(c, row, col) ==
    LET d == IF c.dirty.active /\ c.dirty.row # row THEN PresentDirtyLine(c) ELSE c
        lower(a, b) == IF a < b THEN a ELSE b
        upper(a, b) == IF a > b THEN a ELSE b
    IN  [d EXCEPT !.dirty = [active |-> TRUE, row |-> row,
                             min |-> IF d.dirty.active THEN lower(d.dirty.min, col) ELSE col,
                             max |-> IF d.dirty.active THEN upper(d.dirty.max, col) ELSE col]]

\* Text is stored, and drawn when its line is in view.
StorePrintable(c, ch) ==
    LET stored == [c EXCEPT !.cells[c.line][c.column] = ch]
        row == c.line - c.top
        drawn == [stored EXCEPT !.back[row][c.column] = ch]
        seen == IF c.top <= c.line /\ c.line < c.top + ShownRows
                THEN MarkDirtyCell(drawn, row, c.column) ELSE stored
    IN  [seen EXCEPT !.column = c.column + 1]

\* The oldest line goes; a view that does not follow the tail moves with its text
\* unless it is at the top.
ShiftScrollbackUp(c) ==
    [c EXCEPT !.cells = [r \in 0..(ScrollbackRows - 1) |->
                            IF r < ScrollbackRows - 1 THEN c.cells[r + 1] ELSE Blank],
              !.top = IF ~c.follows /\ c.top > 0 THEN c.top - 1 ELSE c.top]

-----------------------------------------------------------------------------
(***************************************************************************)
(* A newline.  Advance moves to the next line, or shifts the scrollback at *)
(* its last, and reads whether the view follows; Settle sets the view;     *)
(* Draw presents as was decided in Advance.                                *)
(***************************************************************************)
Idle == newline.at = "none"

NoNewline == [at |-> "none", how |-> "none", top |-> 0, char |-> "none"]

Logged(lines, ch, col) ==
    [lines EXCEPT ![Len(lines)] = [@ EXCEPT ![col] = ch]]

\* What the newline will do about the screen.
Decision(c, old, shifted) ==
    LET top == MaximumViewTop(c)
    IN  IF ~c.follows THEN "leave"
        ELSE IF shifted \/ (top = old.top + 1 /\ old.total >= ShownRows) THEN "scroll"
        ELSE IF top # old.top THEN "render" ELSE "line"

Shifts(c) == c.line + 1 >= ScrollbackRows

\* The cursor at the start of the next line, which is blank.
NextLine(c) ==
    LET moved == IF Shifts(c)
                 THEN [ShiftScrollbackUp(c) EXCEPT !.column = 0, !.total = ScrollbackRows]
                 ELSE [c EXCEPT !.column = 0, !.line = @ + 1,
                                !.total = IF c.line + 1 >= @ THEN c.line + 2 ELSE @]
    IN  [moved EXCEPT !.cells[moved.line] = Blank]

\* ch is the character that is stored once the line is there, or "none".
Advance(ch) ==
    LET blank == NextLine(console)
        how == Decision(blank, console, Shifts(console))
    IN  /\ console' = blank
        /\ newline' = [at |-> IF how = "leave" THEN "store" ELSE "settle", how |-> how,
                       top |-> MaximumViewTop(blank), char |-> ch]
        /\ ghost' = [ghost EXCEPT !.lines = Append(@, Blank),
                                  !.stale = @ \/ (Shifts(console) /\ ~console.follows /\ console.top = 0)]

Settle ==
    /\ newline.at = "settle"
    /\ console' = [console EXCEPT !.top = newline.top]
    /\ newline' = [newline EXCEPT !.at = "draw"]
    /\ UNCHANGED <<keyboard, pressed, ghost, written, keys>>

\* A present made while presenting is suppressed is lost.
Draw ==
    /\ newline.at = "draw"
    /\ console' = CASE newline.how = "scroll" -> FastTailScrollPresent(console)
                    [] newline.how = "render" -> RenderVisible(console)
                    [] OTHER -> PresentDirtyLine(console)
    /\ newline' = [newline EXCEPT !.at = "store"]
    /\ ghost' = [ghost EXCEPT !.missed = @ \/ console.suppressed,
                              !.stale = @ /\ newline.how # "render"]
    /\ UNCHANGED <<keyboard, pressed, written, keys>>

\* The character that did not fit goes to the new line.
StoreAfterNewline ==
    /\ newline.at = "store"
    /\ newline' = NoNewline
    /\ IF newline.char = "none" THEN UNCHANGED <<console, ghost>>
       ELSE /\ console' = StorePrintable(console, newline.char)
            /\ ghost' = [ghost EXCEPT !.lines = Logged(@, newline.char, console.column),
                                      !.missed = @ \/ console.suppressed]
    /\ UNCHANGED <<keyboard, pressed, written, keys>>

-----------------------------------------------------------------------------
(***************************************************************************)
(* The calls of the kernel.                                                *)
(***************************************************************************)
Call == Idle /\ written < MaxWritten /\ written' = written + 1

WriteChar ==
    /\ Call
    /\ \E ch \in Chars :
         IF console.column >= ShownColumns THEN Advance(ch)
         ELSE /\ console' = StorePrintable(console, ch)
              /\ ghost' = [ghost EXCEPT !.lines = Logged(@, ch, console.column),
                                        !.missed = @ \/ console.suppressed]
              /\ UNCHANGED newline
    /\ UNCHANGED <<keyboard, pressed, keys>>

WriteNewLine == Call /\ Advance("none") /\ UNCHANGED <<keyboard, pressed, keys>>

WriteReturn ==
    /\ Call /\ console' = [console EXCEPT !.column = 0]
    /\ UNCHANGED <<newline, keyboard, pressed, ghost, keys>>

\* The text drawn so far is presented, unless presenting is suppressed.
Redrawn(c) ==
    /\ console' = RenderVisible(c)
    /\ ghost' = [ghost EXCEPT !.stale = FALSE, !.missed = c.suppressed]

Cleared(c) ==
    [c EXCEPT !.cells = [r \in 0..(ScrollbackRows - 1) |-> Blank], !.line = 0, !.column = 0,
              !.total = 1, !.top = 0, !.follows = TRUE]

ClearScreen ==
    /\ Call
    /\ console' = RenderVisible(Cleared(console))
    /\ ghost' = [lines |-> <<Blank>>, stale |-> FALSE, missed |-> console.suppressed]
    /\ UNCHANGED <<newline, keyboard, pressed, keys>>

ScrollToBottom ==
    /\ Call
    /\ Redrawn([console EXCEPT !.top = MaximumViewTop(console), !.follows = TRUE])
    /\ UNCHANGED <<newline, keyboard, pressed, keys>>

\* Ending a deferral presents nothing by itself.
DeferPresent ==
    /\ Call /\ console' = [console EXCEPT !.suppressed = ~@]
    /\ UNCHANGED <<newline, keyboard, pressed, ghost, keys>>

-----------------------------------------------------------------------------
(***************************************************************************)
(* The keyboard interrupt, between any two steps of the kernel.            *)
(***************************************************************************)
Paged == IF ShownRows > 1 THEN ShownRows - 1 ELSE 1

Amount(key) == IF key \in {"pageUp", "pageDown"} THEN Paged ELSE 1

ScrolledUp(c, n) == [c EXCEPT !.top = IF n > c.top THEN 0 ELSE c.top - n, !.follows = FALSE]

ScrolledDown(c, n) ==
    LET max == MaximumViewTop(c)
        top == IF n > max - c.top THEN max ELSE c.top + n
    IN  [c EXCEPT !.top = top, !.follows = (top >= max)]

\* A redraw in the middle of a newline is drawn over by what the newline decided.
PerformScroll(key) ==
    LET up == key \in {"up", "pageUp"}
        max == MaximumViewTop(console)
        moves == IF up THEN console.top # 0 ELSE console.top < max
        after == IF up THEN ScrolledUp(console, Amount(key)) ELSE ScrolledDown(console, Amount(key))
    IN  IF moves
        THEN /\ console' = RenderVisible(after)
             /\ ghost' = [ghost EXCEPT !.stale = newline.at \in {"settle", "draw"},
                                       !.missed = console.suppressed]
        ELSE /\ console' = IF up THEN console ELSE [console EXCEPT !.follows = TRUE]
             /\ UNCHANGED ghost

ExtendedPrefix ==
    /\ keys < MaxKeys /\ keys' = keys + 1
    /\ keyboard' = [keyboard EXCEPT !.prefix = TRUE]
    /\ UNCHANGED <<console, newline, pressed, ghost, written>>

\* A make code, also a repeated one, marks the key held and scrolls.
MakeCode ==
    /\ keys < MaxKeys /\ keys' = keys + 1
    /\ \E key \in Keys :
         /\ pressed' = pressed \cup {<<key, keyboard.prefix>>}
         /\ keyboard' = [held |-> keyboard.held \cup {key}, prefix |-> FALSE]
         /\ PerformScroll(key)
    /\ UNCHANGED <<newline, written>>

\* The prefix is not looked at: a keypad key and its arrow share the field.
Release(held, key, extended) == held \ {key}

BreakCode ==
    /\ keys < MaxKeys /\ keys' = keys + 1
    /\ \E p \in pressed :
         /\ p[2] = keyboard.prefix
         /\ pressed' = pressed \ {p}
         /\ keyboard' = [held |-> Release(keyboard.held, p[1], p[2]), prefix |-> FALSE]
    /\ UNCHANGED <<console, newline, ghost, written>>

-----------------------------------------------------------------------------
\* KConsoleInit: a cleared scrollback, drawn and presented.
ConsoleInit ==
    /\ console = [cells |-> [r \in 0..(ScrollbackRows - 1) |-> Blank], line |-> 0, column |-> 0,
                  total |-> 1, top |-> 0, follows |-> TRUE, back |-> BlankScreen,
                  front |-> BlankScreen, dirty |-> Clean, suppressed |-> FALSE]
    /\ newline = NoNewline
    /\ keyboard = [held |-> {}, prefix |-> FALSE] /\ pressed = {}
    /\ ghost = [lines |-> <<Blank>>, stale |-> FALSE, missed |-> FALSE]
    /\ written = 0 /\ keys = 0

ConsoleNext ==
    \/ WriteChar \/ WriteNewLine \/ WriteReturn \/ ClearScreen \/ ScrollToBottom \/ DeferPresent
    \/ Settle \/ Draw \/ StoreAfterNewline
    \/ ExtendedPrefix \/ MakeCode \/ BreakCode

\* What the proofs use of the constants.
ConsoleConstants ==
    /\ ScrollbackRows \in Nat \ {0} /\ ScrollbackColumns \in Nat \ {0}
    /\ FitRows \in Nat /\ FitColumns \in Nat

ConsoleSpec == ConsoleInit /\ [][ConsoleNext]_consoleVars

-----------------------------------------------------------------------------
(***************************************************************************)
(* Properties.                                                             *)
(***************************************************************************)

\* Types; between calls the view stays within the text and one that follows the
\* tail is at it, however scrolling and text interleave (KernelConsoleScrolling.c).
ConsoleTypeOK ==
    /\ console \in ConsoleState
    /\ console.line = console.total - 1
    /\ Idle => /\ console.top <= MaximumViewTop(console)
               /\ console.follows => console.top = MaximumViewTop(console)

\* The scrollback holds the last lines that were written, in their order, through
\* wrapping and shifting (KConsoleShiftScrollbackUp, KConsoleAppendNewLine).
TextKept ==
    LET n == Len(ghost.lines)
    IN  \A r \in 0..(console.total - 1) : console.cells[r] = ghost.lines[n - console.total + 1 + r]

\* Between calls the back buffer is the selected view, unless a key scrolled inside
\* a newline or the text moved below a view held at the top since the last redraw
\* (KConsoleFastTailScrollPresent, KConsoleStorePrintable).
BackShowsView == Idle /\ ~ghost.stale => console.back = View(console)

\* What the screen shows differs from the back buffer in the dirty cells only, as
\* long as no present was made while presenting was suppressed
\* (KConsoleMarkDirtyCell, KConsolePresentDirtyLine).
FrontShowsBack ==
    ~ghost.missed =>
        \A r \in Rows, k \in Columns :
            \/ console.front[r][k] = console.back[r][k]
            \/ /\ console.dirty.active /\ console.dirty.row = r
               /\ console.dirty.min <= k /\ k <= console.dirty.max

\* No key is taken to be held once no key with its scan code is down
\* (ReleaseScrollKey).
HeldIsPressed == \A key \in keyboard.held : \E e \in BOOLEAN : <<key, e>> \in pressed

\* Text, view, back buffer and screen agree although the keyboard interrupt
\* scrolls between the steps of a newline (KernelConsoleScrolling.c,
\* KernelConsoleDrawing.c, KernelKeyboard.c).
ConsoleSound ==
    /\ ConsoleTypeOK
    /\ TextKept
    /\ BackShowsView
    /\ FrontShowsBack
    /\ HeldIsPressed

=============================================================================
