------------------------------- MODULE Layout -------------------------------
(***************************************************************************)
(* The geometry of the terminal interface: the window of a list that       *)
(* scrolls (internal/frontend/model.go, mouse.go, control.go) and the rows *)
(* of buttons (internal/frontend/toolbar.go).  Rows, columns and indices   *)
(* count from 0, as in the code.                                           *)
(***************************************************************************)
LOCAL INSTANCE Integers
LOCAL INSTANCE Sequences
LOCAL INSTANCE SequencesExt

Least(a, b) == IF a < b THEN a ELSE b
Most(a, b)  == IF a > b THEN a ELSE b

-----------------------------------------------------------------------------
(* A window [cursor, offset] on n rows, of which h are shown *)

\* Mutant of ClampCursor: the cursor may be one row below the last one shown.
ClampCursorShort(win, n, h) ==
  LET cursor == Most(Least(win.cursor, n - 1), 0)
      low    == Least(win.offset, cursor)
  IN  [cursor |-> cursor, offset |-> Most(IF cursor > low + h THEN cursor - h + 1 ELSE low, 0)]

\* clampCursor
ClampCursor(win, n, h) ==
  LET cursor == Most(Least(win.cursor, n - 1), 0)
      low    == Least(win.offset, cursor)
  IN  [cursor |-> cursor,
       offset |-> Most(IF cursor >= low + h THEN cursor - h + 1 ELSE low, 0)]

MoveCursor(win, delta, n, h) == ClampCursor([win EXCEPT !.cursor = @ + delta], n, h)

\* scrollList: the cursor is dragged along.
ScrollList(win, delta, n, h) ==
  LET offset == Most(Least(win.offset + delta, Most(n - h, 0)), 0)
      inside == Least(Most(win.cursor, offset), offset + h - 1)
  IN  [cursor |-> Most(Least(inside, n - 1), 0), offset |-> offset]

HasMoreBelow(win, n, h) == win.offset + h < n

\* listHeight, for a toolbar of so many lines; the bars and the frame of the pane
\* take nine rows.
ListHeight(height, toolbar) == Most(height - toolbar - 9, 1)

\* listPaneWidth: the pane of the files, with its frame
ListPaneWidth(width) ==
  LET part == (width * 55) \div 100 IN IF part < 30 THEN Least(30, width - 2) ELSE part

\* renderFilterChips in the pane of viewBody: the lines that the 42 cells of the chips
\* take there, on a screen of at least 24 columns
ChipLines(width) == IF 42 <= ListPaneWidth(width) - 2 THEN 1 ELSE 2

\* viewFileList in the pane of viewBody: the files drawn, by row of the screen. The
\* bars, the frame, the title, the filter chips and the upper indicator are above.
ListDrawn(win, n, width, height, toolbar) ==
  LET visible == Most(Most(height - toolbar - 5, 5) - 6, 1)
      end     == Least(win.offset + visible, n)
      top     == 4 + ChipLines(width)
  IN  [row \in top..top + end - win.offset - 1 |-> win.offset + row - top]

\* fileRowAt: the file whose row is clicked on, or -1
FileRowAt(win, n, h, row) ==
  IF row - 5 \in 0..h - 1 /\ win.offset + row - 5 < n THEN win.offset + row - 5 ELSE -1

\* pickerTop, and pickerItemAt: the camera of the picker on a row, or -1
PickerTop(height, count) == Most(height - (count + 4), 0) \div 2
PickerItemAt(height, count, row) ==
  LET i == row - PickerTop(height, count) - 2 IN IF i \in 0..count - 1 THEN i ELSE -1

\* lipgloss.Place: the first row of a block in the middle of a screen
Placed(height, lines) ==
  IF height <= lines THEN 0 ELSE (height - lines) - (height - lines + 1) \div 2

\* viewPicker: a title, an empty line, the cameras, another one and a hint
PickerDrawn(height, count) ==
  LET top == Placed(height, count + 4)
  IN  [row \in top + 2..top + count + 1 |-> row - top - 2]

\* ctrlVisibleRows: the settings that fit into the panel of a screen
CtrlVisibleRows(height, n) == Most(Least(Most(height - 12, 3), n), 1)

\* ctrlMoveCursor: row n is the button below the n settings.
CtrlMoveCursor(win, delta, n, height) ==
  LET h      == CtrlVisibleRows(height, n)
      cursor == Least(Most(win.cursor + delta, 0), n)
      low    == Least(win.offset, cursor)
      offset == IF cursor >= n THEN win.offset
                ELSE IF cursor >= low + h THEN cursor - h + 1 ELSE low
  IN  [cursor |-> cursor, offset |-> Most(offset, 0)]

\* viewControlOverlay: the cells of a line of the panel, and whether a row, which has
\* 36, fits. The two operators below are for a screen on which it does.
CtrlTextWidth(width) == (IF width - 6 \in 21..39 THEN width - 6 ELSE 40) - 4
CtrlFits(width) == CtrlTextWidth(width) >= 36

\* viewControlOverlay: the settings drawn, from the first line of the content on; the
\* button is drawn below them and an empty line. The text of a panel without settings
\* takes two lines.
CtrlDrawn(win, n, height) ==
  [line \in 0..Least(win.offset + CtrlVisibleRows(height, n), n) - win.offset - 1 |-> win.offset + line]
CtrlTakeLine(win, n, height) ==
  IF n = 0 THEN 3 ELSE Most(Least(win.offset + CtrlVisibleRows(height, n), n) - win.offset, 0) + 1

\* controlClick and ctrlHoverZone: the row a click on a line goes to, or -1
CtrlHit(win, n, height, line) ==
  LET h == CtrlVisibleRows(height, n)
  IN  IF line \in 0..h - 1 /\ win.offset + line < n THEN win.offset + line
      ELSE IF line = h + 1 THEN n ELSE -1

-----------------------------------------------------------------------------
(* Rows of buttons *)

\* layoutToolbar: chips in a row of a given width, one cell apart, wrapping
LayoutToolbar(widths, width, y0) ==
  LET Place(acc, w) ==
        LET wraps == acc.x > 0 /\ acc.x + w > width
            x     == IF wraps THEN 0 ELSE acc.x
            y     == IF wraps THEN acc.y + 1 ELSE acc.y
        IN  [x |-> x + w + 1, y |-> y,
             placed |-> Append(acc.placed, [startX |-> x, endX |-> x + w - 1, y |-> y])]
  IN  FoldLeft(Place, [x |-> 0, y |-> y0, placed |-> <<>>], widths).placed

\* browserToolbarLayout, connectToolbarLayout: the toolbar is at the bottom.
BottomToolbar(widths, width, height) ==
  LET placed == LayoutToolbar(widths, width, 0)
      y0     == Most(height - (placed[Len(placed)].y + 1), 0)
  IN  LayoutToolbar(widths, width, y0)

\* layoutFilterChips: one row that does not wrap, with a separator of three
LayoutFilterChips(widths, x0, y) ==
  LET Place(placed, w) ==
        LET x == IF placed = <<>> THEN x0 ELSE placed[Len(placed)].endX + 4
        IN  Append(placed, [startX |-> x, endX |-> x + w - 1, y |-> y])
  IN  FoldLeft(Place, <<>>, widths)

\* toolbarZoneAt, filterChipAt: the first that contains the cell, or 0
ZoneAt(placed, x, y) ==
  LET hit == {i \in DOMAIN placed : y = placed[i].y /\ x \in placed[i].startX..placed[i].endX}
  IN  IF hit = {} THEN 0 ELSE CHOOSE i \in hit : \A j \in hit : i <= j

\* renderToolbar: the chip drawn at a column of a line, or 0. Each is padded up to
\* its column from the end of the one before.
DrawnAt(placed, x, line) ==
  LET Draw(acc, i) ==
        IF placed[i].y - placed[1].y # line THEN acc
        ELSE LET from == Most(placed[i].startX, acc.x)
                 to   == from + placed[i].endX - placed[i].startX
             IN  [x |-> to + 1, at |-> IF x \in from..to THEN i ELSE acc.at]
  IN  FoldLeft(Draw, [x |-> 0, at |-> 0], [i \in DOMAIN placed |-> i]).at
=============================================================================
