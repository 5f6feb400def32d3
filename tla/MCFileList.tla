----------------------------- MODULE MCFileList -----------------------------
(***************************************************************************)
(* An instance of FileList, and the checks of the pure operators of        *)
(* Layout on small inputs, which TLC evaluates before the run.             *)
(***************************************************************************)
EXTENDS FileList

MCLists == {<<>>, <<2>>, <<1, 2, 3>>}

Widths == UNION {[1..k -> {1, 2, 4}] : k \in 1..4}

\* A cell belongs to the button that is drawn there, however the toolbar wraps, and
\* a button leaves the screen only if it is wider (layoutToolbar, renderToolbar,
\* toolbarZoneAt).
ASSUME ToolbarIsExact ==
  \A widths \in Widths, width \in 1..8, height \in {0, 2, 4} :
    LET placed == BottomToolbar(widths, width, height)
    IN  /\ \A line \in 0..3, x \in 0..9 :
             ZoneAt(placed, x, placed[1].y + line) = DrawnAt(placed, x, line)
        /\ \A i \in DOMAIN placed : placed[i].startX = 0 \/ placed[i].endX < width

\* Two filter chips share no cell (layoutFilterChips, filterChipAt).
ASSUME FilterChipsAreApart ==
  \A widths \in Widths :
    LET placed == LayoutFilterChips(widths, 1, 0)
    IN  \A i \in DOMAIN placed :
          \A x \in placed[i].startX..placed[i].endX : ZoneAt(placed, x, 0) = i

\* A click on a file that is drawn goes to that file, in every window and on every
\* scroll, on the screens on which the filter chips take one line: those of 80 columns
\* and more (viewFileList, fileRowAt, scrollList).
ASSUME FileRowsAreExact ==
  \A n \in 0..6, width \in {24, 60, 79, 80, 81, 120}, height \in 8..20, toolbar \in 1..3 :
    LET shown == ListHeight(height, toolbar)
    IN  \A offset \in 0..n :
          LET w     == ScrollList([cursor |-> 0, offset |-> offset], 1, n, shown)
              drawn == ListDrawn(w, n, width, height, toolbar)
          IN  \A row \in DOMAIN drawn :
                (FileRowAt(w, n, shown, row) = drawn[row]) = (width >= 80)

\* A click on a row of the picker goes to the camera that is drawn there, also where
\* the screen is too low (viewPicker, pickerItemAt).
ASSUME PickerRowsAreExact ==
  \A height \in 0..12, count \in 2..5, row \in 0..12 :
    LET drawn == PickerDrawn(height, count)
    IN  PickerItemAt(height, count, row) = IF row \in DOMAIN drawn THEN drawn[row] ELSE -1

\* On a screen that keeps its height, the cursor and the offset of the control panel stay
\* in their ranges (ctrlMoveCursor).  A click on a setting that is drawn goes to it, and
\* a click on the button takes a picture exactly if there are settings and the window
\* ends on the last one or above (controlClick, viewControlOverlay).
ASSUME PanelRowsAreExact ==
  \A n \in 0..5, height \in 12..18 :
    LET rows == CtrlVisibleRows(height, n)
        windows == [cursor : 0..n, offset : 0..Most(n - rows, 0)]
    IN  /\ \A w \in windows, delta \in {-n, -1, 1, n} :
             CtrlMoveCursor(w, delta, n, height) \in windows
        /\ \A w \in [cursor : {0}, offset : 0..7] :
             LET drawn == CtrlDrawn(w, n, height)
                 take  == CtrlTakeLine(w, n, height)
             IN  /\ \A line \in DOMAIN drawn : CtrlHit(w, n, height, line) = drawn[line]
                 /\ (CtrlHit(w, n, height, take) = n) = (n > 0 /\ w.offset + rows <= n)
=============================================================================
