------------------------------ MODULE FileList ------------------------------
(***************************************************************************)
(* The file list of the browser screen and the preview of the file under   *)
(* its cursor: keys and mouse (internal/frontend/model.go, mouse.go), the  *)
(* commands that fetch thumbnails, and their cache                         *)
(* (internal/thumbnail/thumbnail.go).                                      *)
(*                                                                         *)
(* Rows and offsets count from 0.  Key and toolbar button, wheel and       *)
(* indicator, release of the mouse button and click are the same here.     *)
(***************************************************************************)
EXTENDS Integers, Sequences, FiniteSets, Layout

CONSTANTS
  Handles,    \* object handles
  Lists,      \* the lists of files that a filter may leave: no handle twice
  NoFile,     \* no handle
  Blank,      \* the files for which the camera has no thumbnail: no bytes
  Heights,    \* listHeight: rows of the list in a window of some size
  WheelRows,  \* wheelScrollRows
  CacheSize,  \* DefaultCacheSize: thumbnails kept
  MaxFetches  \* bound: thumbCmd goroutines at the same time

ASSUME FileListAssumption ==
  /\ NoFile \notin Handles /\ Blank \subseteq Handles
  /\ <<>> \in Lists /\ Lists \subseteq Seq(Handles)
  /\ \A l \in Lists : \A i, j \in DOMAIN l : l[i] = l[j] => i = j
  /\ Heights \subseteq Nat \ {0} /\ WheelRows \in Nat \ {0}
  /\ CacheSize \in Nat \ {0} /\ MaxFetches \in Nat \ {0}

VARIABLES
  files,     \* visibleFiles
  h,         \* listHeight
  win,       \* cursor and offset
  screen,    \* "browser", or another screen over it
  overlay,   \* an overlay takes keys and mouse
  thumb,     \* the fields thumbHandle, thumbLoading(Handle), thumbErr(Handle)
  cache,     \* Fetcher.cache: handles, the one used last first
  fetches,   \* thumbCmd goroutines
  dropped    \* history: handles whose last result came to another screen

list == <<files, h, win>>
vars == <<list, screen, overlay, thumb, cache, fetches, dropped>>

Slots   == 1..MaxFetches
NoFetch == [st |-> "none", handle |-> NoFile]
NoThumb == [handle |-> NoFile, loading |-> FALSE, loadingHandle |-> NoFile,
            err |-> FALSE, errHandle |-> NoFile]

\* currentHandle
CurrentOf(fs, w) == IF w.cursor + 1 \in DOMAIN fs THEN fs[w.cursor + 1] ELSE NoFile
Current == CurrentOf(files, win)

InFlight(handle) == \E s \in Slots : fetches[s].st # "none" /\ fetches[s].handle = handle

\* The cursor is on the list, and the list starts at or above it.
TypeOK ==
  /\ files \in Lists /\ h \in Heights
  /\ win \in [cursor : Nat, offset : Nat]
  /\ win.offset <= win.cursor /\ win.cursor <= Most(Len(files) - 1, 0)
  /\ screen \in {"browser", "other"} /\ overlay \in BOOLEAN
  /\ thumb \in [handle : Handles \cup {NoFile}, loading : BOOLEAN, loadingHandle : Handles \cup {NoFile},
                err : BOOLEAN, errHandle : Handles \cup {NoFile}]
  /\ cache \in Seq(Handles) /\ Len(cache) <= CacheSize
  /\ fetches \in [Slots -> [st     : {"none", "get", "ask", "ok", "failed", "stale"},
                            handle : Handles \cup {NoFile}]]
  /\ dropped \subseteq Handles

Init ==
  /\ files = <<>> /\ h \in Heights /\ win = [cursor |-> 0, offset |-> 0]
  /\ screen = "browser" /\ overlay = FALSE
  /\ thumb = NoThumb
  /\ cache = <<>> /\ fetches = [s \in Slots |-> NoFetch]
  /\ dropped = {}

-----------------------------------------------------------------------------
(* The cache *)

Cached(handle) == \E i \in DOMAIN cache : cache[i] = handle

\* lru.get of what is there, and lru.put: to the front, and the oldest goes
ToFront(handle) ==
  LET i == IF Cached(handle) THEN CHOOSE k \in DOMAIN cache : cache[k] = handle
           ELSE Least(Len(cache) + 1, CacheSize)
  IN  [k \in 1..Most(i, Len(cache)) |->
         IF k = 1 THEN handle ELSE IF k <= i THEN cache[k - 1] ELSE cache[k]]

\* fetchCursorThumb, for the list and the window of the next state
FetchCursorThumb ==
  LET c == CurrentOf(files', win')
  IN  IF c = NoFile THEN UNCHANGED <<thumb, cache, fetches, dropped>>
      ELSE IF Cached(c)
      THEN /\ cache' = ToFront(c)
           /\ thumb' = [thumb EXCEPT !.handle = c, !.loading = FALSE]
           /\ UNCHANGED <<fetches, dropped>>
      ELSE /\ \E s \in Slots : /\ fetches[s] = NoFetch /\ \A t \in 1..s - 1 : fetches[t] # NoFetch
                               /\ fetches' = [fetches EXCEPT ![s] = [st |-> "get", handle |-> c]]
           /\ thumb' = [thumb EXCEPT !.loading = TRUE, !.loadingHandle = c,
                                     !.err = @ /\ thumb.errHandle # c]
           /\ dropped' = dropped \ {c}
           /\ UNCHANGED cache

-----------------------------------------------------------------------------
(* The user, on the browser screen with no overlay *)

Ready == screen = "browser" /\ ~overlay

Go(w) == win' = w /\ UNCHANGED <<files, h, screen, overlay>>

\* Arrow and page keys
Move(delta) == Ready /\ Go(MoveCursor(win, delta, Len(files), h)) /\ FetchCursorThumb

\* browserClick: the files whose row a click may hit
FileRows == {FileRowAt(win, Len(files), h, row) : row \in 5..h + 4} \ {-1}

\* home, end, a click on a row, or a double click, which opens the preview as well
GoTo(i) ==
  /\ Ready /\ i \in {0, Len(files) - 1} \cup FileRows
  /\ win' = ClampCursor([win EXCEPT !.cursor = i], Len(files), h)
  /\ overlay' \in BOOLEAN
  /\ UNCHANGED <<files, h, screen>> /\ FetchCursorThumb

\* Mutant of Wheel: the thumbnail of the file that came under the cursor is not
\* asked for.
WheelQuiet(delta) ==
  /\ Ready /\ Go(ScrollList(win, delta, Len(files), h))
  /\ UNCHANGED <<thumb, cache, fetches, dropped>>

\* The wheel over the list
Wheel(delta) == Ready /\ Go(ScrollList(win, delta, Len(files), h)) /\ FetchCursorThumb

\* A click on one of the indicators that there is more
PageUp   == win.offset > 0 /\ Wheel(-h)
PageDown == HasMoreBelow(win, Len(files), h) /\ Wheel(h)

\* space: the file is chosen, which is not modelled, and the cursor goes on; no
\* thumbnail is asked for.
Space ==
  /\ Ready /\ Current # NoFile
  /\ win' = MoveCursor(win, 1, Len(files), h)
  /\ UNCHANGED <<files, h, screen, overlay, thumb, cache, fetches, dropped>>

\* f, or a click on a filter chip: another list, from its top
SetFilter ==
  /\ Ready /\ files' \in Lists /\ win' = [cursor |-> 0, offset |-> 0]
  /\ FetchCursorThumb /\ UNCHANGED <<h, screen, overlay>>

\* enter; P or a click on "Enlarge", which open the preview as well
OpenPreview ==
  /\ Ready /\ overlay' \in BOOLEAN
  /\ UNCHANGED <<list, screen>> /\ FetchCursorThumb

\* D, ?, or t; and the keys and clicks that close an overlay
OpenOverlay ==
  /\ Ready /\ overlay' = TRUE
  /\ UNCHANGED <<list, screen, thumb, cache, fetches, dropped>>

CloseOverlay ==
  /\ screen = "browser" /\ overlay /\ overlay' = FALSE
  /\ UNCHANGED <<list, screen, thumb, cache, fetches, dropped>>

\* s, or a loss of the link, under whatever overlay; and back
OtherScreen ==
  /\ screen' = IF screen = "browser" THEN "other" ELSE "browser"
  /\ UNCHANGED <<list, overlay, thumb, cache, fetches, dropped>>

\* switchCamera, from key c: another cache, and no list until the next body's. The
\* results of what is asked for from the last body still come.
SwitchCamera ==
  /\ Ready /\ screen' = "other"
  /\ files' = <<>> /\ win' = [cursor |-> 0, offset |-> 0]
  /\ thumb' = NoThumb /\ cache' = <<>>
  /\ fetches' = [s \in Slots |-> IF fetches[s].st \in {"get", "ask"}
                                 THEN [fetches[s] EXCEPT !.st = "stale"] ELSE fetches[s]]
  /\ UNCHANGED <<h, overlay, dropped>>

\* WindowSizeMsg: the window of the list stays where it was.
Resize ==
  /\ h' \in Heights
  /\ UNCHANGED <<files, win, screen, overlay, thumb, cache, fetches, dropped>>

-----------------------------------------------------------------------------
(* Messages *)

\* Mutant of TakeRefresh: the cursor stays where it was.
TakeRefreshLoose ==
  /\ screen = "browser" /\ files' \in Lists /\ win' = win
  /\ FetchCursorThumb /\ UNCHANGED <<h, screen, overlay>>

\* refreshMsg without an error: another list, which may have got shorter
TakeRefresh ==
  /\ screen = "browser" /\ files' \in Lists
  /\ win' = ClampCursor(win, Len(files'), h)
  /\ FetchCursorThumb /\ UNCHANGED <<h, screen, overlay>>

\* Fetcher.Get: what has come into the cache in the meantime is not asked for.
Get(s) ==
  /\ fetches[s].st = "get"
  /\ fetches' = [fetches EXCEPT ![s].st = IF Cached(fetches[s].handle) THEN "ok" ELSE "ask"]
  /\ cache' = IF Cached(fetches[s].handle) THEN ToFront(fetches[s].handle) ELSE cache
  /\ UNCHANGED <<list, screen, overlay, thumb, dropped>>

\* GetThumb, of the large thumbnail or else the standard one: an error, or data,
\* perhaps empty, that goes into the cache
Answer(s) ==
  /\ fetches[s].st = "ask"
  /\ \/ fetches' = [fetches EXCEPT ![s].st = "failed"] /\ UNCHANGED cache
     \/ fetches' = [fetches EXCEPT ![s].st = "ok"] /\ cache' = ToFront(fetches[s].handle)
  /\ UNCHANGED <<list, screen, overlay, thumb, dropped>>

\* thumbMsg: only the browser looks at it, and only if it is of the current file.
TakeThumb(s, ok) ==
  LET c == fetches[s].handle
  IN  /\ fetches[s].st \in {IF ok THEN "ok" ELSE "failed", "stale"}
      /\ fetches' = [fetches EXCEPT ![s] = NoFetch]
      /\ dropped' = IF screen = "browser" THEN dropped ELSE dropped \cup {c}
      /\ thumb' = IF screen # "browser" \/ c # Current THEN thumb
                  ELSE IF ok THEN [thumb EXCEPT !.loading = FALSE, !.err = FALSE, !.handle = c]
                  ELSE [thumb EXCEPT !.loading = FALSE, !.err = TRUE, !.errHandle = c]
      /\ UNCHANGED <<list, screen, overlay, cache>>

-----------------------------------------------------------------------------
Next ==
  \/ \E delta \in {-1, 1, -h, h} : Move(delta)
  \/ \E i \in 0..Len(files) : GoTo(i)
  \/ \E delta \in {-WheelRows, WheelRows} : Wheel(delta)
  \/ PageUp \/ PageDown \/ Space \/ SetFilter \/ Resize
  \/ OpenPreview \/ OpenOverlay \/ CloseOverlay \/ OtherScreen \/ SwitchCamera \/ TakeRefresh
  \/ \E s \in Slots : Get(s) \/ Answer(s) \/ TakeThumb(s, TRUE) \/ TakeThumb(s, FALSE)

Spec == Init /\ [][Next]_vars

-----------------------------------------------------------------------------
(* Properties *)

\* renderThumb for the current file, in a terminal that shows images
Pane == IF thumb.handle = Current /\ Current \notin Blank THEN "image"
        ELSE IF thumb.loading /\ thumb.loadingHandle = Current THEN "loading"
        ELSE IF thumb.err /\ thumb.errHandle = Current THEN "unavailable"
        ELSE IF thumb.handle = Current THEN "no preview" ELSE "placeholder"

\* "Loading preview..." is shown of a file only while its thumbnail is on the way,
\* unless the last answer went to another screen (fetchCursorThumb, updateBrowser).
LoadingHasCause == Current # NoFile /\ Pane = "loading" => InFlight(Current) \/ Current \in dropped

\* Whatever moves the cursor or the window, the cursor is in the window; only a
\* resize may leave it outside (clampCursor, scrollList).
CursorIsShown == [][win' # win => win'.cursor < win'.offset + h']_vars
=============================================================================
