--------------------------- MODULE FileListProofs ---------------------------
(***************************************************************************)
(* Proofs about FileList for any lists, window sizes, cache size and       *)
(* number of fetches: the cursor stays on the list and in its window, and  *)
(* "Loading preview..." has a cause; and about the rows of Layout, on any  *)
(* screen: what is drawn is what a click hits.                             *)
(***************************************************************************)
EXTENDS FileList, TLAPS

\* clampCursor: whatever the cursor was, it is on the list afterwards, in a window
\* that starts at or above it and reaches it.
LEMMA ClampFits ==
  ASSUME NEW w \in [cursor : Int, offset : Nat], NEW n \in Nat, NEW rows \in Nat \ {0}
  PROVE  LET c == ClampCursor(w, n, rows)
         IN  /\ c \in [cursor : Nat, offset : Nat]
             /\ c.offset <= c.cursor /\ c.cursor <= Most(n - 1, 0)
             /\ c.cursor < c.offset + rows
  BY DEF ClampCursor, Most, Least

\* clampCursor goes where it is told if there is such a row.
LEMMA ClampKeeps ==
  ASSUME NEW w \in [cursor : Int, offset : Nat], NEW n \in Nat, NEW rows \in Nat \ {0}
  PROVE  ClampCursor(w, n, rows).cursor <= Most(w.cursor, 0)
  BY DEF ClampCursor, Most, Least

\* scrollList does the same for a window that starts on the list.
LEMMA ScrollFits ==
  ASSUME NEW w \in [cursor : Nat, offset : Nat], NEW n \in Nat, NEW rows \in Nat \ {0},
         NEW delta \in Int
  PROVE  LET c == ScrollList(w, delta, n, rows)
         IN  /\ c \in [cursor : Nat, offset : Nat]
             /\ c.offset <= c.cursor /\ c.cursor <= Most(n - 1, 0)
             /\ c.cursor < c.offset + rows
  BY DEF ScrollList, Most, Least

-----------------------------------------------------------------------------
(* The window *)

WindowOK ==
  /\ files \in Lists /\ h \in Heights
  /\ win \in [cursor : Nat, offset : Nat]
  /\ win.offset <= win.cursor /\ win.cursor <= Most(Len(files) - 1, 0)

\* What an action does that ends in clampCursor, in scrollList or at the top of a list
Clamps  == \E w \in [cursor : Int, offset : Nat] : win' = ClampCursor(w, Len(files'), h)
Scrolls == \E delta \in Int : win' = ScrollList(win, delta, Len(files'), h)
Tops    == win' = [cursor |-> 0, offset |-> 0]

LEMMA ListFacts ==
  ASSUME NEW fs \in Lists, NEW rows \in Heights
  PROVE  Len(fs) \in Nat /\ rows \in Nat \ {0} /\ DOMAIN fs = 1..Len(fs)
  BY FileListAssumption

\* Each of the three leaves the cursor on the list and in the window.
LEMMA WindowMoves ==
  ASSUME WindowOK, files' \in Lists, h' = h, Clamps \/ Scrolls \/ Tops
  PROVE  WindowOK' /\ win'.cursor < win'.offset + h'
<1>1. Len(files') \in Nat /\ h \in Nat \ {0}
  BY ListFacts DEF WindowOK
<1>2. CASE Clamps
  <2>1. PICK w \in [cursor : Int, offset : Nat] : win' = ClampCursor(w, Len(files'), h)
    BY <1>2 DEF Clamps
  <2>2. QED  BY <1>1, <2>1, ClampFits DEF WindowOK
<1>3. CASE Scrolls
  <2>1. PICK delta \in Int : win' = ScrollList(win, delta, Len(files'), h)
    BY <1>3 DEF Scrolls
  <2>2. QED  BY <1>1, <2>1, ScrollFits DEF WindowOK
<1>4. CASE Tops
  BY <1>1, <1>4 DEF Tops, WindowOK, Most
<1>5. QED  BY <1>2, <1>3, <1>4

\* Every step moves the window in one of these ways, or leaves list and window.
LEMMA WindowStep ==
  ASSUME WindowOK, [Next]_vars
  PROVE  \/ files' \in Lists /\ h' = h /\ (Clamps \/ Scrolls \/ Tops)
         \/ UNCHANGED <<files, win>> /\ h' \in Heights
<1> USE DEF WindowOK
<1>0. Len(files) \in Int /\ h \in Int
  BY ListFacts
<1>1. ASSUME NEW delta \in Int, Move(delta)
      PROVE  UNCHANGED <<files, h>> /\ Clamps
  <2>1. [win EXCEPT !.cursor = @ + delta] \in [cursor : Int, offset : Nat]
    OBVIOUS
  <2>2. QED  BY <1>1, <2>1 DEF Move, Go, MoveCursor, Clamps
<1>2. ASSUME NEW i \in Int, GoTo(i)
      PROVE  UNCHANGED <<files, h>> /\ Clamps
  <2>1. [win EXCEPT !.cursor = i] \in [cursor : Int, offset : Nat]
    OBVIOUS
  <2>2. QED  BY <1>2, <2>1 DEF GoTo, Clamps
<1>3. ASSUME NEW delta \in Int, Wheel(delta)
      PROVE  UNCHANGED <<files, h>> /\ Scrolls
  BY <1>3 DEF Wheel, Go, Scrolls
<1>4. CASE Space
  <2>1. [win EXCEPT !.cursor = @ + 1] \in [cursor : Int, offset : Nat]
    OBVIOUS
  <2>2. QED  BY <1>4, <2>1 DEF Space, MoveCursor, Clamps
<1>5. CASE TakeRefresh
  <2>1. win \in [cursor : Int, offset : Nat]
    OBVIOUS
  <2>2. QED  BY <1>5, <2>1 DEF TakeRefresh, Clamps
<1>6. CASE SetFilter  BY <1>6 DEF SetFilter, Tops
<1>7. CASE SwitchCamera
  BY <1>7, FileListAssumption DEF SwitchCamera, Tops
<1>8. CASE Resize  BY <1>8 DEF Resize
<1>9. CASE OpenPreview \/ OpenOverlay \/ CloseOverlay \/ OtherScreen
  BY <1>9 DEF OpenPreview, OpenOverlay, CloseOverlay, OtherScreen, list
<1>10. ASSUME NEW s \in Slots, Get(s) \/ Answer(s) \/ TakeThumb(s, TRUE) \/ TakeThumb(s, FALSE)
       PROVE  UNCHANGED list
  BY <1>10 DEF Get, Answer, TakeThumb
<1>11. CASE UNCHANGED vars  BY <1>11 DEF vars, list
<1>12. QED
  <2>1. \A delta \in {-1, 1, -h, h} : delta \in Int  BY <1>0
  <2>2. \A delta \in {-WheelRows, WheelRows} : delta \in Int  BY FileListAssumption
  <2>3. -h \in Int /\ \A i \in 0..Len(files) : i \in Int  BY <1>0
  <2>4. QED
    BY <1>0, <1>1, <1>2, <1>3, <1>4, <1>5, <1>6, <1>7, <1>8, <1>9, <1>10, <1>11, <2>1, <2>2, <2>3
       DEF Next, PageUp, PageDown, list

THEOREM CursorIsOnList == Spec => []WindowOK
<1>1. Init => WindowOK
  BY FileListAssumption DEF Init, WindowOK, Most
<1>2. WindowOK /\ [Next]_vars => WindowOK'
  <2> SUFFICES ASSUME WindowOK, [Next]_vars PROVE WindowOK'
    OBVIOUS
  <2>1. CASE files' \in Lists /\ h' = h /\ (Clamps \/ Scrolls \/ Tops)
    BY <2>1, WindowMoves
  <2>2. CASE UNCHANGED <<files, win>> /\ h' \in Heights
    BY <2>2 DEF WindowOK
  <2>3. QED  BY <2>1, <2>2, WindowStep
<1>3. QED  BY <1>1, <1>2, PTL DEF Spec

\* After every step that moves the cursor or the window, the cursor is in the window,
\* for every list, height and wheel.
THEOREM CursorStaysShown == Spec => CursorIsShown
<1>1. WindowOK /\ [Next]_vars => [win' # win => win'.cursor < win'.offset + h']_vars
  <2> SUFFICES ASSUME WindowOK, [Next]_vars, win' # win
               PROVE  win'.cursor < win'.offset + h'
    OBVIOUS
  <2>1. QED  BY WindowStep, WindowMoves
<1>2. QED  BY <1>1, CursorIsOnList, PTL DEF Spec, CursorIsShown

-----------------------------------------------------------------------------
(* The preview *)

ThumbTypes ==
  /\ screen \in {"browser", "other"} /\ overlay \in BOOLEAN
  /\ thumb \in [handle : Handles \cup {NoFile}, loading : BOOLEAN, loadingHandle : Handles \cup {NoFile},
                err : BOOLEAN, errHandle : Handles \cup {NoFile}]
  /\ cache \in Seq(Handles) /\ Len(cache) <= CacheSize
  /\ fetches \in [Slots -> [st     : {"none", "get", "ask", "ok", "failed", "stale"},
                            handle : Handles \cup {NoFile}]]
  /\ dropped \subseteq Handles

\* What the pane waits for is not below the cursor: only space leaves it behind.
Behind == thumb.loading => \A i \in DOMAIN files : files[i] = thumb.loadingHandle => i <= win.cursor + 1

\* What the pane waits for, when it is under the cursor, has a fetch or had one.
Sought == thumb.loading /\ Current # NoFile /\ thumb.loadingHandle = Current
            => InFlight(Current) \/ Current \in dropped

LoadInv == WindowOK /\ ThumbTypes /\ Behind /\ Sought

LEMMA CurrentIsHandle ==
  ASSUME NEW fs \in Lists, NEW w \in [cursor : Nat, offset : Nat]
  PROVE  CurrentOf(fs, w) \in Handles \cup {NoFile}
<1>1. fs \in Seq(Handles)  BY FileListAssumption
<1>2. QED  BY <1>1 DEF CurrentOf

\* The cache never holds more than its size.
LEMMA FrontTypes ==
  ASSUME ThumbTypes, NEW handle \in Handles
  PROVE  ToFront(handle) \in Seq(Handles) /\ Len(ToFront(handle)) <= CacheSize
<1> DEFINE i == IF Cached(handle) THEN CHOOSE k \in DOMAIN cache : cache[k] = handle
                ELSE Least(Len(cache) + 1, CacheSize)
           n == Most(i, Len(cache))
           f == [k \in 1..n |-> IF k = 1 THEN handle ELSE IF k <= i THEN cache[k - 1] ELSE cache[k]]
<1>0. cache \in Seq(Handles) /\ Len(cache) \in Nat /\ DOMAIN cache = 1..Len(cache) /\ Len(cache) <= CacheSize
  BY DEF ThumbTypes
<1>1. i \in Nat \ {0} /\ i <= Len(cache) + 1 /\ i <= CacheSize
  <2>1. CASE Cached(handle)  BY <1>0, <2>1, FileListAssumption DEF Cached
  <2>2. CASE ~Cached(handle)  BY <1>0, <2>2, FileListAssumption DEF Least
  <2>3. QED  BY <2>1, <2>2
<1> HIDE DEF i
<1>2. n \in Nat /\ n <= CacheSize /\ n <= Len(cache) + 1 /\ Len(cache) <= n
  BY <1>0, <1>1, FileListAssumption DEF Most
<1>3. \A k \in 1..n : (IF k = 1 THEN handle ELSE IF k <= i THEN cache[k - 1] ELSE cache[k]) \in Handles
  <2> TAKE k \in 1..n
  <2>1. CASE k = 1  BY <2>1
  <2>2. CASE k # 1 /\ k <= i
    <3>1. k - 1 \in 1..Len(cache)  BY <1>0, <1>1, <1>2, <2>2
    <3>2. QED  BY <1>0, <2>2, <3>1
  <2>3. CASE k # 1 /\ ~(k <= i)
    <3>1. k \in 1..Len(cache)  BY <1>0, <1>1, <1>2, <2>3 DEF Most
    <3>2. QED  BY <1>0, <2>3, <3>1
  <2>4. QED  BY <2>1, <2>2, <2>3
<1>4. f \in Seq(Handles) /\ Len(f) = n
  BY <1>2, <1>3
<1>5. ToFront(handle) = f
  BY DEF ToFront, i
<1>6. QED  BY <1>2, <1>4, <1>5

\* fetchCursorThumb, after whatever happened to the list: what the pane waits for is
\* then under the cursor, and on the way.
LEMMA FetchFits ==
  ASSUME LoadInv, WindowOK', FetchCursorThumb, screen' \in {"browser", "other"}, overlay' \in BOOLEAN
  PROVE  ThumbTypes' /\ Behind' /\ Sought'
<1> DEFINE c == CurrentOf(files', win')
<1>1. c = Current' /\ c \in Handles \cup {NoFile}
  BY CurrentIsHandle DEF Current, WindowOK
<1>2. CASE c = NoFile
  <2>1. UNCHANGED <<thumb, cache, fetches, dropped>>
    BY <1>2 DEF FetchCursorThumb
  <2>2. files' = <<>>
    <3>1. files' \in Seq(Handles)  BY FileListAssumption DEF WindowOK
    <3>2. win'.cursor + 1 \notin DOMAIN files'
      BY <1>2, <3>1, FileListAssumption DEF CurrentOf
    <3>3. QED  BY <3>1, <3>2 DEF WindowOK, Most
  <2>3. QED  BY <1>1, <1>2, <2>1, <2>2 DEF LoadInv, ThumbTypes, Behind, Sought
<1>3. CASE c # NoFile /\ Cached(c)
  <2>1. c \in Handles  BY <1>1, <1>3
  <2>2. /\ cache' = ToFront(c) /\ UNCHANGED <<fetches, dropped>>
        /\ thumb' = [thumb EXCEPT !.handle = c, !.loading = FALSE]
    BY <1>3 DEF FetchCursorThumb
  <2>3. cache' \in Seq(Handles) /\ Len(cache') <= CacheSize
    BY <2>1, <2>2, FrontTypes DEF LoadInv
  <2>4. QED  BY <2>1, <2>2, <2>3 DEF LoadInv, ThumbTypes, Behind, Sought
<1>4. CASE c # NoFile /\ ~Cached(c)
  <2>1. c \in Handles  BY <1>1, <1>4
  <2>2. PICK s \in Slots : fetches' = [fetches EXCEPT ![s] = [st |-> "get", handle |-> c]]
    BY <1>4 DEF FetchCursorThumb
  <2>3. /\ thumb' = [thumb EXCEPT !.loading = TRUE, !.loadingHandle = c,
                                  !.err = @ /\ thumb.errHandle # c]
        /\ dropped' = dropped \ {c} /\ UNCHANGED cache
    BY <1>4 DEF FetchCursorThumb
  <2>4. fetches'[s] = [st |-> "get", handle |-> c]
    BY <2>2 DEF LoadInv, ThumbTypes
  <2>5. ThumbTypes'
    <3>1. thumb.err \in BOOLEAN  BY DEF LoadInv, ThumbTypes
    <3>2. fetches' \in [Slots -> [st     : {"none", "get", "ask", "ok", "failed", "stale"},
                                 handle : Handles \cup {NoFile}]]
      BY <2>1, <2>2 DEF LoadInv, ThumbTypes
    <3>3. thumb' \in [handle : Handles \cup {NoFile}, loading : BOOLEAN,
                     loadingHandle : Handles \cup {NoFile}, err : BOOLEAN, errHandle : Handles \cup {NoFile}]
      BY <2>1, <2>3, <3>1 DEF LoadInv, ThumbTypes
    <3>4. QED  BY <2>3, <3>2, <3>3 DEF LoadInv, ThumbTypes
  <2>6. Behind'
    <3>1. files' \in Lists /\ win'.cursor \in Nat  BY DEF WindowOK
    <3>2. win'.cursor + 1 \in DOMAIN files' /\ files'[win'.cursor + 1] = c
      BY <1>4 DEF CurrentOf
    <3>3. \A i \in DOMAIN files' : files'[i] = c => i = win'.cursor + 1
      BY <3>1, <3>2, FileListAssumption
    <3>4. \A i \in DOMAIN files' : files'[i] = c => i <= win'.cursor + 1
      BY <3>1, <3>3
    <3>5. thumb'.loadingHandle = c  BY <2>3 DEF LoadInv, ThumbTypes
    <3>6. QED  BY <3>4, <3>5 DEF Behind
  <2>7. Sought'
    BY <1>1, <2>4 DEF Sought, InFlight
  <2>8. QED  BY <2>5, <2>6, <2>7
<1>5. QED  BY <1>2, <1>3, <1>4

\* Nothing moves, and the fetches stay or come to the pane.
LEMMA SameList ==
  ASSUME LoadInv, UNCHANGED <<files, win, thumb>>,
         InFlight(Current) \/ Current \in dropped => InFlight(Current)' \/ Current' \in dropped'
  PROVE  Behind' /\ Sought'
  BY DEF LoadInv, Behind, Sought, Current

LEMMA SpaceFits ==
  ASSUME LoadInv, WindowOK', Space
  PROVE  Behind' /\ Sought'
<1> USE DEF LoadInv
<1>1. UNCHANGED <<files, thumb, fetches, dropped>>  BY DEF Space
<1>2. win.cursor \in Nat /\ win.offset \in Nat /\ Len(files) \in Nat /\ h \in Nat \ {0}
      /\ DOMAIN files = 1..Len(files) /\ win.cursor <= Most(Len(files) - 1, 0)
  BY ListFacts DEF WindowOK
<1>3. win'.cursor \in {win.cursor, win.cursor + 1}
  <2>1. win \in [cursor : Nat, offset : Nat]  BY DEF WindowOK
  <2>2. win' = ClampCursor([win EXCEPT !.cursor = @ + 1], Len(files), h)
    BY DEF Space, MoveCursor
  <2>3. win'.cursor = Most(Least(win.cursor + 1, Len(files) - 1), 0)
    BY <2>1, <2>2 DEF ClampCursor
  <2>4. QED  BY <1>2, <2>3 DEF Most, Least
<1>4. Behind'
  BY <1>1, <1>2, <1>3 DEF Behind
<1>5. Sought'
  <2>1. CASE win'.cursor = win.cursor
    BY <1>1, <2>1 DEF Sought, Current, CurrentOf, InFlight
  <2>2. CASE win'.cursor = win.cursor + 1 /\ Current' # NoFile
    <3>1. win'.cursor + 1 \in DOMAIN files /\ Current' = files[win'.cursor + 1]
      BY <1>1, <2>2 DEF Current, CurrentOf
    <3>2. ~(win'.cursor + 1 <= win.cursor + 1)
      BY <1>2, <2>2
    <3>3. ~(thumb.loading /\ thumb.loadingHandle = Current')
      BY <3>1, <3>2 DEF Behind
    <3>4. QED  BY <1>1, <3>3 DEF Sought
  <2>3. QED  BY <1>3, <2>1, <2>2 DEF Sought
<1>6. QED  BY <1>4, <1>5

\* A goroutine that is at work is of a file.
Fetching == \A s \in Slots : fetches[s].st # "none" => fetches[s].handle \in Handles

PreviewInv == LoadInv /\ Fetching

LEMMA GetFits ==
  ASSUME PreviewInv, WindowOK', NEW s \in Slots, Get(s) \/ Answer(s)
  PROVE  PreviewInv'
<1> USE DEF PreviewInv, LoadInv
<1> DEFINE c == fetches[s].handle
<1>1. fetches[s].st # "none" /\ c \in Handles
  BY DEF Get, Answer, Fetching
<1>2. PICK st \in {"ask", "ok", "failed"} : fetches' = [fetches EXCEPT ![s].st = st]
  BY DEF Get, Answer
<1>3. UNCHANGED <<list, screen, overlay, thumb, dropped>>
  BY DEF Get, Answer
<1>4. cache' \in Seq(Handles) /\ Len(cache') <= CacheSize
  <2>1. cache' = cache \/ cache' = ToFront(c)
    BY DEF Get, Answer
  <2>2. QED  BY <1>1, <2>1, FrontTypes DEF ThumbTypes
<1>5. ThumbTypes'
  BY <1>2, <1>3, <1>4 DEF ThumbTypes
<1>6. \A t \in Slots : /\ fetches'[t].handle = fetches[t].handle
                       /\ fetches[t].st # "none" => fetches'[t].st # "none"
                       /\ fetches'[t].st # "none" => fetches[t].st # "none"
  BY <1>1, <1>2 DEF ThumbTypes
<1>7. Behind' /\ Sought'
  BY <1>3, <1>6, SameList DEF list, InFlight, Current
<1>8. Fetching'
  BY <1>6 DEF Fetching
<1>9. QED  BY <1>5, <1>7, <1>8

LEMMA TakeFits ==
  ASSUME PreviewInv, WindowOK', NEW s \in Slots, NEW ok \in BOOLEAN, TakeThumb(s, ok)
  PROVE  PreviewInv'
<1> USE DEF PreviewInv, LoadInv
<1> DEFINE c == fetches[s].handle
<1>1. fetches[s].st # "none" /\ c \in Handles
  BY DEF TakeThumb, Fetching
<1>2. /\ fetches' = [fetches EXCEPT ![s] = NoFetch]
      /\ UNCHANGED <<list, screen, overlay, cache>>
  BY DEF TakeThumb
<1>3. dropped' = IF screen = "browser" THEN dropped ELSE dropped \cup {c}
  BY DEF TakeThumb
<1>4. thumb' = IF screen # "browser" \/ c # Current THEN thumb
               ELSE IF ok THEN [thumb EXCEPT !.loading = FALSE, !.err = FALSE, !.handle = c]
               ELSE [thumb EXCEPT !.loading = FALSE, !.err = TRUE, !.errHandle = c]
  BY DEF TakeThumb
<1>5. ThumbTypes'
  <2>1. fetches' \in [Slots -> [st     : {"none", "get", "ask", "ok", "failed", "stale"},
                               handle : Handles \cup {NoFile}]]
    BY <1>2 DEF ThumbTypes, NoFetch
  <2>2. thumb' \in [handle : Handles \cup {NoFile}, loading : BOOLEAN,
                   loadingHandle : Handles \cup {NoFile}, err : BOOLEAN, errHandle : Handles \cup {NoFile}]
    BY <1>1, <1>4 DEF ThumbTypes
  <2>3. QED  BY <1>1, <1>2, <1>3, <2>1, <2>2 DEF ThumbTypes
<1>6. \A t \in Slots \ {s} : fetches'[t] = fetches[t]
  BY <1>2 DEF ThumbTypes
<1>7. fetches'[s] = NoFetch
  BY <1>2 DEF ThumbTypes
<1>8. Behind' /\ Sought'
  <2>1. CASE screen = "browser" /\ c = Current
    <3>1. thumb'.loading = FALSE  BY <1>4, <2>1 DEF ThumbTypes
    <3>2. QED  BY <3>1 DEF Behind, Sought
  <2>2. CASE ~(screen = "browser" /\ c = Current)
    <3>1. UNCHANGED <<files, win, thumb>>  BY <1>2, <1>4, <2>2 DEF list
    <3>2. dropped \subseteq dropped' /\ (c = Current => Current \in dropped')
      BY <1>3, <2>2
    <3>3. InFlight(Current) /\ c # Current => InFlight(Current)'
      BY <1>6, <3>1 DEF InFlight, Current
    <3>4. QED  BY <3>1, <3>2, <3>3, SameList DEF Current
  <2>3. QED  BY <2>1, <2>2
<1>9. Fetching'
  BY <1>6, <1>7 DEF Fetching, NoFetch
<1>10. QED  BY <1>5, <1>8, <1>9

\* fetchCursorThumb asks for a file.
LEMMA FetchFetching ==
  ASSUME PreviewInv, FetchCursorThumb, WindowOK'
  PROVE  Fetching'
<1> DEFINE c == CurrentOf(files', win')
<1>1. CASE UNCHANGED fetches  BY <1>1 DEF PreviewInv, Fetching
<1>2. CASE \E s \in Slots : fetches' = [fetches EXCEPT ![s] = [st |-> "get", handle |-> c]] /\ c # NoFile
  <2>1. c \in Handles  BY <1>2, CurrentIsHandle DEF WindowOK
  <2>2. QED  BY <1>2, <2>1 DEF PreviewInv, LoadInv, ThumbTypes, Fetching
<1>3. QED  BY <1>1, <1>2 DEF FetchCursorThumb

LEMMA PreviewInit == Init => WindowOK /\ PreviewInv
<1> SUFFICES ASSUME Init PROVE WindowOK /\ PreviewInv
  OBVIOUS
<1>1. WindowOK  BY FileListAssumption DEF Init, WindowOK, Most
<1>2. ThumbTypes
  <2>1. fetches \in [Slots -> [st     : {"none", "get", "ask", "ok", "failed", "stale"},
                              handle : Handles \cup {NoFile}]]
    BY DEF Init, NoFetch
  <2>2. thumb \in [handle : Handles \cup {NoFile}, loading : BOOLEAN,
                  loadingHandle : Handles \cup {NoFile}, err : BOOLEAN, errHandle : Handles \cup {NoFile}]
    BY DEF Init, NoThumb
  <2>3. cache \in Seq(Handles) /\ Len(cache) <= CacheSize
    BY FileListAssumption DEF Init
  <2>4. QED  BY <2>1, <2>2, <2>3 DEF Init, ThumbTypes
<1>3. Behind /\ Sought /\ Fetching
  BY DEF Init, NoThumb, NoFetch, Behind, Sought, Fetching
<1>4. QED  BY <1>1, <1>2, <1>3 DEF PreviewInv, LoadInv

LEMMA PreviewStep == PreviewInv /\ WindowOK' /\ [Next]_vars => PreviewInv'
<1> SUFFICES ASSUME PreviewInv, WindowOK', [Next]_vars PROVE PreviewInv'
  OBVIOUS
<1> USE DEF PreviewInv, LoadInv
\* The actions that end in fetchCursorThumb
<1>1. ASSUME FetchCursorThumb, screen' \in {"browser", "other"}, overlay' \in BOOLEAN
      PROVE  PreviewInv'
  BY <1>1, FetchFits, FetchFetching
<1>2. ASSUME NEW delta, Move(delta)
      PROVE  PreviewInv'
  BY <1>1, <1>2 DEF Move, Go, ThumbTypes
<1>3. ASSUME NEW i, GoTo(i)
      PROVE  PreviewInv'
  BY <1>1, <1>3 DEF GoTo, ThumbTypes
<1>4. ASSUME NEW delta, Wheel(delta)
      PROVE  PreviewInv'
  BY <1>1, <1>4 DEF Wheel, Go, ThumbTypes
<1>5. CASE SetFilter \/ OpenPreview \/ TakeRefresh
  BY <1>1, <1>5 DEF SetFilter, OpenPreview, TakeRefresh, ThumbTypes
\* The others
<1>6. CASE Space
  BY <1>6, SpaceFits DEF Space, ThumbTypes, Fetching
<1>7. CASE SwitchCamera
  <2>1. /\ screen' = "other" /\ thumb' = NoThumb /\ cache' = <<>> /\ UNCHANGED <<h, overlay, dropped>>
        /\ fetches' = [s \in Slots |-> IF fetches[s].st \in {"get", "ask"}
                                       THEN [fetches[s] EXCEPT !.st = "stale"] ELSE fetches[s]]
    BY <1>7 DEF SwitchCamera
  <2>2. fetches' \in [Slots -> [st     : {"none", "get", "ask", "ok", "failed", "stale"},
                               handle : Handles \cup {NoFile}]]
    BY <2>1 DEF ThumbTypes
  <2>3. ThumbTypes'  BY <2>1, <2>2, FileListAssumption DEF ThumbTypes, NoThumb
  <2>4. Behind' /\ Sought'  BY <2>1 DEF NoThumb, Behind, Sought
  <2>5. Fetching'  BY <2>1 DEF ThumbTypes, Fetching
  <2>6. QED  BY <2>3, <2>4, <2>5
<1>8. CASE Resize \/ OpenOverlay \/ CloseOverlay \/ OtherScreen \/ UNCHANGED vars
  <2>1. UNCHANGED <<files, win, thumb, cache, fetches, dropped>>
    BY <1>8 DEF Resize, OpenOverlay, CloseOverlay, OtherScreen, vars, list
  <2>2. screen' \in {"browser", "other"} /\ overlay' \in BOOLEAN
    BY <1>8 DEF Resize, OpenOverlay, CloseOverlay, OtherScreen, vars, ThumbTypes
  <2>3. Behind' /\ Sought'
    BY <2>1, SameList DEF Current, InFlight
  <2>4. QED  BY <2>1, <2>2, <2>3 DEF ThumbTypes, Fetching
<1>9. ASSUME NEW s \in Slots, Get(s) \/ Answer(s)
      PROVE  PreviewInv'
  BY <1>9, GetFits
<1>10. ASSUME NEW s \in Slots, TakeThumb(s, TRUE) \/ TakeThumb(s, FALSE)
       PROVE  PreviewInv'
  BY <1>10, TakeFits
<1>11. QED
  BY <1>2, <1>3, <1>4, <1>5, <1>6, <1>7, <1>8, <1>9, <1>10 DEF Next, PageUp, PageDown

THEOREM PreviewSafe == Spec => []PreviewInv
  BY PreviewInit, PreviewStep, CursorIsOnList, PTL DEF Spec

\* The types, and the cursor on the list at or below the first row shown.
THEOREM FileListTypes == Spec => []TypeOK
<1>1. WindowOK /\ PreviewInv => TypeOK
  BY DEF WindowOK, PreviewInv, LoadInv, ThumbTypes, TypeOK
<1>2. QED  BY <1>1, CursorIsOnList, PreviewSafe, PTL

\* For any number of fetches: a pane that waits has a fetch on its way, or one whose
\* answer another screen dropped.
THEOREM LoadingIsCaused == Spec => []LoadingHasCause
<1>1. PreviewInv => LoadingHasCause
  BY DEF PreviewInv, LoadInv, Sought, Pane, LoadingHasCause
<1>2. QED  BY <1>1, PreviewSafe, PTL

-----------------------------------------------------------------------------
(* Where clicks go (Layout) *)

\* A click on a file that is drawn goes to that file, in every window and for any list,
\* height and toolbar, exactly on the screens of 80 columns and more; on a narrower one
\* the chips take a second line and the click goes to the next file or to none
\* (listPaneWidth, viewFileList, fileRowAt).
THEOREM ClicksHitTheirFile ==
  ASSUME NEW n \in Nat, NEW width \in Nat, width >= 24, NEW height \in Nat, NEW toolbar \in Nat,
         NEW w \in [cursor : Nat, offset : Nat],
         NEW row \in DOMAIN ListDrawn(w, n, width, height, toolbar)
  PROVE  LET hit  == FileRowAt(w, n, ListHeight(height, toolbar), row)
             file == ListDrawn(w, n, width, height, toolbar)[row]
         IN  IF width >= 80 THEN hit = file ELSE hit \in {file + 1, -1}
<1>1. width >= 80 => ChipLines(width) = 1
  BY DEF ChipLines, ListPaneWidth, Least
<1>2. width < 80 => ChipLines(width) = 2
  BY DEF ChipLines, ListPaneWidth, Least
<1>3. CASE width >= 80
  BY <1>1, <1>3 DEF FileRowAt, ListDrawn, ListHeight, Least, Most
<1>4. CASE width < 80
  BY <1>2, <1>4 DEF FileRowAt, ListDrawn, ListHeight, Least, Most
<1>5. QED  BY <1>3, <1>4

\* A click in the picker goes to the camera that is drawn on that row, and nowhere else to
\* any, however low the screen (viewPicker, pickerItemAt).
THEOREM ClicksHitTheirCamera ==
  ASSUME NEW height \in Nat, NEW count \in Nat, NEW row \in Nat
  PROVE  PickerItemAt(height, count, row) =
           LET drawn == PickerDrawn(height, count) IN IF row \in DOMAIN drawn THEN drawn[row] ELSE -1
<1>1. PickerTop(height, count) = Placed(height, count + 4)
  BY DEF PickerTop, Placed, Most
<1>2. PickerTop(height, count) \in Nat
  BY DEF PickerTop, Most
<1>3. QED  BY <1>1, <1>2 DEF PickerItemAt, PickerDrawn

\* The windows of the control panel on n settings
PanelWindows(n, height) == [cursor : 0..n, offset : 0..Most(n - CtrlVisibleRows(height, n), 0)]

\* As long as the screen keeps its height, the cursor of the control panel stays on its
\* rows, and the panel never scrolls past its last setting (ctrlMoveCursor).
THEOREM PanelStaysOnRows ==
  ASSUME NEW n \in Nat, NEW height \in Nat, NEW w \in PanelWindows(n, height), NEW delta \in Int
  PROVE  CtrlMoveCursor(w, delta, n, height) \in PanelWindows(n, height)
<1>1. CtrlVisibleRows(height, n) \in Nat \ {0}
  BY DEF CtrlVisibleRows, Least, Most
<1>2. QED  BY <1>1 DEF CtrlMoveCursor, PanelWindows, Least, Most

\* A click on a setting that is drawn goes to that setting, in every window of the panel,
\* also one that a shorter list or a higher screen has left below the last setting
\* (viewControlOverlay, controlClick, handleControlMsg).
THEOREM ClicksHitTheirSetting ==
  ASSUME NEW n \in Nat, NEW height \in Nat, NEW w \in [cursor : Nat, offset : Nat],
         NEW line \in DOMAIN CtrlDrawn(w, n, height)
  PROVE  CtrlHit(w, n, height, line) = CtrlDrawn(w, n, height)[line]
  BY DEF CtrlHit, CtrlDrawn, CtrlVisibleRows, Least, Most

\* A click on the button of the panel takes a picture exactly if the panel has settings and
\* its window does not reach below the last one: not on a panel without settings, whose
\* text takes two lines, nor in a window that a shorter list or a higher screen has left
\* too low (viewControlOverlay, controlClick, handleControlMsg).
THEOREM ClicksTakeThePhoto ==
  ASSUME NEW n \in Nat, NEW height \in Nat, NEW w \in [cursor : Nat, offset : Nat]
  PROVE  CtrlHit(w, n, height, CtrlTakeLine(w, n, height)) = n
           <=> n > 0 /\ w.offset + CtrlVisibleRows(height, n) <= n
<1>1. /\ CtrlVisibleRows(height, n) \in Nat \ {0}
      /\ n > 0 => CtrlVisibleRows(height, n) <= n
      /\ n = 0 => CtrlVisibleRows(height, n) = 1
  BY DEF CtrlVisibleRows, Least, Most
<1>2. QED  BY <1>1 DEF CtrlHit, CtrlTakeLine, Least, Most
=============================================================================
