--------------------------- MODULE BrowserProofs ---------------------------
(***************************************************************************)
(* Proofs about Browser for any number of frames, refreshes, timers and    *)
(* events and any capacity of the importer's channel: an import run is     *)
(* never left without a listener unless the connect screen drops an event  *)
(* of it.                                                                  *)
(***************************************************************************)
EXTENDS Browser, TLAPS

\* The settings screen is never opened during an import (openSettings is behind
\* !m.importing); only a lost connection leaves the browser.
ImportOnBrowser == importing => screen # "settings"

HeardInv == TypeOK /\ ImportOnBrowser /\ ImportIsHeard

LEMMA InitHeard == Init => HeardInv
<1> SUFFICES ASSUME Init PROVE HeardInv
  OBVIOUS
<1>1. refresh \in [Slots -> [st : {"none", "listing", "ok", "failed"}, seen : SUBSET Photos]]
  BY DEF Init, NoRefresh
<1>2. ticks \in 0..MaxTicks /\ events \in 0..MaxEvents /\ buffer \in 0..ChanCap
  BY BrowserAssumption DEF Init
<1>3. QED
  BY <1>1, <1>2 DEF Init, HeardInv, TypeOK, ImportOnBrowser, ImportIsHeard

\* Starting or not starting a refresh keeps the types of its variables.
LEMMA RefreshTypes ==
  ASSUME TypeOK, StartRefresh \/ NoNewRefresh
  PROVE  /\ refreshing' \in BOOLEAN
         /\ refresh' \in [Slots -> [st : {"none", "listing", "ok", "failed"}, seen : SUBSET Photos]]
         /\ deaf' \subseteq deaf
         /\ "importEventMsg" \in deaf' <=> "importEventMsg" \in deaf
<1>1. CASE NoNewRefresh  BY <1>1 DEF NoNewRefresh, TypeOK
<1>2. CASE StartRefresh
  <2>1. PICK s \in Slots : refresh' = [refresh EXCEPT ![s].st = "listing"]
    BY <1>2 DEF StartRefresh
  <2>2. QED  BY <1>2, <2>1 DEF StartRefresh, TypeOK
<1>3. QED  BY <1>1, <1>2

\* A new import is heard from its first event on.
LEMMA StartImportHeard ==
  ASSUME HeardInv, NEW list \in SUBSET Photos, StartImport(list), screen' = "browser"
  PROVE  /\ importing' \in BOOLEAN /\ run' \in {"none", "running", "closed"}
         /\ queue' \subseteq Photos /\ buffer' \in 0..ChanCap
         /\ wait' \in {"none", "receiving", "event", "end"} /\ db' \subseteq Photos
         /\ ImportOnBrowser' /\ ImportIsHeard'
  BY BrowserAssumption DEF HeardInv, TypeOK, StartImport, ImportOnBrowser, ImportIsHeard

\* What is not about imports leaves them heard.
LEMMA ImportUntouched ==
  ASSUME HeardInv, UNCHANGED <<importing, run, wait>>,
         "importEventMsg" \in deaf => "importEventMsg" \in deaf',
         screen' = "settings" => screen = "settings" \/ ~importing
  PROVE  ImportOnBrowser' /\ ImportIsHeard'
  BY DEF HeardInv, ImportOnBrowser, ImportIsHeard

LEMMA NextHeard == HeardInv /\ [Next]_vars => HeardInv'
<1> SUFFICES ASSUME HeardInv, [Next]_vars PROVE HeardInv'
  OBVIOUS
<1> USE BrowserAssumption DEF HeardInv
<1>t. TypeOK  OBVIOUS
<1>1. CASE Shoot
  <2>1. events' \in 0..MaxEvents /\ card' \subseteq Photos
    BY <1>1, <1>t DEF Shoot, TypeOK
  <2>2. QED
    BY <1>1, <2>1 DEF Shoot, import, TypeOK, ImportOnBrowser, ImportIsHeard
<1>2. ASSUME NEW s \in Slots, ListFiles(s)
      PROVE  HeardInv'
  <2>1. refresh' \in [Slots -> [st : {"none", "listing", "ok", "failed"}, seen : SUBSET Photos]]
    BY <1>2, <1>t DEF ListFiles, Listings, TypeOK
  <2>2. QED
    BY <1>2, <2>1 DEF ListFiles, camera, import, TypeOK, ImportOnBrowser, ImportIsHeard
<1>3. ASSUME NEW s \in Slots, TakeRefresh(s)
      PROVE  HeardInv'
  <2>1. /\ refresh[s].seen \subseteq Photos
        /\ refresh' \in [Slots -> [st : {"none", "listing", "ok", "failed"}, seen : SUBSET Photos]]
    BY <1>3, <1>t DEF TakeRefresh, NoRefresh, TypeOK
  <2>2. /\ files' \in SUBSET Photos /\ refreshing' \in BOOLEAN
        /\ screen' \in {"browser", "settings", "connect"} /\ (screen' = "settings" => screen = "settings")
        /\ deaf' \subseteq {"refreshMsg", "watchTickMsg", "importEventMsg"}
        /\ "importEventMsg" \in deaf => "importEventMsg" \in deaf'
    BY <1>3, <2>1, <1>t DEF TakeRefresh, Dropped, TypeOK
  <2>3. CASE UNCHANGED <<importing, import>>
    <3>1. ImportOnBrowser' /\ ImportIsHeard'
      BY <2>2, <2>3, ImportUntouched DEF import
    <3>2. QED  BY <1>3, <2>1, <2>2, <2>3, <3>1 DEF TakeRefresh, camera, import, TypeOK
  <2>4. CASE screen' = "browser" /\ StartImport(files')
    BY <1>3, <2>1, <2>2, <2>4, StartImportHeard DEF TakeRefresh, camera, TypeOK
  <2>5. QED  BY <1>3, <2>2, <2>3, <2>4 DEF TakeRefresh
<1>4. CASE TakeObjectAdded \/ TakeTick
  <2>1. /\ refreshing' \in BOOLEAN
        /\ refresh' \in [Slots -> [st : {"none", "listing", "ok", "failed"}, seen : SUBSET Photos]]
        /\ deaf' \subseteq {"refreshMsg", "watchTickMsg", "importEventMsg"}
        /\ "importEventMsg" \in deaf => "importEventMsg" \in deaf'
    BY <1>4, <1>t, RefreshTypes DEF TakeObjectAdded, TakeTick, Dropped, TypeOK
  <2>2. events' \in 0..MaxEvents /\ ticks' \in 0..MaxTicks
    BY <1>4, <1>t DEF TakeObjectAdded, TakeTick, camera, TypeOK
  <2>3. /\ card' \subseteq Photos
        /\ UNCHANGED <<files, screen, importing, watch, auto, import>>
    BY <1>4, <1>t DEF TakeObjectAdded, TakeTick, camera, TypeOK
  <2>4. ImportOnBrowser' /\ ImportIsHeard'
    BY <2>1, <2>3, ImportUntouched DEF import
  <2>5. QED
    BY <2>1, <2>2, <2>3, <2>4 DEF import, TypeOK
<1>5. CASE ImportFile \/ ImportEnds \/ ReceiveEvent \/ TakeImportEvent
  <2>1. /\ UNCHANGED <<camera, files, screen, refreshing, importing, watch, auto, refresh, ticks>>
        /\ deaf' \subseteq {"refreshMsg", "watchTickMsg", "importEventMsg"}
    BY <1>5, <1>t DEF ImportFile, ImportEnds, ReceiveEvent, TakeImportEvent, Dropped, TypeOK
  <2>2. queue' \subseteq Photos /\ db' \subseteq Photos /\ run' \in {"none", "running", "closed"}
        /\ wait' \in {"none", "receiving", "event", "end"}
    BY <1>5, <1>t DEF ImportFile, ImportEnds, ReceiveEvent, TakeImportEvent, TypeOK
  <2>3. buffer' \in 0..ChanCap
    BY <1>5, <1>t DEF ImportFile, ImportEnds, ReceiveEvent, TakeImportEvent, TypeOK
  <2>4. ImportOnBrowser' /\ ImportIsHeard'
    BY <1>5 DEF ImportFile, ImportEnds, ReceiveEvent, TakeImportEvent, Dropped, ImportOnBrowser,
       ImportIsHeard
  <2>5. QED  BY <2>1, <2>2, <2>3, <2>4 DEF camera, TypeOK
<1>6. CASE TakeImportEnd
  <2>1. /\ refreshing' \in BOOLEAN
        /\ refresh' \in [Slots -> [st : {"none", "listing", "ok", "failed"}, seen : SUBSET Photos]]
        /\ deaf' \subseteq {"refreshMsg", "watchTickMsg", "importEventMsg"}
    BY <1>6, <1>t, RefreshTypes DEF TakeImportEnd, Dropped, TypeOK
  <2>2. ImportOnBrowser' /\ ImportIsHeard'
    <3>1. CASE screen = "browser"
      BY <1>6, <3>1 DEF TakeImportEnd, ImportOnBrowser, ImportIsHeard
    <3>2. CASE screen # "browser"
      BY <1>6, <3>2 DEF TakeImportEnd, Dropped, ImportOnBrowser, ImportIsHeard
    <3>3. QED  BY <3>1, <3>2
  <2>3. QED
    BY <1>6, <2>1, <2>2 DEF TakeImportEnd, camera, TypeOK
<1>7. CASE KeyRefresh
  BY <1>7, RefreshTypes DEF KeyRefresh, camera, import, TypeOK, ImportOnBrowser, ImportIsHeard
<1>8. CASE KeyImport
  BY <1>8, StartImportHeard DEF KeyImport, camera, TypeOK
<1>9. CASE KeyWatch
  <2>1. ticks' \in 0..MaxTicks
    BY <1>9, <1>t DEF KeyWatch, TypeOK
  <2>2. QED
    BY <1>9, <2>1 DEF KeyWatch, camera, import, TypeOK, ImportOnBrowser, ImportIsHeard
<1>10. CASE OpenSettings \/ CloseSettings
  <2>1. CASE OpenSettings
    BY <2>1 DEF OpenSettings, camera, import, TypeOK, ImportOnBrowser, ImportIsHeard
  <2>2. CASE CloseSettings
    BY <2>2 DEF CloseSettings, camera, import, TypeOK, ImportOnBrowser, ImportIsHeard
  <2>3. QED  BY <1>10, <2>1, <2>2
<1>11. CASE TakeConnected \/ KeySwitch
  <2>1. /\ refreshing' \in BOOLEAN
        /\ refresh' \in [Slots -> [st : {"none", "listing", "ok", "failed"}, seen : SUBSET Photos]]
        /\ deaf' \subseteq deaf /\ ("importEventMsg" \in deaf => "importEventMsg" \in deaf')
        /\ card' \subseteq Photos /\ files' \subseteq Photos
        /\ screen' \in {"browser", "connect"} /\ watch' \in BOOLEAN
        /\ UNCHANGED <<events, importing, auto, ticks, import>>
    BY <1>11, <1>t, RefreshTypes DEF TakeConnected, KeySwitch, camera, TypeOK
  <2>2. ImportOnBrowser' /\ ImportIsHeard'
    BY <2>1, ImportUntouched DEF import
  <2>3. QED  BY <2>1, <2>2 DEF import, TypeOK
<1>12. CASE UNCHANGED vars
  BY <1>12 DEF vars, camera, import, TypeOK, ImportOnBrowser, ImportIsHeard
<1>13. QED
  BY <1>1, <1>2, <1>3, <1>4, <1>5, <1>6, <1>7, <1>8, <1>9, <1>10, <1>11, <1>12
  DEF Next, Refreshes, Importing

-----------------------------------------------------------------------------
(* Polling *)

LEMMA StartRefreshPolls ==
  ASSUME TypeOK, PollingHasCause, StartRefresh \/ NoNewRefresh, UNCHANGED watch,
         ticks' \in Nat, ticks' >= ticks
  PROVE  PollingHasCause'
<1>1. CASE StartRefresh
  <2>1. PICK s \in Slots : refresh' = [refresh EXCEPT ![s].st = "listing"]
    BY <1>1 DEF StartRefresh
  <2>2. refresh'[s].st = "listing"  BY <2>1 DEF TypeOK
  <2>3. refresh'[s] # NoRefresh  BY <2>2 DEF NoRefresh
  <2>4. QED  BY <1>1, <2>3 DEF StartRefresh, PollingHasCause, TypeOK
<1>2. CASE NoNewRefresh
  BY <1>2 DEF NoNewRefresh, PollingHasCause, TypeOK
<1>3. QED  BY <1>1, <1>2

\* Only the browser resets the two flags; the settings screen, where it drops what
\* would have, is the exception.
LEMMA NextPolls == TypeOK /\ PollingHasCause /\ [Next]_vars => PollingHasCause'
<1> SUFFICES ASSUME TypeOK, PollingHasCause, [Next]_vars PROVE PollingHasCause'
  OBVIOUS
<1>t. ticks \in Nat /\ MaxTicks \in Nat  BY BrowserAssumption DEF TypeOK
<1>1. ASSUME NEW s \in Slots, ListFiles(s)
      PROVE  PollingHasCause'
  <2>1. UNCHANGED <<refreshing, watch, ticks, deaf>>  BY <1>1 DEF ListFiles
  <2>2. refresh'[s] # NoRefresh
    BY <1>1 DEF ListFiles, NoRefresh, TypeOK
  <2>3. QED  BY <2>1, <2>2 DEF PollingHasCause
<1>2. ASSUME NEW s \in Slots, TakeRefresh(s)
      PROVE  PollingHasCause'
  <2>1. UNCHANGED <<watch, ticks>>  BY <1>2 DEF TakeRefresh
  <2>2. CASE screen # "browser"
    BY <1>2, <2>1, <2>2 DEF TakeRefresh, Dropped, PollingHasCause
  <2>3. CASE screen = "browser"
    BY <1>2, <2>1, <2>3 DEF TakeRefresh, PollingHasCause
  <2>4. QED  BY <2>2, <2>3
<1>3. CASE TakeTick
  <2>1. CASE ~watch \/ screen # "browser"
    <3>1. screen # "browser" => "watchTickMsg" \in deaf'
      BY <1>3, <2>1 DEF TakeTick, Dropped
    <3>2. deaf \subseteq deaf' /\ UNCHANGED <<watch, refreshing, refresh>>
      BY <1>3, <2>1 DEF TakeTick, Dropped
    <3>3. QED  BY <2>1, <3>1, <3>2 DEF PollingHasCause
  <2>2. CASE watch /\ screen = "browser"
    <3>1. ticks' = ticks /\ UNCHANGED watch /\ (StartRefresh \/ NoNewRefresh)
      BY <1>3, <2>2 DEF TakeTick
    <3>2. QED  BY <3>1, <1>t, StartRefreshPolls
  <2>3. QED  BY <2>1, <2>2
<1>4. CASE TakeObjectAdded \/ TakeConnected \/ KeyRefresh \/ (TakeImportEnd /\ screen = "browser")
  <2>1. UNCHANGED <<watch, ticks>> /\ (StartRefresh \/ NoNewRefresh)
    BY <1>4 DEF TakeObjectAdded, TakeConnected, TakeImportEnd, KeyRefresh
  <2>2. QED  BY <2>1, <1>t, StartRefreshPolls
<1>5. CASE KeyWatch
  <2>1. watch' => ticks' > 0
    <3>1. CASE watch
      <4>1. ~watch'  BY <1>5, <3>1, Zenon DEF KeyWatch
      <4>2. QED  BY <4>1
    <3>2. CASE ~watch
      <4>1. ticks' = ticks + 1  BY <1>5, <3>2 DEF KeyWatch
      <4>2. QED  BY <4>1, <1>t
    <3>3. QED  BY <3>1, <3>2
  <2>2. UNCHANGED <<refreshing, refresh>> /\ ("refreshMsg" \in deaf => "refreshMsg" \in deaf')
    BY <1>5 DEF KeyWatch
  <2>3. QED  BY <2>1, <2>2 DEF PollingHasCause
<1>6. CASE \/ Shoot \/ ImportFile \/ ImportEnds \/ ReceiveEvent \/ TakeImportEvent
           \/ KeyImport \/ KeySwitch \/ OpenSettings \/ CloseSettings \/ UNCHANGED vars
           \/ (TakeImportEnd /\ screen # "browser")
  <2>1. /\ UNCHANGED <<refreshing, ticks, refresh>> /\ (watch' => watch)
        /\ deaf \subseteq deaf'
    BY <1>6 DEF Shoot, ImportFile, ImportEnds, ReceiveEvent, TakeImportEvent, TakeImportEnd,
       Dropped, KeyImport, KeySwitch, OpenSettings, CloseSettings, vars
  <2>2. QED  BY <2>1 DEF PollingHasCause
<1>7. QED
  BY <1>1, <1>2, <1>3, <1>4, <1>5, <1>6 DEF Next, Refreshes, Importing

LEMMA InitPolls == Init => PollingHasCause
<1> SUFFICES ASSUME Init PROVE PollingHasCause
  OBVIOUS
<1>1. 1 \in Slots  BY BrowserAssumption DEF Slots
<1>2. refresh[1].st = "listing"  BY <1>1 DEF Init
<1>3. refresh[1] # NoRefresh  BY <1>2 DEF NoRefresh
<1>4. QED  BY <1>1, <1>3 DEF Init, PollingHasCause

-----------------------------------------------------------------------------
\* Every variable of the browser keeps its type (frontend.Model).
THEOREM TypeCorrect == Spec => []TypeOK
<1>1. HeardInv => TypeOK  BY DEF HeardInv
<1>2. QED  BY InitHeard, NextHeard, <1>1, PTL DEF Spec

\* An import run has a listener and the flag importing lasts as long as the run,
\* whatever the interleaving of its events with refreshes, polls, camera events and
\* keys, unless the connect screen dropped one (startImport, handleImportEvent).
THEOREM ImportsAreHeard == Spec => []ImportIsHeard
<1>1. HeardInv => ImportIsHeard  BY DEF HeardInv
<1>2. QED  BY InitHeard, NextHeard, <1>1, PTL DEF Spec

\* The flags importing, refreshing and watch stand for a run with a listener, a
\* refresh and a timer, or for a message that another screen dropped.
THEOREM FlagsAreCaused == Spec => []FlagsHaveCause
<1>1. Spec => []PollingHasCause
  BY InitPolls, NextPolls, TypeCorrect, PTL DEF Spec
<1>2. ImportIsHeard /\ PollingHasCause => FlagsHaveCause  BY DEF FlagsHaveCause
<1>3. QED  BY ImportsAreHeard, <1>1, <1>2, PTL
=============================================================================
