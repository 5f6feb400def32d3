------------------------------ MODULE Browser ------------------------------
(***************************************************************************)
(* The browser screen of the terminal interface                            *)
(* (internal/frontend/model.go, messages.go): the flags and messages by    *)
(* which refreshes, watch-mode polls, camera events and import runs        *)
(* exclude or start each other, and the settings and the connect screen    *)
(* beside it.                                                              *)
(*                                                                         *)
(* A command runs in a goroutine of its own and ends in one message, which *)
(* the update loop gives to the handler of the screen shown by then.       *)
(* Whether the link is up when a refresh has failed is Lifecycle's matter  *)
(* and may be either way here.                                             *)
(***************************************************************************)
EXTENDS Naturals, FiniteSets

CONSTANTS
  Photos,      \* frames that may be shot
  MaxRefresh,  \* bound: refreshCmd goroutines at the same time
  MaxTicks,    \* bound: pending watch timers
  MaxEvents,   \* bound: camera events not yet delivered
  ChanCap      \* capacity of the importer's event channel (32 in the code)

ASSUME BrowserAssumption ==
  /\ IsFiniteSet(Photos)
  /\ MaxRefresh \in Nat \ {0} /\ MaxTicks \in Nat \ {0}
  /\ MaxEvents \in Nat \ {0} /\ ChanCap \in Nat \ {0}

VARIABLES
  card,       \* frames on the memory card
  events,     \* ObjectAdded events on their way to the update loop
  files, screen, refreshing, importing, watch, auto,   \* fields of Model
  refresh,    \* refreshCmd goroutines, with what ListFiles returned
  ticks,      \* pending watchTickCmd timers
  run,        \* the importer goroutine and its channel: none, running, closed
  queue,      \* files its run has still to import
  buffer,     \* events in the channel
  wait,       \* waitImportEvent: none, receiving, or holding the message
  db,         \* files recorded as imported
  deaf        \* history: what the other screens dropped since the flag of its
              \* kind was set

camera == <<card, events>>
import == <<run, queue, buffer, wait, db>>
vars   == <<camera, files, screen, refreshing, importing, watch, auto,
            refresh, ticks, import, deaf>>

Slots == 1..MaxRefresh
NoRefresh == [st |-> "none", seen |-> {}]

TypeOK ==
  /\ card \subseteq Photos /\ events \in 0..MaxEvents
  /\ files \subseteq Photos /\ screen \in {"browser", "settings", "connect"}
  /\ refreshing \in BOOLEAN /\ importing \in BOOLEAN /\ watch \in BOOLEAN /\ auto \in BOOLEAN
  /\ refresh \in [Slots -> [st : {"none", "listing", "ok", "failed"}, seen : SUBSET Photos]]
  /\ ticks \in 0..MaxTicks
  /\ run \in {"none", "running", "closed"} /\ queue \subseteq Photos
  /\ buffer \in 0..ChanCap /\ wait \in {"none", "receiving", "event", "end"}
  /\ db \subseteq Photos /\ deaf \subseteq {"refreshMsg", "watchTickMsg", "importEventMsg"}

\* connectedMsg was handled: the browser is shown and its first refresh runs.
Init ==
  /\ card = {} /\ events = 0
  /\ files = {} /\ screen = "browser" /\ refreshing = TRUE
  /\ importing = FALSE /\ watch = FALSE /\ auto \in BOOLEAN
  /\ refresh = [s \in Slots |-> IF s = 1 THEN [st |-> "listing", seen |-> {}] ELSE NoRefresh]
  /\ ticks = 0
  /\ run = "none" /\ queue = {} /\ buffer = 0 /\ wait = "none" /\ db = {} /\ deaf = {}

-----------------------------------------------------------------------------
(* Helpers of the handlers *)

\* m.refreshing = true; refreshCmd(...)
StartRefresh ==
  /\ refreshing' = TRUE /\ deaf' = deaf \ {"refreshMsg"}
  /\ \E s \in Slots : /\ refresh[s] = NoRefresh
                      /\ refresh' = [refresh EXCEPT ![s].st = "listing"]

NoNewRefresh == UNCHANGED <<refreshing, refresh, deaf>>

\* startImport: a new channel, a new importer goroutine, which skips what is
\* recorded, and the first waitImportEvent.
StartImport(list) ==
  /\ importing' = TRUE
  /\ run' = "running" /\ queue' = list \ db /\ buffer' = 0 /\ wait' = "receiving"
  /\ UNCHANGED db

\* The screen shown has no case for a message of this kind.
Dropped(kind) == deaf' = deaf \cup {kind}

-----------------------------------------------------------------------------
(* The camera, refreshCmd and the importer goroutine *)

Shoot ==
  /\ events < MaxEvents
  /\ \E p \in Photos \ card : card' = card \cup {p}
  /\ events' = events + 1
  /\ UNCHANGED <<files, screen, refreshing, importing, watch, auto, refresh, deaf, ticks, import>>

\* What Camera.ListFiles may return: storages and handles are asked for first, which
\* may fail, and a file that does not describe itself is left out without an error,
\* as all the others are when the link dies on the way.
Listings == SUBSET card

\* refreshCmd
ListFiles(s) ==
  /\ refresh[s].st = "listing"
  /\ refresh' \in {[refresh EXCEPT ![s] = [st |-> "ok", seen |-> found]] : found \in Listings}
                  \cup {[refresh EXCEPT ![s].st = "failed"]}
  /\ UNCHANGED <<camera, files, screen, refreshing, importing, watch, auto, ticks, import, deaf>>

\* A file is recorded; its event waits for room in the channel.
ImportFile ==
  /\ run = "running" /\ buffer < ChanCap
  /\ \E p \in queue : queue' = queue \ {p} /\ db' = db \cup {p}
  /\ buffer' = buffer + 1
  /\ UNCHANGED <<camera, files, screen, refreshing, importing, watch, auto,
                 refresh, deaf, ticks, run, wait>>

\* Mutant of ImportEnds: the last event does not wait for room.
ImportEndsUnbounded ==
  /\ run = "running"
  /\ run' = "closed" /\ queue' = {} /\ buffer' = buffer + 1
  /\ UNCHANGED <<camera, files, screen, refreshing, importing, watch, auto,
                 refresh, deaf, ticks, wait, db>>

\* EventAllDone, or EventError with files left (a failure, or x pressed).
ImportEnds ==
  /\ run = "running" /\ buffer < ChanCap
  /\ run' = "closed" /\ queue' = {} /\ buffer' = buffer + 1
  /\ UNCHANGED <<camera, files, screen, refreshing, importing, watch, auto,
                 refresh, deaf, ticks, wait, db>>

\* waitImportEvent: receive from the channel.
ReceiveEvent ==
  /\ wait = "receiving"
  /\ \/ buffer > 0 /\ wait' = "event" /\ buffer' = buffer - 1
     \/ buffer = 0 /\ run = "closed" /\ wait' = "end" /\ buffer' = buffer
  /\ UNCHANGED <<camera, files, screen, refreshing, importing, watch, auto,
                 refresh, deaf, ticks, run, queue, db>>

-----------------------------------------------------------------------------
(* Messages.  The settings screen drops all but keys (updateSettings), the connect  *)
(* screen all but keys and the two messages of its own (updateConnect).            *)

\* refreshMsg
TakeRefresh(s) ==
  /\ refresh[s].st \in {"ok", "failed"}
  /\ refresh' = [refresh EXCEPT ![s] = NoRefresh]
  /\ IF screen # "browser"
     THEN Dropped("refreshMsg") /\ UNCHANGED <<files, screen, refreshing, importing, import>>
     ELSE /\ refreshing' = FALSE /\ deaf' = deaf \ {"refreshMsg"}
          /\ \/ /\ refresh[s].st = "ok"
                /\ files' = refresh[s].seen
                /\ IF Cardinality(files') > Cardinality(files) /\ watch /\ auto /\ ~importing
                   THEN StartImport(files')
                   ELSE UNCHANGED <<importing, import>>
                /\ UNCHANGED screen
             \* Without a link, and none being made: connection lost.
             \/ /\ refresh[s].st = "failed"
                /\ screen' \in {"browser", "connect"}
                /\ UNCHANGED <<files, importing, import>>
  /\ UNCHANGED <<camera, watch, auto, ticks>>

\* connectedMsg: the browser again, with a camera that may be another one.
TakeConnected ==
  /\ screen = "connect" /\ screen' = "browser"
  /\ StartRefresh
  /\ card' \in SUBSET Photos
  /\ UNCHANGED <<events, files, importing, watch, auto, ticks, import>>

\* cameraEventMsg with ObjectAdded
TakeObjectAdded ==
  /\ events > 0 /\ events' = events - 1
  /\ IF screen # "browser" \/ refreshing \/ importing THEN NoNewRefresh ELSE StartRefresh
  /\ UNCHANGED <<card, files, screen, importing, watch, auto, ticks, import>>

\* Mutant of TakeTick: a poll that would come too early is not put off.
TakeTickQuiet ==
  /\ ticks > 0
  /\ IF ~watch \/ screen # "browser" \/ importing \/ refreshing
     THEN /\ ticks' = ticks - 1 /\ UNCHANGED <<refreshing, refresh>>
          /\ IF screen = "browser" THEN UNCHANGED deaf ELSE Dropped("watchTickMsg")
     ELSE ticks' = ticks /\ StartRefresh
  /\ UNCHANGED <<camera, files, screen, importing, watch, auto, import>>

\* watchTickMsg
TakeTick ==
  /\ ticks > 0
  /\ IF ~watch \/ screen # "browser"
     THEN /\ ticks' = ticks - 1 /\ UNCHANGED <<refreshing, refresh>>
          /\ IF screen = "browser" THEN UNCHANGED deaf ELSE Dropped("watchTickMsg")
     ELSE /\ ticks' = ticks
          /\ IF importing \/ refreshing THEN NoNewRefresh ELSE StartRefresh
  /\ UNCHANGED <<camera, files, screen, importing, watch, auto, import>>

\* importEventMsg with an event: wait for the next one.
TakeImportEvent ==
  /\ wait = "event"
  /\ IF screen = "browser" THEN wait' = "receiving" /\ UNCHANGED deaf
                           ELSE wait' = "none" /\ Dropped("importEventMsg")
  /\ UNCHANGED <<camera, files, screen, refreshing, importing, watch, auto,
                 refresh, ticks, run, queue, buffer, db>>

\* Mutant of TakeImportEnd: the flag is only reset when there was something to do.
TakeImportEndKept ==
  /\ wait = "end" /\ wait' = "none" /\ run' = "none"
  /\ IF screen = "browser" THEN importing' = (db = {}) /\ StartRefresh
                           ELSE /\ Dropped("importEventMsg")
                                /\ UNCHANGED <<importing, refreshing, refresh>>
  /\ UNCHANGED <<camera, files, screen, watch, auto, ticks, queue, buffer, db>>

\* importEventMsg of the closed channel: the run is over, refresh the list.
TakeImportEnd ==
  /\ wait = "end" /\ wait' = "none" /\ run' = "none"
  /\ IF screen = "browser" THEN importing' = FALSE /\ StartRefresh
                           ELSE /\ Dropped("importEventMsg")
                                /\ UNCHANGED <<importing, refreshing, refresh>>
  /\ UNCHANGED <<camera, files, screen, watch, auto, ticks, queue, buffer, db>>

-----------------------------------------------------------------------------
(* Keys *)

\* r; a reconnect that succeeded (handleReconnect) and a shot released from the
\* control panel (handleControlMsg) do the same behind the same guard.
KeyRefresh ==
  /\ screen = "browser" /\ ~refreshing /\ ~importing
  /\ StartRefresh
  /\ UNCHANGED <<camera, files, screen, importing, watch, auto, ticks, import>>

\* i, a or S: the new, all or the selected files of the list
KeyImport ==
  /\ screen = "browser" /\ ~importing
  /\ \E list \in SUBSET files : StartImport(list)
  /\ UNCHANGED <<camera, files, screen, refreshing, watch, auto, refresh, deaf, ticks>>

KeyWatch ==
  /\ screen = "browser"
  /\ watch' = ~watch
  /\ ticks' = IF watch THEN ticks ELSE ticks + 1
  /\ ticks' <= MaxTicks
  /\ deaf' = deaf \ {"watchTickMsg"}
  /\ UNCHANGED <<camera, files, screen, refreshing, importing, auto, refresh, import>>

OpenSettings ==
  /\ screen = "browser" /\ ~importing
  /\ screen' = "settings"
  /\ UNCHANGED <<camera, files, refreshing, importing, watch, auto, refresh, deaf, ticks, import>>

\* esc, or saveSettings with any value of the auto-import field
CloseSettings ==
  /\ screen = "settings" /\ screen' = "browser"
  /\ auto' \in BOOLEAN
  /\ UNCHANGED <<camera, files, refreshing, importing, watch, refresh, deaf, ticks, import>>

\* c: switchCamera
KeySwitch ==
  /\ screen = "browser" /\ ~importing
  /\ screen' = "connect" /\ files' = {} /\ watch' = FALSE
  /\ UNCHANGED <<camera, refreshing, importing, auto, refresh, deaf, ticks, import>>

-----------------------------------------------------------------------------
Refreshes == \E s \in Slots : ListFiles(s) \/ TakeRefresh(s)
Importing == ImportFile \/ ImportEnds \/ ReceiveEvent \/ TakeImportEvent \/ TakeImportEnd

Next ==
  \/ Shoot \/ Refreshes \/ Importing \/ TakeObjectAdded \/ TakeTick
  \/ TakeConnected \/ KeyRefresh \/ KeyImport \/ KeyWatch \/ KeySwitch
  \/ OpenSettings \/ CloseSettings

Spec == Init /\ [][Next]_vars

\* Goroutines run and the update loop takes their messages; the user need not act.
\* The end of a run waits for a slot of its refresh only because MaxRefresh bounds
\* them: it is taken if slots come free again and again.
FairSpec == Spec /\ WF_vars(Importing) /\ WF_vars(Refreshes) /\ SF_vars(TakeImportEnd)

-----------------------------------------------------------------------------
(* Properties *)

\* Somebody listens to an import run as long as it lasts, and the flag importing,
\* which holds back refreshes, settings and further imports, lasts exactly as long as
\* the run, whatever screens and refreshes come in between, unless the connect screen
\* dropped an event of it (startImport, handleImportEvent).
ImportIsHeard ==
  /\ run # "none" => importing
  /\ "importEventMsg" \notin deaf => (importing <=> run # "none") /\ (run # "none" => wait # "none")

\* The flags refreshing and watch, which hold back commands and show that there
\* is polling, are set only while a refresh and a timer are on their way, unless
\* another screen dropped their message (TakeRefresh, TakeTick).
PollingHasCause ==
  /\ refreshing => "refreshMsg" \in deaf \/ \E s \in Slots : refresh[s] # NoRefresh
  /\ watch => "watchTickMsg" \in deaf \/ ticks > 0

\* Every flag of the browser stands for something that goes on.
FlagsHaveCause == ImportIsHeard /\ PollingHasCause

\* An import run that was started ends, and with it the importing flag that
\* blocks refreshes, settings and further imports, unless the connect screen
\* dropped an event of it (handleImportEvent 774-782).
ImportFinishes == importing ~> ~importing \/ "importEventMsg" \in deaf

-----------------------------------------------------------------------------
(* What the code says and does not keep: TLC finds it violated, and no run lists it *)

\* importer.go 144-145: "The channel closes after EventAllDone or a fatal EventError":
\* a run comes to its end and closes its channel (Run, handleImportEvent).
ChannelCloses == run = "running" ~> run # "running"
=============================================================================
