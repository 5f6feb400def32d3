# Verification of aero-shutter

TLA+ models of aero-shutter, the checks that TLC makes on small instances of
them, and theorems that TLAPS proves for every instance.  All modules are
translated from the source at this commit; line numbers refer to it.

    tlc -config PtpClient.cfg PtpClient.tla      # a check
    tlapm LinkProofs.tla                         # a module of proofs

## The system

aero-shutter moves photographs from Nikon cameras to a computer or a phone over
PTP/IP.  A Go program (`cmd`, `internal`) has a terminal interface; a TypeScript
application (`mobile/src`) on a native TCP plugin (`mobile/plugins/tcp-socket`)
does the same on a phone.  The two share the protocol and no code.

| component | state | operations | talks to |
|---|---|---|---|
| `internal/ptpip.Client` | two sockets, mutex, session, disconnect latch | Connect, Transact, Close, event reader | camera; calls the event and disconnect handlers |
| `internal/camera.Camera` | address, profile, cancel functions of the keep-alive and reconnect goroutines | Connect, Disconnect, StartKeepAlive, Reconnect, ListFiles, DownloadTo, TransferList, GetThumb | Client; calls hooks of the interface |
| `internal/importer`, `internal/database` | files, `.part` files, SQLite table `imports` | Run, Record, ImportedSet | Camera; events through a channel of 32 |
| `internal/frontend` | Model: screen, flags, lists, window of the file list, preview, control panel, picker | Update on keys, mouse and messages, commands in goroutines, View | all of the above |
| `internal/camera` settings (`settings.go`) | none | ReadSettings, SetSetting | Client |
| `internal/thumbnail` | LRU cache | Get, Cached, rendering | Camera |
| `internal/config` | one JSON file | Load, Save, UpsertCamera | interface |
| discovery (`camera/scan.go`, `gateway.go`) | none | DetectAll, ScanSubnets, probe, Identify | network |
| mobile `lib/ptpip/client.ts` | two plugin connections, buffers, promise chain of transactions | connect, transaction, getObjectStreamed, close | plugin |
| mobile `lib/camera.ts`, `store.ts`, `lib/db.ts` | one store of flags, lists, timers | connect, joinCameraWifi, importPhotos, startKeepAlive, startReconnect, … | client, plugin, screens |
| mobile `lib/updater.ts` | update state | check, download, apply | network, Capacitor |
| Kotlin and Swift plugin | sockets, network requests | connect, write, joinWifi, releaseJoin | operating system |

What is hard here is concurrency and order.  In the Go program every command,
reader, keep-alive, reconnect loop and import is a goroutine; they meet in
`Client.mu`, in a `sync.Once` per connection, in two cancel functions under
`lifeMu`, and in Bubble Tea's update loop, to which they report with
`Program.Send`, a call that returns when the loop has taken the message.
Messages are handled by the screen shown when they arrive, not by the one that
asked.  Links die at any point.  An import outlives crashes through `.part`
files and the register.

What each component must get right:

* Client: one user of a socket at a time; no socket is leaked; a loss is noticed
  without user action and reported once, for the right link.
* Camera: a reconnect or keep-alive goroutine that was cancelled or replaced
  stops; one loop is at work at a time; an explicit disconnect wins; what the
  interface shows has a cause, and what goes on is shown.
* Importer: a recorded object is whole on disk; a resumed file is the beginning
  of its object; what is placed under a final name is whole; a run ends.
* Interface: flags that exclude commands are reset; a run is heard to its end;
  nothing waits for the update loop while the loop waits for it.
* Control panel: what it shows at rest is what the camera has; its spinner and the
  lock of its steppers end.
* Connect screen: a camera is saved at the address where it answered; the picker
  offers each place and each remembered camera once, and knows a camera by its
  serial before its address; searching and connecting end.
* File list and panels: the cursor is on the list and in the window; a preview that says it
  is loading is being loaded; a click hits what is drawn.
* Mobile client: an answer is never given to another transaction; every call
  settles; closing frees both sockets wherever connecting stopped.
* Mobile store: the flags that exclude actions are reset by whoever set them; a
  connected application pings its camera and so notices a loss; an explicit
  disconnect ends the reconnect loop.

The JavaScript of the phone runs one callback at a time, so that its
interleavings are those of `await`: what was read before one may be stale after
it, and a promise that never settles blocks everything queued behind it.

## Modules

| module | code | role |
|---|---|---|
| `PtpClient` | `internal/ptpip/client.go` | sockets, mutex, latch, event reader |
| `Lifecycle` | `internal/camera/camera.go`, `internal/frontend/model.go` | keep-alive, reconnect and the handlers around them |
| `Library` | what importing promises | abstract specification |
| `Importer`, `MCImporter` | `internal/importer`, `internal/database`, `Camera.DownloadTo` | import over a file system with crashes; implements `Library` |
| `Browser` | `internal/frontend/model.go`, `messages.go` | refreshes, polls, camera events, imports, settings screen |
| `UpdateLoop` | all four packages | who waits for whom: update loop, mutex, latches, import channel |
| `Settings` | `stepChoice` of `control.go`, `rangeChoices` of `settings.go` | the arithmetic of a setting |
| `Control`, `MCControl` | `internal/frontend/control.go`, `internal/camera/settings.go` | the control panel against its commands, the camera and the link; uses `Settings` |
| `Discovery` | `scan.go`, `picker.go`, `config.go` | lists of addresses and cameras: merging, picking, remembering |
| `ConnectScreen`, `MCConnectScreen` | `model.go`, `messages.go`, `picker.go` | searches and connects that overlap; uses `Discovery` |
| `Layout` | `model.go`, `mouse.go`, `control.go`, `toolbar.go`, `views.go`, `picker.go` | scrolling windows, and each row and button as it is drawn and as it is hit |
| `FileList`, `MCFileList` | `model.go`, `mouse.go`, `messages.go`, `internal/thumbnail` | cursor, window, preview and thumbnail cache; uses `Layout` |
| `Plugin` | `TcpSocketPlugin.kt` | connect race, read loop, close, joining Wi-Fi |
| `MobileClient` | `mobile/src/lib/ptpip/client.ts`, sockets of `TcpSocketPlugin.kt` | chain of transactions, timers, answers, close |
| `MobileStore` | `mobile/src/store.ts`, `mobile/src/lib/camera.ts` | connect, disconnect, keep-alive and reconnect of the application |
| `LinkProofs` | | theorems about `PtpClient` and `Lifecycle` |
| `InterfaceProofs` | | theorems about `ConnectScreen`, `Discovery` and `UpdateLoop` |
| `MobileAppProofs` | | theorems about `MobileStore` and `Plugin` |
| `ImporterProofs`, `BrowserProofs`, `ControlProofs`, `FileListProofs`, `MobileClientProofs` | | theorems about the module of that name |

`InterfaceProofs`, `LinkProofs` and `MobileAppProofs` extend two modules that share
no variable, which is why some definitions carry the name of their module
(`LifeSpec`, `PluginInit`, `UpdateNext`): each theorem is about one of the two.

### PtpClient

A *generation* is one pair of sockets with the `sync.Once` armed for it. `conn`
is the generation in `cmdConn`/`evtConn`, `latch` the one whose Once is in
`Client.disconnected`, `done` the Onces that have run.  `mu` is the mutex when it
is held across steps.  Each calling goroutine has a `pc`; the places where it may
be overtaken are those between lock regions: Connect installs the sockets under
`mu` (`Install`), arms the latch under `handlerMu` (`Arm`) and starts the reader
(`Spawn`), then runs OpenSession as an ordinary transaction.  A transaction
(`Begin` … `Respond`, `RespondError`, `Drop`) holds `mu` to its end, with the
reopening of the session in between.  Close takes the sockets out under `mu` and
speaks on them after releasing it.  The reader decides under `mu` whether its
failure is deliberate and fires after releasing it.  Several goroutines may be in
Connect at once (a cancelled loop that is still dialling, two connect commands);
`crossed` is history: the generations of two Connects of which one installed its
sockets while the other had installed and not yet armed, so that sockets and latch
of the client need not belong together.  Abstracted: packet contents,
transaction numbers, the event buffer.

### Lifecycle

Several reconnect goroutines (`loop[i]`) and keep-alives (`keeps`) may exist; the
model has what `lifeMu` protects (`reconnectCtx`, `keepAliveCtx`) and the fact
that StartKeepAlive and Reconnect are *two* critical sections with a gap.  A
goroutine that reports is in an `emit…` state until the handler of its message
moves it on.  `drops` counts losses and bounds a behaviour.  The loss of a link is
reported by the event reader, by any transaction, or by a Connect that dies half-way, and each is a message that the
update loop takes in any order.  `left` is history: the user disconnected and has
not connected since.  The backoff times are abstracted to "some time
later"; one connect command runs at a time.

### Importer and Library

A file's content is `[len, of]`: the first `len` bytes of object `of`, or `Mixed`.
The steps are those between which a crash or an error can fall: opening the
`.part` file, each transaction, the size check, the rename, the register.  The
profile may change between runs (another body, or another answer to
GetDeviceInfo), so a run may resume what an earlier run with another transfer
mode left.  `Dest` gives each object its destination path and may give two objects
the same one, as `DestPath` does to files of one name and day.  With `ReopenInData`
a transaction may deliver some bytes, be answered SessionNotOpen and be repeated
with the same writer.  These are the two ways in which a file can hold anything
but the beginning of its object, and history variables name the files they
happened to: `foul` the paths whose `.part` file took in a repeated attempt or was
resumed with another object's bytes, `broken` those whose final file came from
such a part, and `last` the object each path was last renamed for.  Every property
excepts exactly those files.

`Library` is what importing promises: an object is placed at its path whole, or
the path is broken; it is registered only when it is the one placed there last.
`Importer` implements it with `holds` computed from the files.

### Browser

The flags `refreshing`, `importing`, `watch`, the refresh goroutines with the
list each has read (any part of what is on the card, `Listings`), the pending
watch timers, the importer's channel and its one reader.  The settings screen drops
every message but keys (`updateSettings` 830) and the connect screen all of these
messages (`updateConnect` 356-441), which is part of every `Take…` action; the
history variable `deaf` keeps what was dropped since the flag it would have served
was set.  A failed refresh may show the connect screen (`TakeRefresh`, model.go
511-514: the link is down and no reconnect is under way), also during an import, and
`KeySwitch` does when none runs; `TakeConnected` comes back, with any camera.
Whether the link is up is Lifecycle's matter: here a refresh that failed finds it
either way.

### UpdateLoop

Here a message handler is two steps: the handler, then View, which on the browser
screen asks `Client.Connected` and so needs `mu`.  `once[l] = "running"` means
that the function of that Once is inside `Program.Send`.  The importer emits its
progress events from inside a transaction.  `shown` is the screen of the model.
`ready` is history: the links whose Connect has returned and which are reported
through a latch of their own (see the divergences).

### Control and Settings

`readSettingsCmd` (`reads[s]`) reads one property after the other and skips what
fails; `setSettingCmd` (`writes[s]`) describes a property, sets it and reads it
again, each of them a transaction that the camera, the link or another command
may come before.  `value` is what the camera holds: `SetValue` stores any value of
the property, since a body may round what it is sent or keep what it has, and
`Turn` changes it from outside, as a dial does; `turned` (history) are the
properties turned since they were last read.  So only the read after a write
(`Reread`) knows the value, which is what control.go 51-52 has it for.  The panel
can be closed, opened again (which unlocks the steppers), left by a failed refresh
or by `switchCamera`, while its commands run; their messages are handled by whatever
screen is there (`handleControlMsg` on the browser screen, nowhere else).
`doubt` is history: since the panel was opened, commands overlapped, a result was
lost or another camera was connected, which are the cases in which the code
shows a value without having confirmed it.  `Settings` has `StepChoice` and
`RangeChoices` as functions of their arguments.  Abstracted: the shutter button,
the names of values, and enumerations that the camera may change.

### ConnectScreen and Discovery

A body may answer at any address, and at another one the next time: `link` is
the body that the client's connection leads to and `info` the body whose
DeviceInfo the camera object holds.  `detects[s]` is a `detectCmd` with the
candidates it was given, `dials[s]` a `connectCmd` or, at `Redial`, the reconnect
loop.  Each connects (`Connects`), asks for DeviceInfo over whatever connection the
client has by then (`AsksInfo`, camera.go 178) and stores the answer for whoever is
connected by now (`StoresInfo`, 182-197), and the others may step in between.
`body` of a dial is history: the body it reached, until another one overtakes it
between two of these steps (`Overtakes`).  `dropped` is history: results that came
when the browser was shown.  What a search returns is `Answers`: any subset of the places may
answer to the probe and to the scan, and any of them may refuse to say who it is
(`Serials`).  `Canonical` is `CanonicalAddr`, so that two spellings of one place
exist.  `Discovery` has the functions on lists, `MergeAddrs`, `Responders`,
`UpsertCamera` and `BuildPicker` with the greedy matching of `picker.go`.
Abstracted: host and port as text, the 64 probes at a time, the JSON file; one
reconnect loop at a time; and the unlocked writes to `c.info` of two goroutines,
each of which is taken as one step (the race could also tear the struct).

### FileList and Layout

`files` is the filtered list of the moment, `win` its cursor and offset, `h` the
rows of `listHeight`.  All ways to move are there: keys, clicks on a row, the
wheel, the indicators of more, space, filters, refreshes and a change of camera;
each of them ends in the clamp or the scroll of `Layout` that the code calls, and
in `FetchCursorThumb` where the code calls `fetchCursorThumb` (space does not).
`fetches[s]` is a `thumbCmd`: it looks into the cache, asks the camera, and its
message is taken by the browser if it is of the file under the cursor.  A fetch
of the body before is `stale`: its result goes to a cache that nobody uses, its
message still comes.  `dropped` is history.  `Layout` places list rows,
toolbars, filter chips, picker and panel rows twice, as drawn and as hit; what is
drawn takes the width of the screen into account, where the chips wrap
(`ChipLines`) and where the panel's rows would (`CtrlFits`).
Abstracted: the contents of files and images, the choice of files for import.

### Plugin

The Android plugin has threads of its own: for each `connect` a caller, two paths
of the race and, after the race, the caller again as reader; the thread of plugin
methods; and the thread of ConnectivityManager.  `path` is how far each path is,
`claimed` and `winner` are the two variables by which the race is decided, and
the step between them (`TryClaim`, `Publish`) is where the caller may give up.
`open` and `asked` are what the operating system holds for us: connected sockets
and network requests.  `releaseJoin` is two steps, before and after
`unregisterNetworkCallback`, because a callback that is already at work is not
stopped by it; `overtaken` remembers the joins whose `onAvailable` bound the
process after that.  Times are abstracted: the deadline of the race (`timeoutMs`
and half a second) is shorter than its Wi-Fi path can take (3.5 s to acquire and
`timeoutMs` to connect), so that `GiveUp` may come before either path ends.
The Swift plugin is not modelled.

### MobileClient

One `PtpIpClient` from `connect` to `close`.  A step is one event of the
JavaScript loop together with the microtasks that follow it: a transaction that
settles resumes its caller and starts the next one of `txnQueue` in the same
step.  `queue` and `running` are that chain; `step` says whether `running` is in
its first attempt, in `reopenSession` or in its retry; `counter` is the last
`transactionId` and `pending` the one whose resolver is in `this.pending`, 0 for
none.  `write[i]` follows the writes of transaction `i` through the plugin, which
may fail after the transaction has settled.  `sock` is the plugin's side of the
two connections: `dead` when the other end is gone and the read loop has not
noticed, `gone` when the plugin has freed it.  `ids` and `listening` are the
client's side, and only the two together let a packet through (`Heard`).
`rejected`, `wrong` and `stray` are history.  Abstracted: the data and the
response of a transaction are one answer, event packets and parsing are left out,
and a client is closed once.

### MobileStore

A step is the code between two awaits.  `attempt[a]` is one call of `connect` or
`autoConnect` (`dial` up to the return of `camera.connect`, then `greet` and
`list` in `_onConnected`); `loop[g]` is the `startReconnect` that claimed
generation `g`; `off[d]` a call of `disconnect`; `closing` the
`CameraService.disconnect` calls in flight; `call` the listings and imports with
the client each of them uses, `pings` the keep-alive transactions.  `client` is
`CameraService.client`, which is replaced by a connect and nulled by the end of
any close.  `stray` is a keep-alive interval that runs although its handle was
overwritten with null.  `mute` holds the clients whose single-shot callback is
spent or was taken away.  `jammed` are the clients whose chain of transactions has
stopped for good (`Jams`: the failing write of client.ts 462-466; bound `MaxJams`);
`threw` is history: an import ended in a failing query, outside any `try`, with
`importing` set (store.ts 645-647, in `CallEnds`).  Abstracted: discovery and the network handshake are
part of `dial`; photographs, properties, `joinCameraWifi` and the screens are
left out; the tick of the auto-import interval tests the flags itself and so is
the action `Watch`.

## Checks

| run | module, specification | instance | shows |
|---|---|---|---|
| PtpClient | FairSpec | 2 goroutines, which both connect, 2 generations | `TypeOK`, `OneUserPerSocket`, `DropReported`, `NoLeakedSocket`, `LossNoticed` |
| Lifecycle | LifeFairSpec | 2 losses, 3 keep-alives | `LifeTypeOK`, `BadgeHasCause`, `LoopKept`, `CancelledLoopStops` |
| Importer | FairSpec | objects of 3, 2 and 1 bytes, the first two with one path; chunks of 2, both transfer modes, retries inside a data phase | `TypeOK`, `RecordedIsWhole`, `ResumeIsPrefix`, `RunIsExact`, `RunEnds`, `ImplementsLibrary` |
| Browser | FairSpec | 2 frames, 2 refreshes, 1 timer, 2 events, channel of 2 | `TypeOK`, `FlagsHaveCause`, `ImportFinishes` |
| UpdateLoop | UpdateSpec | 1 command, 1 import, 2 links, channel of 1 | `ToldBeforeError`, `NoChunkAfterCancel` |
| UpdateLoopJam | UpdateSpec | the same | `UiNeverBlocks` fails |
| Control | Spec | 1 property with choices 1 and 3 and a value of 1 to 3; 1 read, 2 writes | `TypeOK`, `RestIsTrue`, `PanelSettles` |
| ConnectScreen | Spec | 2 places in 3 spellings, a body with a serial and one without; 2 searches, 1 connect and the loop | `TypeOK`, `PickerIsExact`, `SpinnersHaveCause`, `SavedPairIsTrue` |
| FileList | Spec | 3 files, 1 without thumbnail; windows of 1 and 2 rows; cache of 1; 2 fetches | `TypeOK`, `CursorIsShown`, `LoadingHasCause` |
| Plugin | PluginSpec | 1 connection, 3 joins | `NothingHeld`, `LossIsTold`, `JoinIsReleasable` |
| MobileClient | FairSpec | 2 operations, one with data to the camera; 1 answer SessionNotOpen; 6 numbers | `TypeOK`, `OwnAnswer`, `Released`, `Settles` |
| MobileStore | FairSpec | 2 connections, 1 attempt beside the loops, 1 call, 1 disconnect, 3 generations, 1 jam | `TypeOK`, `FlagsHaveCause`, `LossIsNoticed` |

Every run but one passes; UpdateLoopJam is a disagreement of the code with what it
says (see below).

Pure functions are compared with a reference definition on all small inputs, as
assumptions that TLC evaluates before the run: `RangeIsCovered` in MCControl (a
range offers an ascending choice from end to end and no more than it may), and in
MCFileList `ToolbarIsExact`, `FilterChipsAreApart`, `FileRowsAreExact`,
`PickerRowsAreExact` and `PanelRowsAreExact`: a click goes to what is drawn in
its cell, however a toolbar wraps and a list is scrolled, except where the
divergences below say so (a row of the list below 80 columns, the button of a
panel without settings or with a window past its end).

**Bounds.**  Two generations are the least at which a reader, a latch or a
transaction can meet a successor's; with two goroutines both Connects, and a
transaction or a Close beside either, meet. `MaxDrops` must be 2 for a loop to be
replaced.  Sizes 3, 2 and 1 with chunks of 2 give a full and a short last chunk, an
object shorter than another's partial file (the branch of a partial file that is
too long), and a resume at every offset; the third object has its own path, so that
shared and unshared paths meet in one run. `MaxKeep = 3` leaves room for the keep-alives that
two losses can leave behind; with fewer a StartKeepAlive would find no free
number.  Two refreshes at a time are reachable (a reconnect or an end of import
during another); a third adds no new meeting.  Channels of 1 and 2 stand for 32:
what matters is that they fill.  Connections of the plugin share no state, so
that one of them shows what all do; three joins are one at work, one being
released and one that overtakes both.  In Control one property is enough: rows
share nothing but the flags of the panel; a value between the two choices is
the case in which a step has no choice of its own to start from, two writes can
overlap only when the panel was opened again between them, and a read then meets
both.  In ConnectScreen two bodies that change places are the
least that makes a wrong pair, a connect and the loop the least that overlap, two
searches the least in which one may end for the other, and with two
spellings of one place the comparison of addresses matters.  One of the bodies has
no serial, which is where a body is known by its address alone.  In FileList the
lists have no file, one and three, so that a refresh can shorten a list under
the cursor and a list can be longer than its window; with a cache of one every
second thumbnail evicts the one before.  In MobileClient two operations, `openSession`
and `CloseSession` give a running transaction, one behind it and a close behind
both; six numbers are all that they can use with one reopening.  In MobileStore
two connections are the least at which something stale meets a successor; with
one attempt at a time a loop's attempt still follows the user's and the other way
round, and the theorems are for any number; three generations are all that
two losses and a disconnect can claim; one jam (`MaxJams`) is enough to stop
everything that needs that client.

**Fairness.**  Only steps that the runtime takes by itself are fair: a goroutine
between two blocking operations (weak), the acquisition of a Go mutex, which
serves waiters in turn after 1 ms (strong), a socket operation, which has a
deadline and so ends in an answer or a drop (strong: a thread takes the mutex
again and again), and the receipt of a `Program.Send` by the update loop (strong).
Users, the camera and the network are never fair.  `CancelledLoopStops`, `RunEnds`
and `ImportFinishes` assume that the update loop takes what is sent and that
somebody reads the run's events; UpdateLoopJam and `ChannelCloses` (below) are the cases
in which nobody does.  In Browser the end of a run is strongly fair, because the model
bounds the refreshes it may have to wait for; the code does not.  `PanelSettles`, in Control, needs
nothing but that its commands go on: their transactions end, and the update loop
handles their messages (weak: each is a goroutine of its own, which nothing else
disables).

In the mobile modules calls of the plugin return and timers fire (weak): timeouts
bound the attempts of the store, and `close` waits for nothing else.  A transaction
is not assumed to settle: a client may jam (`Jams`), after which its pings, calls
and closes wait for good, and only a call on a client that is not jammed has to
end.  `LossIsNoticed` says what is left: a lost link is noticed unless a client
jammed or an import threw.  Two steps of MobileStore are strongly fair: the
keep-alive tick, an interval that does nothing while the application is busy, and
`Listed`, which in the model may wait for one of the bounded places in `call`.  An
import that threw leaves the application busy for ever, and the tick then has no
occasion; strong fairness asks nothing of it.

**Deadlock** is checked in every passing run except UpdateLoop, where the program
really can stop (UpdateLoopJam), MobileClient, where the life of a client ends
with `close`, and MobileStore, where a jammed client may leave everything waiting.

## What the code says and does not keep

The program disagrees with its own words in the places below.  Each has a property,
at the end of its module, that says what the comment says.  `UiNeverBlocks` is a run;
the others are listed in no run, and TLC finds each of them violated when it takes
the place of the properties of the module's `.cfg`, with the bounds changed as said.

*UiNeverBlocks* (UpdateLoop). A transaction that fails calls `dropLocked` with `mu`
held, which calls `Program.Send`; if the loop is already in View it waits for `mu`,
and neither moves again.  The importer does the same without any failure: its
progress callback waits for room in the channel with `mu` held, and the reader of
the channel delivers through the loop.

*ToldOfDeadLinks* (PtpClient, with `CloseFirst` and one connector). "Called exactly
once per connection the first time the link is observed dead" (client.go 91).  A
reader decides that its failure is a loss and comes to fire when its link was closed
and a new one made: it fires the new one's latch, and the loss of that link is told by
nobody (239).  `LossNoticed` holds all the same, because it asks only that somebody
notices.

*OneLoop* (Lifecycle, 3 losses). "Only one loop runs at a time" (camera.go 264), "if
it is still the active one" (284).  The cleanup of a loop that ends clears the cancel
function of the loop that replaced it; the next loss cannot cancel that one and
starts another beside it.  `LoopKept` says that this cleanup is the only way.

*StopsWhenCancelled* (Lifecycle). "Stops on the first successful reconnect or when
cancelled" (camera.go 263-264).  A loop cancelled during its attempt connects all the
same, if the attempt succeeds before the context is looked at, starts a keep-alive and
reports success.

*DisconnectWins* (Lifecycle). "An explicit user disconnect wins over automatic
recovery" (camera.go 200-201).  A linkLostMsg that waited while the user switched
cameras starts a loop to the address of the camera that was left.

*LoopIsBadged* (Lifecycle). A loss "surfaces the reconnecting status in the browser"
(model.go 310).  A connectedMsg handled after the loss of its own link clears the
badge, and the loop works on unseen; a failed refresh then leaves the browser (431,
505-507).

*RetriesAreTolerated* (Importer). "Callers of Transact with a dataIn writer must
tolerate a retry from offset zero" (client.go 349-351).  The first attempt's bytes stay
in the append-only file; with `GetPartialObject` the file can reach the size of the
object by a shorter later chunk, and a damaged file is placed and recorded.

*ChannelCloses* (Browser, channel of 1). "The channel closes after EventAllDone or a
fatal EventError" (importer.go 144-145).  A failed refresh with the link down shows the
connect screen during an import, the next event is dropped there, and with it the only
reader of the channel: the run waits for room for ever, and `importing` stays set,
which blocks refreshes, settings, the panel and every further import.  It takes a
browser that does not know of the loss, as after `LoopIsBadged`.

*SerialFirst* (ConnectScreen, two bodies with serials). "By serial number first and
address second" (picker.go 25-26).  A remembered camera that answers at a new place,
while another answers at its old one, is matched with the other and offered once more
as a new camera.

*LoopIsShown* (MobileStore). "True while the auto-reconnect backoff loop is running"
(store.ts 103; 173: "stops on success or explicit disconnect").  `disconnect` first
claims a new generation, which stops the loop, then waits for the camera to be closed.
A loss signalled in between still finds `connected` set and starts a loop of a newer
generation; the last `set` clears `reconnecting` (548), and the loop goes on unseen and
connects again.

*OneAttempt* (MobileStore, two attempts). "Bail if we're already connecting or
connected" (store.ts 330).  A loop that wakes during an attempt of the user resets
`connecting` (858), and its next attempt runs beside the user's.

*LateSignalsIgnored* (MobileStore). "Ignore late/duplicate signals" (store.ts
795-796).  A ping that was sent on a replaced link fails, and the catch of its tick
tears down the new link (777-781).

### Other divergences seen while modelling

In the Go program, the link and imports:

* Two loops at work can connect at the same time, and then the one whose sockets
  were replaced may arm its latch last (client.go 150-161 installs under `mu` and
  arms under `handlerMu`).  The newer link is then reported through the latch of
  the older, and once that is spent a loss of the newer one is told by nobody
  before a command fails on it (client.go 156-157: "Arm a fresh disconnect latch
  for this connection so the handler fires exactly once").  It takes four links,
  more than the run of UpdateLoop has; `ToldBeforeError` leaves exactly these
  links out (`ready`), in the run and in the theorem.
* A refresh that ends on the settings screen leaves `refreshing` set; later
  shots, polls and `r` do nothing until an import or a new connection resets it
  (model.go 289-291, 830).  This drop, and the tick's below, are the only
  exceptions of `FlagsHaveCause`, with the events dropped by the connect screen.
* Watch mode: a tick on the settings screen ends the polling with `watch` still
  set (messages.go 55 says it fires while watch mode is on); off and on within 5 s
  starts two chains of ticks (model.go 704).
* ListFiles leaves out, without an error, every file that does not describe itself
  (camera.go 405-408; 387: "returns all downloadable files"): a link that dies on
  the way makes a short list that replaces the list of files, and the next
  refresh takes the rest for new.
* A refresh delivered during an import updates the list without queueing the new
  frame, and the next refresh no longer sees it as new (model.go 291-293, 518).
* A keep-alive answered with a PTP error ends the loop with the link up
  (camera.go 240-242, client.go 502-503).
* Two connects at once: the sockets of one may stay in the client with the latch of
  the other, and a loss of the link is told once too often or not at all
  (client.go 150-161).  `DropReported` and `LossNoticed` except these (`crossed`).
* Two objects with one destination path: the `.part` file of one is resumed as
  the other unless it is longer (importer.go 252-253), and the rename of one
  replaces the other, which stays recorded (285).  The run has both;
  `RecordedIsWhole` excepts the damaged file and says that a replaced one was
  replaced by a whole one.
* TransferList, which nothing calls yet, unlocks the camera's list with the context
  of the call, so that a cancelled call leaves it locked (camera.go 446; 445:
  "Best-effort unlock even on error paths so we don't leave the camera locked").
* Cancelling an import in the middle of a chunk drops the link (client.go 392;
  importer.go 145 says it stops after the current chunk).  UpdateLoop's `Drops`
  has the step.

In the Go program, the control panel:

* `openControl` clears `pending` while a write of the panel before may be under way
  (control.go 121; model.go 109: "a SetDevicePropValue is in flight").  Two writes,
  or a read and a write, then overlap, and the later message may show the older
  value (control.go 51-52: "so the overlay shows the value the camera actually
  accepted").  `RestIsTrue` excepts this.
* A failed refresh shows the connect screen and leaves the panel open behind it;
  the messages of its commands are dropped there, so that `loading` or `pending`
  are set when the browser is back (model.go 511-514).  `PanelSettles` excepts
  this.
* While a list is loading the panel draws "Take photo" in the line below the
  spinner, and its clicks are still compared with the rows of the list before
  (control.go 294-299).
* A panel without settings draws its text in two lines (control.go 409 in 36 cells),
  and its button one line lower than controlClick looks for it; a window that is
  further down than the list after a shorter list came (`ctrlSettingsMsg`, 224-229,
  moves the cursor only) or the screen grew does not find its button either
  (`ClicksTakeThePhoto`).  Below 46 columns rows of settings wrap too (459-466), and
  the two theorems are for wider screens.
* A setting that a dial of the body changes is shown as it was read last; the panel
  asks again only after a write, a capture or when it is opened.
* ReadSettings on a dead link returns an empty list and no error (settings.go).

The connect screen:

* Two connects at once, which nothing prevents, can save the serial of one body
  with the address of the other (model.go 420): `connectedMsg` carries the address
  and the camera object the body.  `SavedPairIsTrue` excepts exactly this.
* UpsertCamera compares addresses as they are spelt (config.go 78), everything
  else by CanonicalAddr.
* The result of a search or a connect that arrives on the browser screen is dropped
  there; that of a search leaves `detecting` set for the next visit: the
  connect screen says it is searching, and nothing is.  `SpinnersHaveCause` excepts
  exactly this (`dropped`).
* The search at launch is not shown: Init sets the flag on a copy (model.go
  182-183).

The file list:

* Below 80 columns the row of filter chips wraps, every file is drawn one row lower
  than fileRowAt looks for it, and a click goes to the next file, or to none for
  the last one (mouse.go 38-52, toolbar.go 279-298).  `ClicksHitTheirFile` says so.
* listHeight (views.go 33: "the number of file rows visible") is two more than
  viewFileList draws, so that the cursor may be on a row that is not drawn, and
  the row of "more below" is hit two rows lower than it is.  `CursorIsShown` and
  `FileRowsAreExact` are about the rows that are in the window and that are drawn.
* browserClick says it matches the pressed zone (mouse.go 217-218) and does not: the
  release after a press that closed an overlay fires what is underneath.
* space moves the cursor without asking for the thumbnail of the next file.
* A thumbnail that arrives on another screen is dropped and its pane goes on
  saying that it loads (model.go 534).  `LoadingHasCause` excepts this.
* "Thumbnail handles are camera-specific; drop the cache with the link" (model.go
  733) is done by `switchCamera` and not when another body is connected after the
  reconnect loop gave up; a late `thumbMsg` of the body before is taken for the
  file with the same handle.
* A window that gets lower leaves the cursor outside until the next move (model.go
  215).

In the mobile application:

* After a timeout the late answer is given to the next transaction: the packet
  handler does not compare transaction numbers (client.ts 331-364).
  `OwnAnswer` says that this is the only way.
* A write that fails after its transaction settled clears the resolver of the
  running one, whose timer then does nothing: the chain stops (client.ts 464).
  `Settles` excepts exactly this; in MobileStore it is the step `Jams`, after which
  a dead link may stay unnoticed (`LossIsNoticed`).
* importPhotos ends with two queries outside any `try` (store.ts 645-647): when one
  fails `importing` stays set, every keep-alive tick is passed over (775) and a loss
  is noticed by chance.  `FlagsHaveCause` and `LossIsNoticed` except this (`threw`).
* The last `set` of `disconnect` forgets the interval that a connection made
  meanwhile has started; it goes on pinging beside the next one (548).
* The failure of a retry after SessionNotOpen, and the plugin's `closed` event,
  are not reported as a loss (client.ts 402, 139-141).
* `CameraService.disconnect` nulls `client` when its close has ended, also when a
  newer one has been installed meanwhile (camera.ts 107-112).
* The disconnect handler is applied only after `openSession`; a link lost before
  is noticed by a failed call alone (camera.ts 92-101).  A `connect` that fails
  there leaves the sockets open (camera.ts 92-95).
* `importPhotos` has no guard against a second call, and a body that ends early
  is recorded as imported (client.ts 596-601).
* The connect screen connects again when it is mounted after an explicit
  disconnect (ConnectScreen.tsx 65-73).

In the Android plugin:

* A path that wins after the caller gave up keeps its socket and its network
  request until the process ends (TcpSocketPlugin.kt 246-249; 62: "the loser is
  closed and its Wi-Fi request released").  So does a Wi-Fi path whose
  `createSocket` throws (196, 212).  `NothingHeld` says that nothing else leaks.
* `onAvailable` at work during `releaseJoin` binds the process again (470, 562);
  `JoinIsReleasable` says that this is the only way.
* A `joinWifi` that `leaveWifi` overtakes is never answered, and `joiningWifi`
  of the store stays set (TcpSocketPlugin.kt 464, 567; store.ts 424, 431).
* No `onLost`: when the joined network vanishes the process stays bound to it
  until the next leave or join (467-493).

## Proofs

For all values of the constants, from the named assumptions of each module.

* `LinkProofs`, PtpClient: `Invariance` proves an inductive invariant from which
  `Serialised` (`OneUserPerSocket`) and `NoLeak` (`NoLeakedSocket`) follow.  The
  strengthening says who holds what: a goroutine in a transaction holds `mu` and
  uses the installed generation; a goroutine in Close uses a generation that is no
  longer installed; each generation is new to at most one Connect.  `Reported`
  (`DropReported`) is for any number of goroutines in Connect: a second invariant
  says whose latch is installed while sockets and latch are apart, and that a
  generation for which it is not its own is one of `crossed`.
* `ImporterProofs`: `RecordedIsWhole`, `ResumeIsPrefix`, `RunIsExact`, and that the
  pipeline implements `Library` (`Refinement`), for any objects, paths shared or not,
  and retries.  There is no hypothesis on the paths or the camera; what shared paths
  and retries can damage is named by the histories in the properties themselves.
  The inductive invariant says that every `.part` file that is not foul is a
  beginning of its object, ties `written` to its length, and says of each path which
  object its file was last renamed for.  One fact on the way has a theorem of its
  own and no run: only whole objects appear under final names, broken ones apart
  (`NoTornFiles`).
* `LinkProofs`, Lifecycle: types (`LifeTypes`), `BadgeHasCause` and `LoopKept`.  The
  strengthening for the badge follows the handler through its two halves: between them
  the flag is set and no loop has been started.  `LoopKept` rests on the same halves:
  the handler has cancelled the loop that was held before it stores the next
  (`Vacant`).
* `BrowserProofs`: types and `FlagsHaveCause`.  Its two halves are proved apart:
  `ImportIsHeard`, which excepts the runs that lost an event to the connect screen and
  needs that an import excludes the settings screen (`ImportsAreHeard`), and `PollingHasCause`, which needs only the types.
* `ControlProofs`: types and `RestIsTrue`, for any properties, values, choices and
  commands.  The types need that a step asks for a value the property may have,
  which is a lemma about `StepChoice`: the choice nearest to a value is one of the
  choices.  The invariant behind `RestIsTrue` says, for each state a command can be
  in while nothing is in doubt, what it has read is still what the camera holds or
  the property was turned since.
  Two theorems are about `Settings` alone: a range is offered ascending and from end
  to end (`RangeIsOffered`, for numbers that 64 bits hold with room to spare: the
  code would overflow on a range of nearly all 64-bit values), and a step goes to
  the neighbour (`StepGoesToNeighbour`).
* `InterfaceProofs`, ConnectScreen: types, `PickerIsExact`, `SpinnersHaveCause` and
  `SavedPairIsTrue`, for any addresses, spellings, bodies, searches and connects.  The inductive invariant
  adds that no body with a serial is remembered twice (`RememberedOnce`), that each search was
  given a list detectCandidates can make, and who has the client (`Held`): at most
  one connect that overlaps others still has it, the link leads to its body while
  there is one, and so does DeviceInfo once it was read.  `BuildPickerIs` says that
  the picker is exact for every saved list and every result of a search;
  it rests on the existence of the assignment that buildPicker's loop computes
  (`ClaimsExist`, by the shortest prefix of the saved cameras that had none).
  Two theorems are about the functions alone: mergeAddrs loses no place
  (`MergeLosesNoPlace`), and everything that answered is in the picker
  (`PickerShowsAllFound`).
* `InterfaceProofs`, UpdateLoop: `ToldBeforeError` and `NoChunkAfterCancel`, for any
  number of commands, links and loops and any channel.  The inductive invariant
  `LossInv` says that a transaction, and a worker's report of a loss, hold `mu`
  (`UnderMu`); that a worker which found a link dead names one the client no
  longer has (`Gone`); and that the loss of a ready link is reported through the
  latch of that link and no other (`OwnLatch`).

* `MobileClientProofs`: types, `OwnAnswer` and `Released`.  The inductive
  invariant `ClientInv` says that, until something fails, at most one number is on
  its way between client and camera and it is the running one's (`Alone`); that
  numbers above `counter` are unused (`Fresh`); and that the plugin holds only
  sockets whose ids the client holds until close has freed them (`Held`, `Up`,
  `CloseOnce`).
* `FileListProofs`: types, `CursorIsShown` and `LoadingHasCause`, for lists, windows,
  caches and fetches of any number.  The window is by itself inductive (`WindowOK`)
  with a lemma about each function of `Layout`.  For the preview the invariant says
  that the file a pane waits for is never below the cursor (`Behind`), because
  space alone moves without asking and only goes down, and that it is being
  fetched, was dropped, or is not the current one (`Sought`, `Fetching`).
  What MCFileList checks of rows on small screens is proved for all: the rows of the
  list from 80 columns on, of the picker, and of the control panel where the rows of
  its settings fit its width, are hit where they are drawn (`ClicksHitTheirFile`,
  `ClicksHitTheirCamera`, `ClicksHitTheirSetting`), and so is the panel's button exactly
  when there are settings and the window does not reach below the last of them
  (`ClicksTakeThePhoto`).
* `MobileAppProofs`, MobileStore: types, `FlagsHaveCause` and `KeptAlive` (a connected
  application has a keep-alive interval, is greeting the camera or is
  disconnecting; proved without a run of its own), which together are inductive: each flag is justified by the state of a call, and each call's end
  resets only the flags that its own state justified.

* `MobileAppProofs`, Plugin: `NothingHeld`, `LossIsTold` and `JoinIsReleasable`, with the
  types (`PluginTypes`), which no run checks.  The
  strengthening says that a published winner is the one that claimed (`OneWinner`),
  that a connection's entry and reader exist exactly when its call was resolved
  (`Alive`), and that no callback is stored while a plugin method is at work
  (`Joined`).

Every invariant and every safety property of the passing runs is a theorem, without
hypotheses beyond the assumptions of the modules on their constants.  Only model-checked: what is temporal (`LossNoticed`,
`CancelledLoopStops`, `RunEnds`, `ImportFinishes`, `LossIsNoticed`, `Settles`,
`PanelSettles`; liveness is beyond the prover), and the rows of
buttons in `Layout` (`ToolbarIsExact`, `FilterChipsAreApart`): a fold over a list needs an induction that the prover
cannot use.  `UiNeverBlocks` is false.

## Not modelled

* Byte layouts (`packet.go`, `dataset.go`, `packets.ts`, `buffer.ts`), styles, texts,
  rendering of images, speed and ETA: formatting or pure output.
* The boxes of overlays, the settings card, hover and press: `Layout` has the rows
  and buttons, not the frames around them.
* The choice of files for import, opening files, toasts, and the refresh of the
  panel after a capture (`ctrlRefreshMsg`).
* TransferList, StorageInfo and TriggerCapture, which change no state of the
  program; which gateways and subnets the host has (constants of ConnectScreen);
  the JSON file and its migration; the SQLite driver, taken as a black box.
* Of the phone: the photo lists and the import queue of the store, `joinCameraWifi`
  of the store, discovery, the updater, the React screens, the Swift plugin and
  the web demonstration camera.
* Assets and build files.

## Plan

Done: PtpClient, Lifecycle, Importer with Library, Browser, UpdateLoop, Control with
Settings, ConnectScreen with Discovery, FileList with Layout, MobileClient,
MobileStore, Plugin, and proofs about all of them.  Next, most important first:

1. `MobileImport`: `importPhotos`, `cancelImport`, `importNew` and
   `CameraService.importPhoto`, with two calls at once and the register of the
   phone; it should implement `Library` or show where it does not.
2. `Updater`: check, download, apply and roll back.
3. `TransferList` (lock, read and unlock of the camera's list).
4. The rows of buttons in a form without folds, so that it can be proved that a
   button is hit where it is drawn.
5. An abstract `Link` specification that both programs implement.
