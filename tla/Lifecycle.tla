----------------------------- MODULE Lifecycle -----------------------------
(***************************************************************************)
(* The life of a camera link above the PTP/IP client: the keep-alive and   *)
(* auto-reconnect goroutines of camera.Camera (internal/camera/camera.go)  *)
(* and the handlers of the terminal interface that start, replace and stop *)
(* them (internal/frontend/model.go).                                      *)
(*                                                                         *)
(* Goroutines report to the interface with Program.Send, which hands over  *)
(* one message at a time: a sender waits until the update loop takes its   *)
(* message.  A goroutine that sends is in a state of its own here, and the *)
(* handler of the message moves it on.                                     *)
(***************************************************************************)
EXTENDS Naturals, FiniteSets

CONSTANTS
  MaxDrops,  \* bound: times the link is observed dead in a behaviour
  MaxKeep    \* bound: keep-alive loops that exist at the same time

ASSUME LifecycleAssumption == MaxDrops \in Nat \ {0} /\ MaxKeep \in Nat \ {0}

Loops == 1..MaxDrops      \* every loop is started by one handled loss
Keeps == 1..MaxKeep

VARIABLES
  up,           \* Client.Connected(): the client holds sockets
  alive,        \* the camera still answers on them
  armed,        \* the disconnect latch of these sockets has not been used
  addr,         \* Camera.addr # ""
  loop,         \* control state of each auto-reconnect goroutine
  cancelled,    \* loops whose context has been cancelled
  reconnectCtx, \* loop whose cancel function Camera.reconnectCtx holds, 0 for nil
  keeps,        \* keep-alive goroutines that run and are not cancelled
  keepAliveCtx, \* keep-alive whose cancel function Camera.keepAliveCtx holds
  screen,       \* Model.screen: connect or browser
  reconnecting, \* Model.reconnecting
  ui,           \* the update loop: ready, or between two locked sections of a handler
  connect,      \* the detectCmd or connectCmd of the moment (bound: one at a time)
  lost,         \* goroutines waiting to deliver a linkLostMsg
  drops,        \* how many times the link was observed dead
  left          \* the user disconnected, and has not connected since (history)

cam   == <<up, alive, armed, addr>>
loops == <<loop, cancelled, reconnectCtx>>
keep  == <<keeps, keepAliveCtx>>
view  == <<screen, reconnecting, ui, left>>
env   == <<connect, lost, drops>>
lifeVars == <<cam, loops, keep, view, env>>

LoopState == {"none", "emitWaiting", "sleeping", "dialing", "dropping", "failed",
              "emitErr", "kaStop", "kaStore", "emitConnected", "emitGaveUp",
              "exit", "done"}

LifeTypeOK ==
  /\ up \in BOOLEAN /\ alive \in BOOLEAN /\ armed \in BOOLEAN /\ addr \in BOOLEAN
  /\ loop \in [Loops -> LoopState]
  /\ cancelled \subseteq Loops
  /\ reconnectCtx \in 0..MaxDrops
  /\ keeps \subseteq Keeps /\ keepAliveCtx \in 0..MaxKeep
  /\ screen \in {"connect", "browser"} /\ reconnecting \in BOOLEAN
  /\ ui \in {"ready", "storeLoop", "storeKeep"}
  /\ connect \in {"none", "detecting", "dialing", "ok", "error"}
  /\ lost \in 0..MaxDrops /\ drops \in 0..MaxDrops /\ left \in BOOLEAN

LifeInit ==
  /\ up = FALSE /\ alive = FALSE /\ armed = FALSE /\ addr = FALSE
  /\ loop = [i \in Loops |-> "none"] /\ cancelled = {} /\ reconnectCtx = 0
  /\ keeps = {} /\ keepAliveCtx = 0
  /\ screen = "connect" /\ reconnecting = FALSE /\ ui = "ready"
  /\ connect = "none" /\ lost = 0 /\ drops = 0 /\ left = FALSE

Running(i) == loop[i] \notin {"none", "done"}
Step(i, from, to) == loop[i] = from /\ loop' = [loop EXCEPT ![i] = to]

-----------------------------------------------------------------------------
(* Camera: the operations under lifeMu *)

\* Mutant of CancelReconnect: the function is forgotten and not called.
CancelReconnectForgotten ==
  /\ reconnectCtx' = 0
  /\ UNCHANGED cancelled

CancelReconnect ==
  /\ cancelled' = cancelled \cup ({reconnectCtx} \ {0})
  /\ reconnectCtx' = 0

StopKeepAlive ==
  /\ keeps' = keeps \ {keepAliveCtx}
  /\ keepAliveCtx' = 0

\* The second half of StartKeepAlive: store the cancel function, start the loop.
StoreKeepAlive ==
  \E k \in Keeps \ (keeps \cup {keepAliveCtx}) :
    keeps' = keeps \cup {k} /\ keepAliveCtx' = k

\* Connect of the client, and Close, which does not report.
OpenClient  == up' = TRUE /\ alive' = TRUE /\ armed' = TRUE
CloseClient == up' = FALSE /\ alive' = FALSE /\ armed' = FALSE

\* Mutant of Report: the loss is reported by everyone who sees it.
ReportAgain ==
  /\ drops < MaxDrops
  /\ armed' = FALSE
  /\ lost' = lost + 1 /\ drops' = IF armed THEN drops + 1 ELSE drops

\* The link is observed dead: reported once for its sockets (fireDisconnect).
Report ==
  /\ drops < MaxDrops
  /\ armed' = FALSE
  /\ IF armed THEN lost' = lost + 1 /\ drops' = drops + 1
              ELSE UNCHANGED <<lost, drops>>

\* dropLocked: close the sockets and report.
DropClient == up' = FALSE /\ alive' = FALSE /\ Report

-----------------------------------------------------------------------------
(* The reconnect goroutine *)

\* The select between ctx.Done and the backoff timer.
LoopCancelled(i) ==
  /\ i \in cancelled
  /\ Step(i, "sleeping", "emitGaveUp")
  /\ UNCHANGED <<cam, cancelled, reconnectCtx, keep, view, env>>

\* With a context that is cancelled already, dialling fails at once.
LoopWakes(i) ==
  /\ Step(i, "sleeping", IF i \in cancelled THEN "failed" ELSE "dialing")
  /\ CloseClient
  /\ UNCHANGED <<addr, cancelled, reconnectCtx, keep, view, env>>

LoopConnects(i) ==
  /\ Step(i, "dialing", "kaStop")
  /\ OpenClient
  /\ UNCHANGED <<addr, cancelled, reconnectCtx, keep, view, env>>

\* The camera cannot be reached, and nothing of the client changed; or it refuses
\* OpenSession or GetDeviceInfo, and the client is closed.
LoopFails(i) ==
  /\ Step(i, "dialing", "failed")
  /\ CloseClient \/ UNCHANGED <<up, alive, armed>>
  /\ UNCHANGED <<addr, cancelled, reconnectCtx, keep, view, env>>

\* OpenSession or GetDeviceInfo dies on the new sockets: dropLocked reports
\* from inside Connect, and the loop waits for the interface to take it.
LoopDrops(i) ==
  /\ drops < MaxDrops
  /\ Step(i, "dialing", "dropping")
  /\ CloseClient
  /\ drops' = drops + 1
  /\ UNCHANGED <<addr, cancelled, reconnectCtx, keep, view, connect, lost>>

\* Mutant of LoopRetries: the context is not looked at after a failed attempt.
LoopRetriesAnyway(i) ==
  /\ Step(i, "failed", "emitErr")
  /\ UNCHANGED <<cam, cancelled, reconnectCtx, keep, view, env>>

LoopRetries(i) ==
  /\ Step(i, "failed", IF i \in cancelled THEN "emitGaveUp" ELSE "emitErr")
  /\ UNCHANGED <<cam, cancelled, reconnectCtx, keep, view, env>>

LoopStopsKeepAlive(i) ==
  /\ Step(i, "kaStop", "kaStore")
  /\ StopKeepAlive
  /\ UNCHANGED <<cam, cancelled, reconnectCtx, view, env>>

LoopStoresKeepAlive(i) ==
  /\ Step(i, "kaStore", "emitConnected")
  /\ StoreKeepAlive
  /\ UNCHANGED <<cam, cancelled, reconnectCtx, view, env>>

\* The deferred cleanup: whatever cancel function is stored is cleared.
LoopExits(i) ==
  /\ Step(i, "exit", "done")
  /\ reconnectCtx' = 0
  /\ UNCHANGED <<cam, cancelled, keep, view, env>>

LoopStep(i) ==
  \/ LoopCancelled(i) \/ LoopWakes(i) \/ LoopConnects(i) \/ LoopFails(i)
  \/ LoopDrops(i) \/ LoopRetries(i)
  \/ LoopStopsKeepAlive(i) \/ LoopStoresKeepAlive(i) \/ LoopExits(i)

-----------------------------------------------------------------------------
(* The keep-alive goroutine *)

\* The round trip fails, or runs into its 15 s deadline, and drops the link.
KeepAliveDrops(k) ==
  /\ k \in keeps /\ up
  /\ keeps' = keeps \ {k}
  /\ DropClient
  /\ UNCHANGED <<addr, loops, keepAliveCtx, view, connect>>

\* A tick with no client connection.
KeepAliveLeaves(k) ==
  /\ k \in keeps /\ ~up
  /\ keeps' = keeps \ {k}
  /\ UNCHANGED <<cam, loops, keepAliveCtx, view, env>>

\* The camera answers GetStorageIDs with an error code: an error to KeepAlive,
\* although the link is up.
KeepAliveRefused(k) ==
  /\ k \in keeps /\ up /\ alive
  /\ keeps' = keeps \ {k}
  /\ UNCHANGED <<cam, loops, keepAliveCtx, view, env>>

-----------------------------------------------------------------------------
(* The link *)

\* The camera goes silent; nobody has noticed yet.
LinkDies ==
  /\ up /\ alive
  /\ alive' = FALSE
  /\ UNCHANGED <<up, armed, addr, loops, keep, view, env>>

\* The event reader sees it and reports; the sockets stay in the client.
ReaderReports ==
  /\ up /\ ~alive /\ armed
  /\ Report
  /\ UNCHANGED <<up, alive, addr, loops, keep, view, connect>>

\* A transaction of a command goroutine (refresh, thumbnail, import) or of a
\* stopped keep-alive fails: on a dead link, at its deadline, on bad data, or
\* because its context was cancelled half-way.
TransactionDrops ==
  /\ up
  /\ DropClient
  /\ UNCHANGED <<addr, loops, keep, view, connect>>

\* connectCmd: Camera.Connect.
ConnectSucceeds ==
  /\ connect = "dialing"
  /\ connect' = "ok" /\ OpenClient /\ addr' = TRUE
  /\ UNCHANGED <<loops, keep, view, lost, drops>>

ConnectFails ==
  /\ connect = "dialing"
  /\ connect' = "error"
  /\ CloseClient \/ UNCHANGED <<up, alive, armed>>
  /\ UNCHANGED <<addr, loops, keep, view, lost, drops>>

\* It fails after its sockets were installed and its latch armed.
ConnectDrops ==
  /\ connect = "dialing" /\ drops < MaxDrops
  /\ connect' = "error" /\ CloseClient /\ lost' = lost + 1 /\ drops' = drops + 1
  /\ UNCHANGED <<addr, loops, keep, view>>

-----------------------------------------------------------------------------
(* The update loop *)

Ready == ui = "ready"

\* enter on the connect screen
UiConnect ==
  /\ Ready /\ screen = "connect" /\ connect = "none"
  /\ connect' = "dialing" /\ left' = FALSE
  /\ UNCHANGED <<cam, loops, keep, screen, reconnecting, ui, lost, drops>>

\* d on the connect screen: startDetect
UiDetect ==
  /\ Ready /\ screen = "connect" /\ connect = "none"
  /\ connect' = "detecting"
  /\ UNCHANGED <<cam, loops, keep, view, lost, drops>>

\* discoveredMsg: a single camera is connected to at once, otherwise the user
\* picks one; on another screen the message is dropped.
UiDiscovered ==
  /\ Ready /\ connect = "detecting"
  /\ \/ screen = "connect" /\ connect' = "dialing" /\ left' = FALSE
     \/ connect' = "none" /\ UNCHANGED left
  /\ UNCHANGED <<cam, loops, keep, screen, reconnecting, ui, lost, drops>>

\* connectedMsg without an error: into the browser, with a keep-alive.
UiConnected ==
  /\ Ready /\ connect = "ok" /\ screen = "connect"
  /\ connect' = "none"
  /\ screen' = "browser" /\ reconnecting' = FALSE
  /\ StopKeepAlive /\ ui' = "storeKeep"
  /\ UNCHANGED <<cam, loops, lost, drops, left>>

UiStoresKeepAlive ==
  /\ ui = "storeKeep" /\ ui' = "ready"
  /\ StoreKeepAlive
  /\ UNCHANGED <<cam, loops, screen, reconnecting, left, env>>

\* connectedMsg with an error (a message for another screen is dropped).
UiConnectFailed ==
  /\ Ready /\ connect \in {"ok", "error"} /\ (connect = "ok" => screen # "connect")
  /\ connect' = "none"
  /\ UNCHANGED <<cam, loops, keep, view, lost, drops>>

\* handleLinkLost: stop the keep-alive, then Camera.Reconnect, whose first
\* half cancels the loop in reconnectCtx.  Without an address it returns.  The
\* sender may be a loop inside Connect, which then fails with its error.
UiLinkLost ==
  /\ Ready
  /\ \/ lost > 0 /\ lost' = lost - 1 /\ loop' = loop
     \/ lost' = lost /\ \E i \in Loops : Step(i, "dropping", "failed")
  /\ reconnecting' = TRUE
  /\ StopKeepAlive
  /\ \/ addr /\ CancelReconnect /\ ui' = "storeLoop"
     \/ ~addr /\ UNCHANGED <<cancelled, reconnectCtx, ui>>
  /\ UNCHANGED <<cam, screen, left, connect, drops>>

\* The second half: store the new cancel function, start the goroutine.
UiStoresLoop ==
  /\ ui = "storeLoop" /\ ui' = "ready"
  /\ \E i \in Loops :
       /\ loop[i] = "none" /\ \A j \in Loops : j < i => loop[j] # "none"
       /\ loop' = [loop EXCEPT ![i] = "emitWaiting"]
       /\ reconnectCtx' = i
  /\ UNCHANGED <<cam, cancelled, keep, screen, reconnecting, left, env>>

\* Mutant of UiReconnectState: giving up leaves the badge on.
UiReconnectStateKept(i) ==
  /\ Ready
  /\ \/ /\ \/ Step(i, "emitWaiting", "sleeping")
           \/ Step(i, "emitErr", "emitWaiting")
           \/ Step(i, "emitGaveUp", "exit")
        /\ reconnecting' = TRUE
     \/ Step(i, "emitConnected", "exit") /\ reconnecting' = FALSE
  /\ UNCHANGED <<cam, cancelled, reconnectCtx, keep, screen, ui, left, env>>

\* handleReconnect, one case per kind of status
UiReconnectState(i) ==
  /\ Ready
  /\ \/ /\ \/ Step(i, "emitWaiting", "sleeping")
           \/ Step(i, "emitErr", "emitWaiting")
        /\ reconnecting' = TRUE
     \/ /\ \/ Step(i, "emitConnected", "exit")
           \/ Step(i, "emitGaveUp", "exit")
        /\ reconnecting' = FALSE
  /\ UNCHANGED <<cam, cancelled, reconnectCtx, keep, screen, ui, left, env>>

\* refreshMsg with an error: with a reconnect under way stay in the browser,
\* with no connection go to the connect screen, else show a toast.
UiRefreshFailed ==
  /\ Ready /\ screen = "browser" /\ ~reconnecting /\ ~up
  /\ screen' = "connect"
  /\ UNCHANGED <<cam, loops, keep, reconnecting, ui, left, env>>

\* switchCamera: Disconnect if the client is connected, then the connect
\* screen and a fresh detection.
UiSwitchCamera ==
  /\ Ready /\ screen = "browser" /\ connect = "none"
  /\ \/ up /\ StopKeepAlive /\ CancelReconnect /\ CloseClient
     \/ ~up /\ UNCHANGED <<up, alive, armed, cancelled, reconnectCtx, keep>>
  /\ screen' = "connect" /\ connect' = "detecting" /\ left' = up
  /\ UNCHANGED <<addr, loop, reconnecting, ui, lost, drops>>

UiStep ==
  \/ UiConnected \/ UiStoresKeepAlive \/ UiConnectFailed
  \/ UiLinkLost \/ UiStoresLoop \/ \E i \in Loops : UiReconnectState(i)

-----------------------------------------------------------------------------
LifeNext ==
  \/ \E i \in Loops : LoopStep(i)
  \/ \E k \in Keeps : KeepAliveDrops(k) \/ KeepAliveLeaves(k) \/ KeepAliveRefused(k)
  \/ LinkDies \/ ReaderReports \/ TransactionDrops
  \/ ConnectSucceeds \/ ConnectFails \/ ConnectDrops
  \/ UiConnect \/ UiDetect \/ UiDiscovered \/ UiRefreshFailed \/ UiSwitchCamera \/ UiStep

LifeSpec == LifeInit /\ [][LifeNext]_lifeVars

\* Goroutines and the update loop keep running; users and cameras need not act.
LifeFairSpec ==
  /\ LifeSpec
  /\ \A i \in Loops : WF_lifeVars(LoopStep(i)) /\ SF_lifeVars(UiReconnectState(i))
  /\ SF_lifeVars(UiLinkLost) /\ WF_lifeVars(UiStoresLoop) /\ WF_lifeVars(UiStoresKeepAlive)

-----------------------------------------------------------------------------
(* Properties *)

\* The reconnecting badge of the browser always has a cause: a reconnect
\* goroutine that still has a status to report, or one about to be started
\* (handleLinkLost, handleReconnect).
BadgeHasCause ==
  screen = "browser" /\ reconnecting =>
    ui = "storeLoop" \/ \E i \in Loops : Running(i) /\ loop[i] # "exit"

\* A cancelled reconnect goroutine stops (Reconnect: "stops on the first
\* successful reconnect or when cancelled").
CancelledLoopStops == \A i \in Loops : i \in cancelled ~> loop[i] = "done"

\* The loop has attempts before it.
AtWork(i) == loop[i] \in {"emitWaiting", "sleeping", "dialing", "dropping", "failed", "emitErr"}

\* No loop gets out of reach: the one whose cancel function the camera holds is cancelled
\* before another is stored or the function forgotten, unless it is past its attempts. The
\* exception is the deferred cleanup of a loop that ends, which forgets whatever function
\* is held (Reconnect 280-290, cancelReconnect).
LoopKept ==
  [][\A i \in Loops : reconnectCtx = i /\ reconnectCtx' # i /\ AtWork(i) =>
       i \in cancelled' \/ \E j \in Loops \ {i} : LoopExits(j)]_lifeVars

-----------------------------------------------------------------------------
(* What the code says and does not keep: TLC finds each violated, and no run lists it *)

\* camera.go 264: "Only one loop runs at a time; a fresh call replaces any in-flight loop"
\* (Reconnect 280-288).
OneLoop == \A i, j \in Loops \ cancelled : AtWork(i) /\ AtWork(j) => i = j

\* camera.go 263-264: the loop "stops on the first successful reconnect or when cancelled";
\* once cancelled it makes no connection (Reconnect 303-314).
StopsWhenCancelled ==
  [][\A i \in cancelled : loop[i] = "dialing" => loop'[i] # "kaStop"]_lifeVars

\* camera.go 200-202: "an explicit user disconnect wins over automatic recovery": after one,
\* no loop has attempts before it (Disconnect, handleLinkLost).
DisconnectWins == left => \A i \in Loops : AtWork(i) => i \in cancelled

\* model.go 309-310: a loss "surfaces the reconnecting status in the browser", for as long as
\* a loop is at work (handleLinkLost, connectedMsg).
LoopIsBadged ==
  screen = "browser" /\ (\E i \in Loops \ cancelled : AtWork(i)) => reconnecting
=============================================================================
