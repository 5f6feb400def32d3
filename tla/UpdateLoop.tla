----------------------------- MODULE UpdateLoop -----------------------------
(***************************************************************************)
(* Who waits for whom between the terminal interface and the camera link:  *)
(* the update loop of Bubble Tea, Client.mu, the disconnect latches, and   *)
(* the goroutines that run transactions and report to the loop; among them *)
(* the importer, which emits a progress event for every data packet while  *)
(* its transaction holds mu, into a bounded channel that waitImportEvent   *)
(* drains one event per turn of the loop.                                  *)
(*                                                                         *)
(* Program.Send hands over one message and waits until the loop takes it.  *)
(* The loop takes a message, runs Update on it and then View, and takes    *)
(* the next message only when both have returned.  The top bar of the      *)
(* browser screen asks Client.Connected, which takes mu, and so does the   *)
(* handler of a failed refresh (frontend/views.go, model.go).              *)
(***************************************************************************)
EXTENDS Naturals, FiniteSets

CONSTANTS
  Cmds,      \* command goroutines: refresh, thumbnail
  Importer,  \* the goroutine of an import run
  ChanCap,   \* capacity of the import channel (32 in the code)
  MaxLinks   \* bound: links established in a behaviour

ASSUME UpdateLoopAssumption ==
  /\ MaxLinks \in Nat \ {0} /\ ChanCap \in Nat \ {0}
  /\ (Cmds \cup {Importer}) \cap (0..2*MaxLinks) = {} /\ Importer \notin Cmds

Links   == 1..MaxLinks
Readers == Links                      \* readEvents of each link
Loops   == MaxLinks+1 .. 2*MaxLinks   \* reconnect goroutines: each loss starts one
Workers == Cmds \cup {Importer}         \* transactions end in an error of their own
Procs   == Workers \cup Readers \cup Loops

VARIABLES
  mu,      \* holder of Client.mu, 0 when free
  conn,    \* link in cmdConn / evtConn, 0 for nil
  sick,    \* links whose sockets no longer work
  links,   \* number of links installed so far
  latch,   \* link whose sync.Once is in Client.disconnected
  once,    \* state of each Once; running: its function is in Program.Send
  pc,      \* control state of each goroutine
  runs,    \* Once that a goroutine runs or waits for
  mine,    \* link a loop has installed, or on which a command failed
  ready,   \* links whose Connect has returned while the client had their sockets
           \* and their latch, which no older Connect has replaced (history)
  ui,      \* the update loop: taking messages, in the handler, or in View
  shown, reconnecting, importing,    \* fields of Model; shown is its screen
  cancelled,   \* the context of the import run is cancelled
  buffer,      \* events in the import channel
  wait         \* waitImportEvent: none, receiving, or holding a message

socks == <<conn, sick, links>>
flow  == <<importing, cancelled, buffer, wait>>
view  == <<ui, shown, reconnecting>>
updateVars == <<mu, socks, latch, once, pc, runs, mine, ready, view, flow>>

\* connectedMsg was handled: the first link is up, the browser is shown.
UpdateInit ==
  /\ mu = 0 /\ conn = 1 /\ sick = {} /\ links = 1
  /\ latch = 1 /\ once = [l \in Links |-> "new"] /\ ready = {1}
  /\ pc = [p \in Procs |-> IF p = 1 THEN "reading" ELSE "idle"]
  /\ runs = [p \in Procs |-> 0] /\ mine = [p \in Procs |-> 0]
  /\ ui = "select" /\ shown = "browser" /\ reconnecting = FALSE
  /\ importing = FALSE /\ cancelled = FALSE /\ buffer = 0 /\ wait = "none"

Step(p, from, to) == pc[p] = from /\ pc' = [pc EXCEPT ![p] = to]

-----------------------------------------------------------------------------
(* Client.Transact, in a command or in the Connect of a reconnect goroutine *)

Cancelled(p) == p = Importer /\ cancelled

CmdStarts(p) ==
  /\ p \in Cmds /\ shown = "browser" /\ Step(p, "idle", "lock")
  /\ UNCHANGED <<mu, socks, latch, once, runs, mine, ready, view, flow>>

\* Mutant of Lock: the context is only looked at between packets.
LockAnyway(p) ==
  /\ mu = 0 /\ conn # 0
  /\ Step(p, "lock", "txn") /\ mu' = p
  /\ UNCHANGED <<socks, latch, once, runs, mine, ready, view, flow>>

\* The context is looked at before the request is sent.
Lock(p) ==
  /\ mu = 0 /\ conn # 0 /\ ~Cancelled(p)
  /\ Step(p, "lock", "txn") /\ mu' = p
  /\ UNCHANGED <<socks, latch, once, runs, mine, ready, view, flow>>

Refused(p) ==
  /\ mu = 0 /\ (conn = 0 \/ Cancelled(p))
  /\ Step(p, "lock", "error")
  /\ UNCHANGED <<mu, socks, latch, once, runs, mine, ready, view, flow>>

Answered(p) ==
  /\ conn \notin sick
  /\ Step(p, "txn", IF p = Importer THEN "between" ELSE "ok") /\ mu' = 0
  /\ ready' = IF p \in Loops /\ conn = mine[p] /\ latch = mine[p]
              THEN ready \cup {mine[p]} ELSE ready
  /\ UNCHANGED <<socks, latch, once, runs, mine, view, flow>>

\* A read fails, or the context is found cancelled before the next packet.
\* dropLocked: the sockets are closed and the fields nil; mu is kept.
Drops(p) ==
  /\ conn \in sick \/ Cancelled(p)
  /\ Step(p, "txn", "report")
  /\ mine' = IF p \in Workers THEN [mine EXCEPT ![p] = conn] ELSE mine
  /\ conn' = 0
  /\ UNCHANGED <<mu, sick, links, latch, once, runs, ready, view, flow>>

Over(p)   == IF p \in Readers THEN "over" ELSE "error"
Release(p) == mu' = IF mu = p THEN 0 ELSE mu

\* Mutant of Fires: a flag instead of a sync.Once, so a second reporter returns
\* at once.
FiresFlag(p) ==
  /\ pc[p] = "report"
  /\ runs' = [runs EXCEPT ![p] = latch]
  /\ \/ once[latch] = "new" /\ Step(p, "report", "firing")
        /\ once' = [once EXCEPT ![latch] = "running"] /\ mu' = mu
     \/ once[latch] # "new" /\ Step(p, "report", Over(p)) /\ once' = once /\ Release(p)
  /\ UNCHANGED <<socks, latch, mine, ready, view, flow>>

\* fireDisconnect: Once.Do runs the function, which is in Send from here on,
\* waits for the goroutine that is running it, or returns.
Fires(p) ==
  /\ pc[p] = "report"
  /\ runs' = [runs EXCEPT ![p] = latch]
  /\ \/ once[latch] = "new" /\ Step(p, "report", "firing")
        /\ once' = [once EXCEPT ![latch] = "running"] /\ mu' = mu
     \/ once[latch] = "running" /\ Step(p, "report", "waiting") /\ UNCHANGED <<once, mu>>
     \/ once[latch] = "done" /\ Step(p, "report", Over(p)) /\ once' = once /\ Release(p)
  /\ UNCHANGED <<socks, latch, mine, ready, view, flow>>

OnceDone(p) ==
  /\ Step(p, "waiting", Over(p)) /\ once[runs[p]] = "done" /\ Release(p)
  /\ UNCHANGED <<socks, latch, once, runs, mine, ready, view, flow>>

-----------------------------------------------------------------------------
(* The importer goroutine and its channel *)

ChunkStarts ==
  /\ Step(Importer, "between", "lock")
  /\ UNCHANGED <<mu, socks, latch, once, runs, mine, ready, view, flow>>

\* A data packet arrived and was written: progressWriter reports it, under mu.
DataPacket ==
  /\ conn \notin sick /\ Step(Importer, "txn", "emit")
  /\ UNCHANGED <<mu, socks, latch, once, runs, mine, ready, view, flow>>

\* ch <- Event waits for room.
Emit ==
  /\ buffer < ChanCap /\ buffer' = buffer + 1
  /\ Step(Importer, "emit", "txn")
  /\ UNCHANGED <<mu, socks, latch, once, runs, mine, ready, view, importing, cancelled, wait>>

\* EventFileStarted, EventFileSkipped or EventFileDone, outside any transaction.
Announce ==
  /\ pc[Importer] = "between" /\ buffer < ChanCap /\ buffer' = buffer + 1
  /\ UNCHANGED <<mu, socks, latch, once, pc, runs, mine, ready, view, importing, cancelled, wait>>

\* EventAllDone, or EventError after a failure; then the channel is closed.
ImportEnds ==
  /\ buffer < ChanCap /\ buffer' = buffer + 1
  /\ pc[Importer] \in {"between", "error"} /\ pc' = [pc EXCEPT ![Importer] = "closed"]
  /\ UNCHANGED <<mu, socks, latch, once, runs, mine, ready, view, importing, cancelled, wait>>

ReceiveEvent ==
  /\ wait = "receiving"
  /\ \/ buffer > 0 /\ wait' = "event" /\ buffer' = buffer - 1
     \/ buffer = 0 /\ pc[Importer] = "closed" /\ wait' = "end" /\ buffer' = buffer
  /\ UNCHANGED <<mu, socks, latch, once, pc, runs, mine, ready, view, importing, cancelled>>

-----------------------------------------------------------------------------
(* Camera.Reconnect: close what is left, connect, report.  A loop that was  *)
(* replaced goes on until it looks at its context.                          *)

LoopCloses(i) ==
  /\ mu = 0 /\ Step(i, "closing", "dialing") /\ conn' = 0
  /\ UNCHANGED <<mu, sick, links, latch, once, runs, mine, ready, view, flow>>

LoopInstalls(i) ==
  /\ mu = 0 /\ links < MaxLinks
  /\ Step(i, "dialing", "arming")
  /\ links' = links + 1 /\ conn' = links' /\ mine' = [mine EXCEPT ![i] = links']
  /\ UNCHANGED <<mu, sick, latch, once, runs, ready, view, flow>>

\* A loop that was replaced may arm its latch after the loop that replaced it.
LoopArms(i) ==
  /\ pc[i] = "arming"
  /\ pc' = [pc EXCEPT ![i] = "lock", ![mine[i]] = "reading"]
  /\ latch' = mine[i] /\ ready' = {l \in ready : l < mine[i]}
  /\ UNCHANGED <<mu, socks, once, runs, mine, view, flow>>

\* Connect failed: another attempt, or the end of a cancelled loop.
LoopFails(i) ==
  /\ \/ Step(i, "error", "closing") \/ Step(i, "error", "over") \/ Step(i, "dialing", "over")
  /\ UNCHANGED <<mu, socks, latch, once, runs, mine, ready, view, flow>>

-----------------------------------------------------------------------------
(* The camera, and the event reader of each link *)

LinkDies ==
  /\ conn \notin sick \cup {0} /\ sick' = sick \cup {conn}
  /\ UNCHANGED <<mu, conn, links, latch, once, pc, runs, mine, ready, view, flow>>

ReaderFails(l) ==
  /\ l \in sick \/ conn # l
  /\ Step(l, "reading", "failed")
  /\ UNCHANGED <<mu, socks, latch, once, runs, mine, ready, view, flow>>

\* Under mu: deliberate := cmdConn == nil.
Deliberate(l) ==
  /\ mu = 0 /\ Step(l, "failed", IF conn = 0 THEN "over" ELSE "report")
  /\ UNCHANGED <<mu, socks, latch, once, runs, mine, ready, view, flow>>

-----------------------------------------------------------------------------
(* The update loop *)

Taken(p) == pc' = [pc EXCEPT ![p] = IF p \in Cmds THEN "idle" ELSE "over"]

\* linkLostMsg: the Once of the sender is done, and a reconnect goroutine starts.
TakeLinkLost ==
  /\ ui = "select"
  /\ \E p \in Procs, i \in Loops :
       /\ pc[p] = "firing" /\ pc[i] = "idle" /\ \A j \in Loops : j < i => pc[j] # "idle"
       /\ once' = [once EXCEPT ![runs[p]] = "done"]
       /\ pc' = [pc EXCEPT ![p] = Over(p), ![i] = "closing"]
       /\ Release(p)
  /\ reconnecting' = TRUE /\ ui' = "view"
  /\ UNCHANGED <<socks, latch, runs, mine, ready, shown, flow>>

TakeReconnected ==
  /\ ui = "select" /\ \E i \in Loops : pc[i] = "ok" /\ Taken(i)
  /\ reconnecting' = FALSE /\ ui' = "view"
  /\ UNCHANGED <<mu, socks, latch, once, runs, mine, ready, shown, flow>>

\* Any other message: a key, a tick, the result of a command that succeeded.
TakeOther ==
  /\ ui = "select" /\ ui' = "view"
  /\ pc' = pc \/ \E g \in Cmds : pc[g] = "ok" /\ Taken(g)
  /\ UNCHANGED <<mu, socks, latch, once, runs, mine, ready, shown, reconnecting, flow>>

\* A refreshMsg with an error: unless a reconnect is under way the handler
\* asks Connected.
TakeRefreshError ==
  /\ ui = "select"
  /\ \E g \in Cmds : pc[g] = "error" /\ Taken(g) /\ mine' = [mine EXCEPT ![g] = 0]
  /\ ui' = IF shown = "browser" /\ ~reconnecting THEN "connected" ELSE "view"
  /\ UNCHANGED <<mu, socks, latch, once, runs, ready, shown, reconnecting, flow>>

KeyImport ==
  /\ ui = "select" /\ shown = "browser" /\ ~importing
  /\ Step(Importer, "idle", "between")
  /\ importing' = TRUE /\ cancelled' = FALSE /\ buffer' = 0 /\ wait' = "receiving"
  /\ ui' = "view"
  /\ UNCHANGED <<mu, socks, latch, once, runs, mine, ready, shown, reconnecting>>

\* x or esc
KeyCancel ==
  /\ ui = "select" /\ shown = "browser" /\ importing
  /\ cancelled' = TRUE /\ ui' = "view"
  /\ UNCHANGED <<mu, socks, latch, once, pc, runs, mine, ready, shown, reconnecting,
                 importing, buffer, wait>>

\* importEventMsg with an event; another screen drops it.
TakeImportEvent ==
  /\ ui = "select" /\ wait = "event" /\ ui' = "view"
  /\ wait' = IF shown = "browser" THEN "receiving" ELSE "none"
  /\ UNCHANGED <<mu, socks, latch, once, pc, runs, mine, ready, shown, reconnecting,
                 importing, cancelled, buffer>>

\* importEventMsg of the closed channel
TakeImportEnd ==
  /\ ui = "select" /\ wait = "end" /\ ui' = "view"
  /\ wait' = "none" /\ pc' = [pc EXCEPT ![Importer] = "idle"]
  /\ mine' = [mine EXCEPT ![Importer] = 0]
  /\ importing' = (shown # "browser")
  /\ UNCHANGED <<mu, socks, latch, once, runs, ready, shown, reconnecting,
                 cancelled, buffer>>

HandlerConnected ==
  /\ ui = "connected" /\ mu = 0
  /\ shown' = IF conn # 0 THEN shown ELSE "connect"
  /\ ui' = "view"
  /\ UNCHANGED <<mu, socks, latch, once, pc, runs, mine, ready, reconnecting, flow>>

\* View of the browser asks Connected; other screens do not.
View ==
  /\ ui = "view" /\ (shown = "browser" => mu = 0)
  /\ ui' = "select"
  /\ UNCHANGED <<mu, socks, latch, once, pc, runs, mine, ready, shown, reconnecting, flow>>

-----------------------------------------------------------------------------
Transact(p) == CmdStarts(p) \/ Lock(p) \/ Refused(p) \/ Answered(p) \/ Drops(p)
               \/ Fires(p) \/ OnceDone(p)
Loop(i)     == LoopCloses(i) \/ LoopInstalls(i) \/ LoopArms(i) \/ LoopFails(i)
ReadEvents(l) == ReaderFails(l) \/ Deliberate(l)
Import == ChunkStarts \/ DataPacket \/ Emit \/ Announce \/ ImportEnds \/ ReceiveEvent
Ui == TakeLinkLost \/ TakeReconnected \/ TakeOther \/ TakeRefreshError
      \/ KeyImport \/ KeyCancel \/ TakeImportEvent \/ TakeImportEnd
      \/ HandlerConnected \/ View

UpdateNext ==
  \/ \E p \in Procs : Transact(p)
  \/ \E i \in Loops : Loop(i)
  \/ \E l \in Readers : ReadEvents(l)
  \/ LinkDies \/ Import \/ Ui

UpdateSpec == UpdateInit /\ [][UpdateNext]_updateVars

-----------------------------------------------------------------------------
(* Properties *)

\* Waiting for the update loop with mu in hand: in Send, in Once.Do, or for
\* room in a channel whose reader is handing a message to the loop.
HoldsUp(p) ==
  /\ mu = p
  /\ \/ pc[p] = "firing"
     \/ pc[p] = "waiting" /\ once[runs[p]] = "running"
     \/ pc[p] = "emit" /\ buffer = ChanCap /\ wait = "event"

\* "All camera I/O runs in tea.Cmd goroutines so the UI never blocks"
\* (model.go 3-4; also "calling it while holding mu is safe and cannot
\* deadlock", client.go 450-451): the loop never waits for mu while the
\* goroutine that holds mu waits for the loop.
UiNeverBlocks ==
  ~ /\ \E p \in Procs : HoldsUp(p)
    /\ ui = "connected" \/ (ui = "view" /\ shown = "browser")

\* When a command fails because it found a connected link dead, the interface
\* has already been told of that loss, whichever goroutine reported it, so the
\* error finds the reconnect started (dropLocked, model.go 504-508); unless two
\* loops connected at once and the older latch was armed last (ready).
ToldBeforeError ==
  \A g \in Workers : pc[g] = "error" /\ mine[g] \in ready => once[mine[g]] = "done"

\* Once a run is cancelled it sends no further request, even if it was waiting
\* for mu at that moment (DownloadTo 547-549, transactLocked 364-366).
NoChunkAfterCancel ==
  [][cancelled /\ pc[Importer] \notin {"txn", "emit"} => pc'[Importer] # "txn" \/ ~cancelled']_updateVars
=============================================================================
