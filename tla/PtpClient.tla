----------------------------- MODULE PtpClient -----------------------------
(***************************************************************************)
(* ptpip.Client of internal/ptpip/client.go: the two TCP connections of a  *)
(* camera link, the mutex that serialises transactions, the goroutine that *)
(* reads the event connection, and the latch through which the loss of a   *)
(* link is reported once to the application.                               *)
(*                                                                         *)
(* A generation g \in Conns stands for one pair of sockets dialled by one  *)
(* call of Connect and for the sync.Once armed for it.  The fields cmdConn *)
(* and evtConn are assigned together everywhere in the code; conn is the   *)
(* generation they hold, 0 when they are nil.                              *)
(***************************************************************************)
EXTENDS Naturals, FiniteSets

CONSTANTS
  Threads,     \* goroutines that call the client: UI commands, keep-alive, reconnect loop
  Connectors,  \* those of them that may call Connect
  CloseFirst,  \* callers connect only when no link is installed, as Camera.Reconnect does
  MaxConn      \* bound: number of successful dials in a behaviour

ASSUME ClientAssumption ==
  /\ Connectors \subseteq Threads
  /\ CloseFirst \in BOOLEAN
  /\ MaxConn \in Nat \ {0}
  /\ 0 \notin Threads

Conns == 1..MaxConn

VARIABLES
  conn,     \* generation in cmdConn / evtConn, 0 for nil
  mu,       \* holder of Client.mu across steps, 0 when free
  cmdSock,  \* command socket of each generation
  evtSock,  \* event socket of each generation
  latch,    \* generation of the sync.Once in Client.disconnected, 0 for nil
  done,     \* latches whose Once has run: the handler was called for them
  reader,   \* control state of each generation's readEvents goroutine
  pc,       \* control state of each calling thread
  new,      \* generation a thread's Connect is installing, 0 outside Connect
  using,    \* generation whose command socket a thread reads and writes, or 0
  result,   \* what Connect returned for each generation
  fate,     \* how each generation left the client (history)
  crossed   \* generations whose Connect another one met between its installation and its
            \* return, or between the installation and the arming of the other (history)

vars == <<conn, mu, cmdSock, evtSock, latch, done, reader,
          pc, new, using, result, fate, crossed>>

SockState   == {"none", "open", "lost", "closed"}
ReaderState == {"none", "reading", "failed", "firing", "ended"}
PcState     == {"idle", "install", "arm", "spawn", "lock", "txn",
                "reopen", "retry", "close", "closing"}

TypeOK ==
  /\ conn \in 0..MaxConn
  /\ mu \in Threads \cup {0}
  /\ cmdSock \in [Conns -> SockState]
  /\ evtSock \in [Conns -> SockState]
  /\ latch \in 0..MaxConn
  /\ done \subseteq Conns
  /\ reader \in [Conns -> ReaderState]
  /\ pc \in [Threads -> PcState]
  /\ new \in [Threads -> 0..MaxConn]
  /\ using \in [Threads -> 0..MaxConn]
  /\ result \in [Conns -> {"none", "pending", "ok", "error"}]
  /\ fate \in [Conns -> {"none", "live", "dropped", "closed", "replaced"}]
  /\ crossed \subseteq Conns

Init ==
  /\ conn = 0 /\ mu = 0 /\ latch = 0 /\ done = {}
  /\ cmdSock = [g \in Conns |-> "none"]
  /\ evtSock = [g \in Conns |-> "none"]
  /\ reader = [g \in Conns |-> "none"]
  /\ pc = [t \in Threads |-> "idle"]
  /\ new = [t \in Threads |-> 0]
  /\ using = [t \in Threads |-> 0]
  /\ result = [g \in Conns |-> "none"]
  /\ fate = [g \in Conns |-> "none"]
  /\ crossed = {}

Goto(t, label) == pc' = [pc EXCEPT ![t] = label]

\* Mutant of Fired: the nil check of fireDisconnect is missing.
FiredUnchecked == done \cup {latch}

\* fireDisconnect: run the Once now in the latch, a no-op when it has run.
Fired == IF latch = 0 THEN done ELSE done \cup {latch}

-----------------------------------------------------------------------------
(* Connect *)

\* Dial and initialise both sockets.  A failure on the way closes what was
\* dialled and returns: no state of the client changes, so it is a stutter.
Dial(t, g) ==
  /\ t \in Connectors /\ pc[t] = "idle" /\ (CloseFirst => conn = 0)
  /\ cmdSock[g] = "none" /\ \A h \in Conns : h < g => cmdSock[h] # "none"
  /\ cmdSock' = [cmdSock EXCEPT ![g] = "open"]
  /\ evtSock' = [evtSock EXCEPT ![g] = "open"]
  /\ result' = [result EXCEPT ![g] = "pending"]
  /\ new' = [new EXCEPT ![t] = g]
  /\ Goto(t, "install")
  /\ UNCHANGED <<conn, mu, latch, done, reader, using, fate, crossed>>

\* The generations that are crossed when t installs its own.
CrossedBy(t) ==
  {new[u] : u \in {u \in Threads \ {t} : new[u] # 0 /\ pc[u] # "install"}}
    \cup {new[v] : v \in {v \in {t} : \E u \in Threads \ {t} : pc[u] = "arm"}}

\* Under mu.  The sockets the fields held are overwritten, not closed.
Install(t) ==
  /\ pc[t] = "install" /\ mu = 0
  /\ conn' = new[t]
  /\ fate' = [g \in Conns |-> IF g = new[t] THEN "live"
                              ELSE IF g = conn THEN "replaced" ELSE fate[g]]
  /\ crossed' = crossed \cup CrossedBy(t)
  /\ Goto(t, "arm")
  /\ UNCHANGED <<mu, cmdSock, evtSock, latch, done, reader,
                 new, using, result>>

\* Mutant of Arm: the latch is made once per client, not once per connection.
ArmOnce(t) ==
  /\ pc[t] = "arm"
  /\ latch' = IF latch = 0 THEN new[t] ELSE latch
  /\ Goto(t, "spawn")
  /\ UNCHANGED <<conn, mu, cmdSock, evtSock, done, reader,
                 new, using, result, fate, crossed>>

\* Under handlerMu, after mu was released.
Arm(t) ==
  /\ pc[t] = "arm"
  /\ latch' = new[t]
  /\ Goto(t, "spawn")
  /\ UNCHANGED <<conn, mu, cmdSock, evtSock, done, reader,
                 new, using, result, fate, crossed>>

Spawn(t) ==
  /\ pc[t] = "spawn"
  /\ reader' = [reader EXCEPT ![new[t]] = "reading"]
  /\ Goto(t, "lock")
  /\ UNCHANGED <<conn, mu, cmdSock, evtSock, latch, done,
                 new, using, result, fate, crossed>>

-----------------------------------------------------------------------------
(* Transact.  Connect's own OpenSession is the transaction of a thread with *)
(* new[t] # 0: an error of it makes Connect call Close and return the error. *)

Call(t) ==
  /\ pc[t] = "idle"
  /\ Goto(t, "lock")
  /\ UNCHANGED <<conn, mu, cmdSock, evtSock, latch, done, reader, new, using, result, fate, crossed>>

\* Control returns to the caller with an error, or with success.
ReturnError(t) ==
  /\ Goto(t, IF new[t] # 0 THEN "close" ELSE "idle")
  /\ UNCHANGED <<new, result>>

ReturnOK(t) ==
  /\ Goto(t, "idle")
  /\ result' = [g \in Conns |-> IF g = new[t] THEN "ok" ELSE result[g]]
  /\ new' = [new EXCEPT ![t] = 0]

\* ErrNotConnected, or a context already cancelled: nothing is sent or dropped.
Refuse(t) ==
  /\ pc[t] = "lock" /\ mu = 0
  /\ ReturnError(t)
  /\ UNCHANGED <<conn, mu, cmdSock, evtSock, latch, done, reader, using, fate, crossed>>

\* Take mu and send the request on the command socket of the moment.
Begin(t) ==
  /\ pc[t] = "lock" /\ mu = 0 /\ conn # 0
  /\ mu' = t
  /\ using' = [using EXCEPT ![t] = conn]
  /\ Goto(t, "txn")
  /\ UNCHANGED <<conn, cmdSock, evtSock, latch, done, reader,
                 new, result, fate, crossed>>

Release(t) == mu' = 0 /\ using' = [using EXCEPT ![t] = 0]

\* A response packet with code OK (for OpenSession also SessionAlreadyOpen).
Respond(t) ==
  /\ pc[t] \in {"txn", "retry"} /\ cmdSock[using[t]] = "open"
  /\ Release(t) /\ ReturnOK(t)
  /\ UNCHANGED <<conn, cmdSock, evtSock, latch, done, reader, fate, crossed>>

\* A response packet with an error code: the link stays up.
RespondError(t) ==
  /\ pc[t] \in {"txn", "reopen", "retry"} /\ cmdSock[using[t]] = "open"
  /\ Release(t) /\ ReturnError(t)
  /\ UNCHANGED <<conn, cmdSock, evtSock, latch, done, reader, fate, crossed>>

\* SessionNotOpen: reopen the session and retry once, still holding mu.
\* OpenSession itself is excluded.
SessionNotOpen(t) ==
  /\ pc[t] = "txn" /\ new[t] = 0 /\ cmdSock[using[t]] = "open"
  /\ Goto(t, "reopen")
  /\ UNCHANGED <<conn, mu, cmdSock, evtSock, latch, done, reader, new, using, result, fate, crossed>>

SessionReopened(t) ==
  /\ pc[t] = "reopen" /\ cmdSock[using[t]] = "open"
  /\ Goto(t, "retry")
  /\ UNCHANGED <<conn, mu, cmdSock, evtSock, latch, done, reader, new, using, result, fate, crossed>>

\* Mutant of Drop: the command socket is forgotten, not closed.
DropUnclosed(t) ==
  /\ pc[t] \in {"txn", "reopen", "retry"}
  /\ evtSock' = [evtSock EXCEPT ![conn] = "closed"]
  /\ fate' = [fate EXCEPT ![conn] = "dropped"]
  /\ conn' = 0
  /\ done' = Fired
  /\ Release(t) /\ ReturnError(t)
  /\ UNCHANGED <<cmdSock, latch, reader, crossed>>

\* dropLocked: a read or write failed, a deadline passed, the context was
\* cancelled or a packet did not decode.  Close both sockets, nil the fields,
\* report through the latch, all under mu.
Drop(t) ==
  /\ pc[t] \in {"txn", "reopen", "retry"}
  /\ cmdSock' = [cmdSock EXCEPT ![conn] = "closed"]
  /\ evtSock' = [evtSock EXCEPT ![conn] = "closed"]
  /\ fate' = [fate EXCEPT ![conn] = "dropped"]
  /\ conn' = 0
  /\ done' = Fired
  /\ Release(t) /\ ReturnError(t)
  /\ UNCHANGED <<latch, reader, crossed>>

-----------------------------------------------------------------------------
(* Close: by a caller, or by Connect after OpenSession failed. *)

\* Mutant of CloseTake: Close does not wait for mu.
CloseTakeUnlocked(t) ==
  /\ pc[t] \in {"idle", "close"}
  /\ conn' = 0
  /\ using' = [using EXCEPT ![t] = conn]
  /\ fate' = [g \in Conns |-> IF g = conn THEN "closed" ELSE fate[g]]
  /\ Goto(t, "closing")
  /\ UNCHANGED <<mu, cmdSock, evtSock, latch, done, reader,
                 new, result, crossed>>

\* Under mu: take the connections out of the client.
CloseTake(t) ==
  /\ pc[t] \in {"idle", "close"} /\ mu = 0
  /\ conn' = 0
  /\ using' = [using EXCEPT ![t] = conn]
  /\ fate' = [g \in Conns |-> IF g = conn THEN "closed" ELSE fate[g]]
  /\ Goto(t, "closing")
  /\ UNCHANGED <<mu, cmdSock, evtSock, latch, done, reader,
                 new, result, crossed>>

\* CloseSession on the taken socket, whatever its outcome, then close both.
CloseSockets(t) ==
  /\ pc[t] = "closing"
  /\ cmdSock' = [g \in Conns |-> IF g = using[t] THEN "closed" ELSE cmdSock[g]]
  /\ evtSock' = [g \in Conns |-> IF g = using[t] THEN "closed" ELSE evtSock[g]]
  /\ using' = [using EXCEPT ![t] = 0]
  /\ result' = [g \in Conns |-> IF g = new[t] THEN "error" ELSE result[g]]
  /\ new' = [new EXCEPT ![t] = 0]
  /\ Goto(t, "idle")
  /\ UNCHANGED <<conn, mu, latch, done, reader, fate, crossed>>

-----------------------------------------------------------------------------
(* readEvents of generation g *)

ReadFails(g) ==
  /\ reader[g] = "reading" /\ evtSock[g] \in {"lost", "closed"}
  /\ reader' = [reader EXCEPT ![g] = "failed"]
  /\ UNCHANGED <<conn, mu, cmdSock, evtSock, latch, done, pc,
                 new, using, result, fate, crossed>>

\* Mutant of Deliberate: the test is inverted.
DeliberateInverted(g) ==
  /\ reader[g] = "failed" /\ mu = 0
  /\ reader' = [reader EXCEPT ![g] = IF conn # 0 THEN "ended" ELSE "firing"]
  /\ UNCHANGED <<conn, mu, cmdSock, evtSock, latch, done, pc,
                 new, using, result, fate, crossed>>

\* Under mu: deliberate := c.cmdConn == nil.
Deliberate(g) ==
  /\ reader[g] = "failed" /\ mu = 0
  /\ reader' = [reader EXCEPT ![g] = IF conn = 0 THEN "ended" ELSE "firing"]
  /\ UNCHANGED <<conn, mu, cmdSock, evtSock, latch, done, pc,
                 new, using, result, fate, crossed>>

ReaderFires(g) ==
  /\ reader[g] = "firing"
  /\ done' = Fired
  /\ reader' = [reader EXCEPT ![g] = "ended"]
  /\ UNCHANGED <<conn, mu, cmdSock, evtSock, latch, pc, new,
                 using, result, fate, crossed>>

-----------------------------------------------------------------------------
(* The camera or the network takes a socket down. *)

LoseCmd(g) ==
  /\ cmdSock[g] = "open"
  /\ cmdSock' = [cmdSock EXCEPT ![g] = "lost"]
  /\ UNCHANGED <<conn, mu, evtSock, latch, done, reader, pc,
                 new, using, result, fate, crossed>>

LoseEvt(g) ==
  /\ evtSock[g] = "open"
  /\ evtSock' = [evtSock EXCEPT ![g] = "lost"]
  /\ UNCHANGED <<conn, mu, cmdSock, latch, done, reader, pc,
                 new, using, result, fate, crossed>>

-----------------------------------------------------------------------------
(* A call under way always continues: every socket operation has a deadline. *)
Continue(t) ==
  \/ Install(t) \/ Arm(t) \/ Spawn(t)
  \/ Refuse(t) \/ Begin(t) \/ Respond(t) \/ RespondError(t)
  \/ SessionNotOpen(t) \/ SessionReopened(t) \/ Drop(t)
  \/ (pc[t] = "close" /\ CloseTake(t)) \/ CloseSockets(t)

ReadEvents(g) == ReadFails(g) \/ Deliberate(g) \/ ReaderFires(g)

Next ==
  \/ \E t \in Threads :
       \/ \E g \in Conns : Dial(t, g)
       \/ Call(t) \/ CloseTake(t) \/ Continue(t)
  \/ \E g \in Conns : ReadEvents(g) \/ LoseCmd(g) \/ LoseEvt(g)

Spec == Init /\ [][Next]_vars

FairSpec ==
  /\ Spec
  /\ \A t \in Threads : SF_vars(Continue(t))
  /\ \A g \in Conns : SF_vars(ReadEvents(g))

-----------------------------------------------------------------------------
(* Properties *)

\* A command socket is never read or written by two goroutines at once: the
\* transactions of a live link are serialised by mu, and Close speaks on the
\* socket only after it has taken it out of the client (Transact, Close).
OneUserPerSocket ==
  \A t, u \in Threads : t # u /\ using[t] # 0 => using[t] # using[u]

\* A link that Connect handed over and that a failed transaction then dropped
\* has been reported through its own latch: nothing in the window between
\* installing the sockets and arming the latch loses the report, unless another Connect
\* came between (Connect, dropLocked).
DropReported ==
  \A g \in Conns \ crossed : result[g] = "ok" /\ fate[g] = "dropped" => g \in done

\* Every socket that is not closed is the client's, is in the hands of a call
\* that will install or close it, or was overwritten by a Connect over a link
\* that was still installed (Connect 150-154, Close, dropLocked).
NoLeakedSocket ==
  \A g \in Conns :
    cmdSock[g] \in {"open", "lost"} /\ fate[g] # "replaced" =>
      \/ conn = g
      \/ \E t \in Threads : using[t] = g \/ (pc[t] = "install" /\ new[t] = g)

\* When the event connection of the installed link dies, the application is
\* told or the link leaves the client, without waiting for a user operation, unless another
\* Connect crossed the one that made the link (readEvents 230-241).
LossNoticed ==
  \A g \in Conns :
    evtSock[g] = "lost" /\ conn = g ~> g \in done \/ conn # g \/ g \in crossed

\* What client.go 88-90 says of the disconnect handler: it is called "exactly once per
\* connection the first time the link is observed dead". It would be called for a link only
\* after that link was lost or closed. TLC finds otherwise, with one connector and
\* CloseFirst; no run lists it (readEvents 236-241, fireDisconnect).
ToldOfDeadLinks ==
  \A g \in done : evtSock[g] # "open" \/ cmdSock[g] # "open"
=============================================================================
