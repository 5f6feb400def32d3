---------------------------- MODULE MobileClient ----------------------------
(***************************************************************************)
(* PtpIpClient of the mobile application (lib/ptpip/client.ts) over the    *)
(* TCP plugin (TcpSocketPlugin.kt): connecting, the chain of promises that *)
(* serialises transactions, their timers and answers, and close.           *)
(*                                                                         *)
(* A step is one event of the JavaScript loop with every microtask that    *)
(* follows it: a transaction that settles resumes its caller and starts    *)
(* the next of the chain in the same step.  Every runTransaction has a     *)
(* number, its transactionId; a transaction takes up to three: its first   *)
(* attempt, the reopening of the session, its retry.                       *)
(***************************************************************************)
EXTENDS Naturals, Sequences

CONSTANTS
  Txns,        \* operations of the application
  Writers,     \* those with a data phase to the camera (SetDevicePropValue)
  MaxNotOpen,  \* bound: answers SessionNotOpen
  MaxIds       \* bound: transaction numbers; Txns + 2 * MaxNotOpen + 2 never binds

ASSUME ClientAssumption ==
  /\ Writers \subseteq Txns /\ MaxNotOpen \in Nat /\ MaxIds \in Nat
  /\ \A op \in {"open", "close", "none"} : op \notin Txns

Ops   == Txns \cup {"open", "close"}
Ids   == 1..MaxIds
Socks == {"cmd", "evt"}
Codes == {"ok", "error", "notOpen"}

VARIABLES
  probe,         \* the caller: probeHost, or CameraService.connect
  phase,         \* progress of connect()
  closing,       \* progress of close()
  ids,           \* socket ids the client holds
  listening,     \* sockets whose events are listened to
  attached,      \* CameraService took the client, which a caller may still hold after close
  disconnected,  \* the single shot of fireDisconnect is spent
  sessionOpen,
  queue,         \* transactions behind the running one on txnQueue
  running,       \* the transaction whose run() is in progress
  step,          \* which of its calls of runTransaction
  counter,       \* the last transactionId
  pending,       \* the transactionId of this.pending, 0 for null
  st,            \* what became of each transaction
  sock,          \* the sockets, as the plugin sees them
  write,         \* the writes of each runTransaction
  inbox,         \* requests the camera has received
  air,           \* answers of the camera, data and response, that were not delivered yet
  notOpens,      \* history: number of answers SessionNotOpen
  rejected,      \* history: a call of runTransaction ended in an error
  wrong,         \* history: one was resolved with another one's data or response
  stray          \* history: a write failed after its transaction and took away pending

link   == <<probe, phase, closing, ids, listening, attached>>
txn    == <<queue, running, step, counter, pending, st>>
camera == <<sock, inbox, air, notOpens>>
past   == <<rejected, wrong, stray>>
vars   == <<link, disconnected, sessionOpen, txn, write, camera, past>>

TypeOK ==
  /\ probe \in BOOLEAN /\ attached \in BOOLEAN /\ disconnected \in BOOLEAN
  /\ sessionOpen \in BOOLEAN
  /\ rejected \in BOOLEAN /\ wrong \in BOOLEAN /\ stray \in BOOLEAN
  /\ phase \in {"dial", "init", "dialEvt", "initEvt", "up", "failed"}
  /\ closing \in {"no", "session", "listeners", "sockets", "done"}
  /\ ids \subseteq Socks /\ listening \subseteq Socks
  /\ queue \in Seq(Ops) /\ running \in Ops \cup {"none"}
  /\ step \in {"none", "first", "reopen", "retry"}
  /\ counter \in 0..MaxIds /\ pending \in {0, counter}
  /\ st \in [Ops -> {"idle", "waiting", "answered", "failed"}]
  /\ sock \in [Socks -> {"none", "open", "dead", "gone"}]
  /\ write \in [Ids -> {"none", "only", "first", "rest", "done"}]
  /\ inbox \in Seq(Ids) /\ air \in Seq([id : Ids, code : Codes])
  /\ notOpens \in 0..MaxNotOpen

Init ==
  /\ probe \in BOOLEAN /\ phase = "dial" /\ closing = "no"
  /\ ids = {} /\ listening = {} /\ attached = FALSE
  /\ disconnected = FALSE /\ sessionOpen = FALSE
  /\ queue = <<>> /\ running = "none" /\ step = "none"
  /\ counter = 0 /\ pending = 0
  /\ st = [op \in Ops |-> "idle"]
  /\ sock = [s \in Socks |-> "none"] /\ write = [i \in Ids |-> "none"]
  /\ inbox = <<>> /\ air = <<>> /\ notOpens = 0
  /\ rejected = FALSE /\ wrong = FALSE /\ stray = FALSE

-----------------------------------------------------------------------------
(* runTransaction and the chain.  The operators take what the event has      *)
(* already changed: the writes w, the states s, the queue q.                 *)

(* Mutant of RunTransaction: txnCounter++ for pending, and again for the request. *)
RunTransactionTwice(op, leg, w) ==
  /\ running' = op /\ step' = leg
  /\ counter + 1 < MaxIds /\ counter' = counter + 2 /\ pending' = counter + 1
  /\ write' = [w EXCEPT ![counter + 2] =
                  IF op \in Writers /\ leg # "reopen" THEN "first" ELSE "only"]

RunTransaction(op, leg, w) ==
  /\ running' = op /\ step' = leg
  /\ counter < MaxIds /\ counter' = counter + 1 /\ pending' = counter + 1
  /\ write' = [w EXCEPT ![counter + 1] =
                  IF op \in Writers /\ leg # "reopen" THEN "first" ELSE "only"]

(* The next of the chain; without a command socket all of it is rejected. *)
StartNext(q, s, w) ==
  IF q # <<>> /\ "cmd" \in ids
  THEN RunTransaction(Head(q), "first", w) /\ queue' = Tail(q) /\ st' = s
  ELSE /\ queue' = <<>> /\ running' = "none" /\ step' = "none"
       /\ pending' = 0 /\ write' = w /\ UNCHANGED counter
       /\ st' = [op \in Ops |-> IF \E i \in DOMAIN q : q[i] = op THEN "failed" ELSE s[op]]

(* run() returns: the caller resumes, and the chain goes on.  openSession    *)
(* is followed by the rest of CameraService.connect, CloseSession by close.  *)
Finish(outcome, code, session, w) ==
  /\ StartNext(queue, [st EXCEPT ![running] = outcome], w)
  /\ sessionOpen' = IF running = "close" THEN FALSE
                    ELSE session \/ (running = "open" /\ code = "ok")
  /\ attached' = (attached \/ (running = "open" /\ code = "ok"))
  /\ closing' = IF running = "close" THEN "listeners" ELSE closing
  /\ UNCHANGED <<probe, phase, ids, listening>>

(* Only a first attempt that fails is reported. *)
Reject(w) ==
  /\ rejected' = TRUE
  /\ disconnected' = (disconnected \/ step = "first")
  /\ Finish(IF step = "reopen" THEN "answered" ELSE "failed", "error", sessionOpen, w)
  /\ UNCHANGED wrong

NotOpen(op) == RunTransaction(op, "reopen", write) /\ UNCHANGED <<queue, st>>

(* An answer was heard, so there is a command socket. *)
Resolve(from, code) ==
  /\ wrong' = (wrong \/ from # counter)
  /\ UNCHANGED <<disconnected, rejected>>
  /\ CASE step = "first" /\ code = "notOpen" /\ running \in Txns ->
            /\ sessionOpen' = FALSE /\ NotOpen(running)
            /\ UNCHANGED link
       [] step = "reopen" /\ code = "ok" ->
            /\ sessionOpen' = TRUE /\ RunTransaction(running, "retry", write)
            /\ UNCHANGED <<link, queue, st>>
       [] OTHER -> Finish("answered", code, sessionOpen, write)

(* Mutant of Call: without the chain. *)
CallUnqueued(op) ==
  /\ st[op] = "idle" /\ st' = [st EXCEPT ![op] = "waiting"]
  /\ RunTransaction(op, "first", write)
  /\ UNCHANGED queue

(* transaction() *)
Call(op) ==
  /\ st[op] = "idle"
  /\ LET s == [st EXCEPT ![op] = "waiting"] IN
       IF running = "none" THEN StartNext(<<op>>, s, write)
       ELSE /\ queue' = Append(queue, op) /\ st' = s
            /\ UNCHANGED <<running, step, counter, pending, write>>

-----------------------------------------------------------------------------
(* connect *)

Dial(s, from, to) ==
  /\ phase = from
  /\ \/ /\ phase' = to
        /\ sock' = [sock EXCEPT ![s] = "open"]
        /\ ids' = ids \cup {s} /\ listening' = listening \cup {s}
     \/ phase' = "failed" /\ UNCHANGED <<sock, ids, listening>>
  /\ UNCHANGED <<probe, closing, attached, disconnected, sessionOpen, txn, write,
                 inbox, air, notOpens, past>>

(* InitCommandAck or InitEventAck; an InitFail, a timer, a failed write. *)
Handshake(s, from, to) ==
  /\ phase = from
  /\ phase' \in {to, "failed"} /\ (phase' = to => sock[s] = "open")
  /\ UNCHANGED <<probe, closing, ids, listening, attached, disconnected, sessionOpen,
                 txn, write, camera, past>>

Connect ==
  \/ Dial("cmd", "dial", "init") \/ Handshake("cmd", "init", "dialEvt")
  \/ Dial("evt", "dialEvt", "initEvt") \/ Handshake("evt", "initEvt", "up")

(* The caller goes on: openSession after a connect of CameraService, later   *)
(* the operations of the application.                                        *)
OpenSession ==
  /\ phase = "up" /\ ~probe /\ closing = "no" /\ Call("open")
  /\ UNCHANGED <<link, disconnected, sessionOpen, camera, past>>

Operate(t) ==
  /\ attached /\ Call(t)
  /\ UNCHANGED <<link, disconnected, sessionOpen, camera, past>>

-----------------------------------------------------------------------------
(* close *)

Close ==
  /\ closing = "no"
  /\ IF probe THEN phase \in {"up", "failed"} ELSE attached
  /\ disconnected' = TRUE
  /\ IF sessionOpen
     THEN closing' = "session" /\ Call("close")
     ELSE closing' = "listeners" /\ UNCHANGED <<txn, write>>
  /\ UNCHANGED <<probe, phase, ids, listening, attached, sessionOpen, camera, past>>

RemoveListeners ==
  /\ closing = "listeners" /\ closing' = "sockets" /\ listening' = {}
  /\ UNCHANGED <<probe, phase, ids, attached, disconnected, sessionOpen, txn, write, camera, past>>

CloseSocket(s) ==
  /\ closing = "sockets" /\ s \in ids /\ sock[s] \in {"open", "dead"}
  /\ s = "evt" => sock["cmd"] = "gone"
  /\ sock' = [sock EXCEPT ![s] = "gone"]
  /\ UNCHANGED <<link, disconnected, sessionOpen, txn, write, inbox, air, notOpens, past>>

(* Mutant of Forget: the event socket is left open. *)
ForgetEarly ==
  /\ closing = "sockets" /\ ("cmd" \in ids => sock["cmd"] = "gone")
  /\ closing' = "done" /\ ids' = {}
  /\ UNCHANGED <<probe, phase, listening, attached, disconnected, sessionOpen, txn, write, camera, past>>

Forget ==
  /\ closing = "sockets" /\ \A s \in ids : sock[s] = "gone"
  /\ closing' = "done" /\ ids' = {}
  /\ UNCHANGED <<probe, phase, listening, attached, disconnected, sessionOpen, txn, write, camera, past>>

-----------------------------------------------------------------------------
(* Events *)

Heard(s) == s \in ids /\ s \in listening

(* onCmdData, handlePacket: whatever arrives belongs to pending. *)
Deliver ==
  /\ air # <<>> /\ Heard("cmd") /\ air' = Tail(air)
  /\ LET p == Head(air) IN
       IF pending # 0 THEN Resolve(p.id, p.code)
       ELSE UNCHANGED <<link, disconnected, sessionOpen, txn, write, rejected, wrong>>
  /\ UNCHANGED <<sock, inbox, notOpens, stray>>

(* Mutant of Timeout: the timer clears pending and does not reject. *)
TimeoutSilent ==
  /\ pending # 0 /\ pending' = 0
  /\ UNCHANGED <<link, disconnected, sessionOpen, queue, running, step, counter, st, write, camera, past>>

Timeout ==
  /\ pending # 0 /\ Reject(write)
  /\ UNCHANGED <<camera, stray>>

(* The read loop of the plugin ends with an error, which the client hears,   *)
(* or at the end of the stream, which it does not.  Nothing is written to    *)
(* the event socket after its handshake, so its death is its read's end.     *)
Broken(s) == sock[s] = IF s = "cmd" THEN "dead" ELSE "open"

ReadError(s) ==
  /\ Broken(s) /\ sock' = [sock EXCEPT ![s] = "gone"]
  /\ air' = IF s = "cmd" THEN <<>> ELSE air
  /\ IF ~Heard(s)
     THEN UNCHANGED <<link, disconnected, sessionOpen, txn, write, rejected, wrong>>
     ELSE IF s = "cmd" /\ pending # 0
     THEN /\ rejected' = TRUE /\ disconnected' = TRUE
          /\ Finish(IF step = "reopen" THEN "answered" ELSE "failed", "error", sessionOpen, write)
          /\ UNCHANGED wrong
     ELSE /\ disconnected' = TRUE
          /\ phase' = IF s = "evt" /\ phase = "initEvt" THEN "failed" ELSE phase
          /\ UNCHANGED <<probe, closing, ids, listening, attached, sessionOpen, txn, write,
                         rejected, wrong>>
  /\ UNCHANGED <<inbox, notOpens, stray>>

ReadEnd(s) ==
  /\ Broken(s) /\ (s = "cmd" => air = <<>>)
  /\ sock' = [sock EXCEPT ![s] = "gone"]
  /\ UNCHANGED <<link, disconnected, sessionOpen, txn, write, inbox, air, notOpens, past>>

(* The request reaches the camera; data packets may have to follow. *)
Sent(i) ==
  /\ write[i] \in {"only", "first"} /\ sock["cmd"] = "open"
  /\ inbox' = Append(inbox, i)
  /\ write' = [write EXCEPT ![i] = IF @ = "first" THEN "rest" ELSE "done"]
  /\ UNCHANGED <<link, disconnected, sessionOpen, txn, sock, air, notOpens, past>>

(* A write ends well; on a dead link the operating system may still take it. *)
WriteEnds(i) ==
  /\ \/ write[i] = "rest" /\ sock["cmd"] \in {"open", "dead"}
     \/ write[i] \in {"only", "first"} /\ sock["cmd"] = "dead"
  /\ write' = [write EXCEPT ![i] = "done"]
  /\ UNCHANGED <<link, disconnected, sessionOpen, txn, camera, past>>

(* The catch of the writes: it clears pending, whosever that is. *)
WriteFails(i) ==
  /\ write[i] \in {"only", "first", "rest"} /\ sock["cmd"] \in {"dead", "gone"}
  /\ LET w == [write EXCEPT ![i] = "done"] IN
       IF running # "none" /\ i = counter
       THEN Reject(w) /\ UNCHANGED stray
       ELSE /\ write' = w /\ pending' = 0 /\ stray' = (stray \/ pending # 0)
            /\ UNCHANGED <<link, disconnected, sessionOpen, queue, running, step, counter,
                           st, rejected, wrong>>
  /\ UNCHANGED camera

(* Environment: the camera answers in the order of the requests, and dies. *)
Answer ==
  /\ inbox # <<>> /\ sock["cmd"] = "open" /\ inbox' = Tail(inbox)
  /\ \E code \in {"ok", "error", "notOpen"} :
       /\ code = "notOpen" => notOpens < MaxNotOpen
       /\ notOpens' = IF code = "notOpen" THEN notOpens + 1 ELSE notOpens
       /\ air' = Append(air, [id |-> Head(inbox), code |-> code])
  /\ UNCHANGED <<link, disconnected, sessionOpen, txn, write, sock, past>>

Dies ==
  /\ sock["cmd"] = "open" /\ sock' = [sock EXCEPT !["cmd"] = "dead"] /\ inbox' = <<>>
  /\ UNCHANGED <<link, disconnected, sessionOpen, txn, write, air, notOpens, past>>

-----------------------------------------------------------------------------
CloseSteps == RemoveListeners \/ (\E s \in Socks : CloseSocket(s)) \/ Forget
Writes(i)  == Sent(i) \/ WriteEnds(i) \/ WriteFails(i)

Next ==
  \/ Connect \/ OpenSession \/ (\E t \in Txns : Operate(t))
  \/ Close \/ CloseSteps
  \/ Deliver \/ Timeout \/ Answer \/ Dies
  \/ \E s \in Socks : ReadError(s) \/ ReadEnd(s)
  \/ \E i \in Ids : Writes(i)

Spec == Init /\ [][Next]_vars

(* Timers fire, and calls of the plugin return. *)
FairSpec == Spec /\ WF_vars(Timeout) /\ WF_vars(CloseSteps)

-----------------------------------------------------------------------------
\* A transaction is resolved with its own answer, whatever is timed
\* out, retried, reopened or closed around it, unless an earlier one ended in
\* an error, whose late answer it may then be given (handlePacket 331-364).
OwnAnswer == wrong => rejected

\* Every call settles, since its caller waits in an import, a listing or the
\* chain, and close() ends, for which disconnect waits, although it queues behind
\* them all; but for a failing write of a transaction that has settled before,
\* which disarms the timer of the running one (runTransaction 460-464).
Settles ==
  /\ \A op \in Ops : st[op] = "waiting" ~> st[op] # "waiting" \/ stray
  /\ closing # "no" ~> closing = "done" \/ stray

\* After close() the plugin holds no socket of the client, whatever connect
\* had achieved before it failed, and no answer is delivered any more.
Released ==
  closing = "done" => /\ \A s \in Socks : sock[s] \in {"none", "gone"}
                      /\ ~Heard("cmd") /\ ~Heard("evt")
=============================================================================
