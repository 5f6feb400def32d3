------------------------- MODULE MobileClientProofs -------------------------
(***************************************************************************)
(* Theorems about MobileClient: types, that a transaction gets its own     *)
(* answer as long as none has failed, and that close leaves no socket.     *)
(***************************************************************************)
EXTENDS MobileClient, TLAPS

States == {"idle", "waiting", "answered", "failed"}
WriteStates == {"none", "only", "first", "rest", "done"}
Legs == {"first", "reopen", "retry"}

NoWaits == \A i \in Ids : write[i] \notin {"only", "first"}

(* Before anything has failed there is one number on its way at most, that *)
(* of the running transaction: its request has not left, has reached the   *)
(* camera, or was answered.                                                *)
Quiet    == inbox = <<>> /\ air = <<>> /\ NoWaits
Leaving  == inbox = <<>> /\ air = <<>> /\ \A i \in Ids : write[i] \in {"only", "first"} => i = counter
AtCamera == inbox = <<counter>> /\ air = <<>> /\ NoWaits
Answered == /\ inbox = <<>> /\ NoWaits
            /\ \E code \in Codes : air = <<[id |-> counter, code |-> code]>>
Alone    == ~rejected => Quiet \/ (running # "none" /\ (Leaving \/ AtCamera \/ Answered))

Fresh == \A i \in Ids : i > counter => write[i] = "none"

(* CloseSession is on the chain once, while close() waits for it. *)
NoClose(q) == \A k \in DOMAIN q : q[k] # "close"
CloseOnce ==
  /\ closing # "session" => running # "close" /\ NoClose(queue)
  /\ running = "close" => NoClose(queue)
  /\ \A k, l \in DOMAIN queue : queue[k] = "close" /\ queue[l] = "close" => k = l

(* A socket that the plugin has opened has its id with the client until    *)
(* close is over; close comes after connect and takes the listeners first. *)
Held ==
  /\ closing # "done" => \A s \in Socks : sock[s] # "none" => s \in ids
  /\ closing \in {"sockets", "done"} => listening = {}
  /\ closing # "no" => phase \in {"up", "failed"}

(* Until connect has succeeded there are no transactions. *)
Up == phase # "up" => /\ running = "none" /\ step = "none" /\ queue = <<>> /\ pending = 0
                      /\ ~attached /\ ~sessionOpen

ClientInv == TypeOK /\ Fresh /\ Alone /\ OwnAnswer /\ CloseOnce /\ Held /\ Up /\ Released

-----------------------------------------------------------------------------
\* The types of the variables of the chain.
TxnTypes ==
  /\ queue \in Seq(Ops) /\ running \in Ops \cup {"none"}
  /\ step \in {"none", "first", "reopen", "retry"}
  /\ counter \in 0..MaxIds /\ pending \in {0, counter}
  /\ st \in [Ops -> States]
  /\ write \in [Ids -> WriteStates]

LinkTypes ==
  /\ probe \in BOOLEAN /\ attached \in BOOLEAN
  /\ phase \in {"dial", "init", "dialEvt", "initEvt", "up", "failed"}
  /\ closing \in {"no", "session", "listeners", "sockets", "done"}
  /\ ids \subseteq Socks /\ listening \subseteq Socks

CameraTypes ==
  /\ sock \in [Socks -> {"none", "open", "dead", "gone"}]
  /\ inbox \in Seq(Ids) /\ air \in Seq([id : Ids, code : Codes])
  /\ notOpens \in 0..MaxNotOpen

FlagTypes ==
  /\ disconnected \in BOOLEAN /\ sessionOpen \in BOOLEAN
  /\ rejected \in BOOLEAN /\ wrong \in BOOLEAN /\ stray \in BOOLEAN

LEMMA Types == TypeOK <=> TxnTypes /\ LinkTypes /\ CameraTypes /\ FlagTypes
  BY DEF TypeOK, TxnTypes, LinkTypes, CameraTypes, FlagTypes, States, WriteStates

LEMMA TypesNext == TypeOK' <=> TxnTypes' /\ LinkTypes' /\ CameraTypes' /\ FlagTypes'
  BY DEF TypeOK, TxnTypes, LinkTypes, CameraTypes, FlagTypes, States, WriteStates

\* What a new number changes.
Begun(w) ==
  /\ counter' = counter + 1 /\ counter' \in Ids
  /\ write'[counter'] \in {"only", "first"}
  /\ \A i \in Ids : i # counter' => write'[i] = w[i]

LEMMA RunStep ==
  ASSUME TxnTypes, NEW w \in [Ids -> WriteStates], \A i \in Ids : i > counter => w[i] = "none",
         NEW op, NEW leg, RunTransaction(op, leg, w)
  PROVE  /\ running' = op /\ step' = leg /\ pending' = counter'
         /\ write' \in [Ids -> WriteStates] /\ Begun(w) /\ Fresh'
<1>1. counter + 1 \in Ids /\ counter' = counter + 1
  BY ClientAssumption DEF RunTransaction, TxnTypes, Ids
<1>2. PICK x \in {"only", "first"} : write' = [w EXCEPT ![counter + 1] = x]
  BY DEF RunTransaction
<1>3. write' \in [Ids -> WriteStates] /\ Begun(w)
  BY <1>1, <1>2 DEF Begun, WriteStates
<1>4. Fresh'
  BY <1>1, <1>3, ClientAssumption DEF Fresh, Begun, Ids, TxnTypes
<1>5. QED  BY <1>1, <1>3, <1>4 DEF RunTransaction

\* Starting the next of the chain: nothing, or a new number for its head.
LEMMA StartStep ==
  ASSUME TxnTypes, NEW w \in [Ids -> WriteStates], \A i \in Ids : i > counter => w[i] = "none",
         NEW q \in Seq(Ops), NEW s \in [Ops -> States], StartNext(q, s, w)
  PROVE  /\ TxnTypes' /\ Fresh'
         /\ \/ running' = "none" /\ queue' = <<>> /\ write' = w /\ counter' = counter
            \/ running' = Head(q) /\ queue' = Tail(q) /\ q # <<>> /\ Begun(w)
<1>1. CASE q # <<>> /\ "cmd" \in ids
  <2>1. Head(q) \in Ops /\ Tail(q) \in Seq(Ops)  BY <1>1
  <2>2. RunTransaction(Head(q), "first", w) /\ queue' = Tail(q) /\ st' = s
    BY <1>1 DEF StartNext
  <2>3. /\ running' = Head(q) /\ step' = "first" /\ pending' = counter'
        /\ write' \in [Ids -> WriteStates] /\ Begun(w) /\ Fresh'
    BY <2>2, RunStep
  <2>4. counter' \in 0..MaxIds
    BY <2>3, ClientAssumption DEF Begun, Ids
  <2>5. QED  BY <1>1, <2>1, <2>2, <2>3, <2>4 DEF TxnTypes
<1>2. CASE ~(q # <<>> /\ "cmd" \in ids)
  <2>1. st' \in [Ops -> States]  BY <1>2 DEF StartNext, States
  <2>2. /\ queue' = <<>> /\ running' = "none" /\ step' = "none" /\ pending' = 0
        /\ write' = w /\ counter' = counter
    BY <1>2 DEF StartNext
  <2>3. queue' \in Seq(Ops)  BY <2>2
  <2>4. QED  BY <2>1, <2>2, <2>3 DEF TxnTypes, Fresh
<1>3. QED  BY <1>1, <1>2

LEMMA NoneIsNoOp == "none" \notin Ops  BY ClientAssumption DEF Ops

LEMMA TailKeepsClose ==
  ASSUME NEW q \in Seq(Ops), q # <<>>
  PROVE  /\ NoClose(q) => NoClose(Tail(q)) /\ Head(q) # "close"
         /\ (\A k, l \in DOMAIN q : q[k] = "close" /\ q[l] = "close" => k = l) =>
               /\ Head(q) = "close" => NoClose(Tail(q))
               /\ \A k, l \in DOMAIN Tail(q) : Tail(q)[k] = "close" /\ Tail(q)[l] = "close" => k = l
<1>1. 1 \in DOMAIN q /\ Head(q) = q[1]  OBVIOUS
<1>2. \A k \in DOMAIN Tail(q) : k \in Nat /\ k + 1 \in DOMAIN q /\ k + 1 # 1 /\ Tail(q)[k] = q[k + 1]
  OBVIOUS
<1>3. QED  BY <1>1, <1>2 DEF NoClose

\* The moves that close() and Finish make.
ClosingMoves == closing' = closing \/ (closing = "session" /\ closing' = "listeners")

LEMMA FinishStep ==
  ASSUME TypeOK, Fresh, CloseOnce,
         NEW w \in [Ids -> WriteStates], \A i \in Ids : i > counter => w[i] = "none",
         NEW outcome \in States, NEW code, NEW session \in BOOLEAN,
         Finish(outcome, code, session, w)
  PROVE  /\ TxnTypes' /\ LinkTypes' /\ sessionOpen' \in BOOLEAN /\ Fresh' /\ CloseOnce'
         /\ ClosingMoves /\ UNCHANGED <<phase, ids, listening>>
         /\ \/ running' = "none" /\ write' = w
            \/ running' # "none" /\ Begun(w)
<1>1. TxnTypes /\ LinkTypes  BY Types
<1>2. [st EXCEPT ![running] = outcome] \in [Ops -> States] /\ queue \in Seq(Ops)
  BY <1>1 DEF TxnTypes
<1>3. /\ TxnTypes' /\ Fresh'
      /\ \/ running' = "none" /\ queue' = <<>> /\ write' = w /\ counter' = counter
         \/ running' = Head(queue) /\ queue' = Tail(queue) /\ queue # <<>> /\ Begun(w)
  BY <1>1, <1>2, StartStep DEF Finish
<1>4. ClosingMoves
  BY DEF Finish, ClosingMoves, CloseOnce
<1>5. LinkTypes' /\ sessionOpen' \in BOOLEAN
  BY <1>1 DEF Finish, LinkTypes
<1>6. CloseOnce'
  <2>1. CASE running' = "none" /\ queue' = <<>>
    BY <2>1 DEF CloseOnce, NoClose
  <2>2. CASE running' = Head(queue) /\ queue' = Tail(queue) /\ queue # <<>>
    <3>1. CASE running = "close"
      <4>1. NoClose(queue) /\ closing' = "listeners"  BY <3>1 DEF CloseOnce, Finish
      <4>2. NoClose(queue') /\ running' # "close"  BY <2>2, <4>1, <1>2, TailKeepsClose
      <4>3. QED  BY <4>2 DEF CloseOnce, NoClose
    <3>2. CASE running # "close"
      <4>1. closing' = closing  BY <3>2 DEF Finish
      <4>2. closing # "session" => running' # "close" /\ NoClose(queue')
        BY <2>2, <1>2, TailKeepsClose DEF CloseOnce
      <4>3. running' = "close" => NoClose(queue')
        BY <2>2, <1>2, TailKeepsClose DEF CloseOnce
      <4>4. \A k, l \in DOMAIN queue' : queue'[k] = "close" /\ queue'[l] = "close" => k = l
        BY <2>2, <1>2, TailKeepsClose DEF CloseOnce
      <4>5. QED  BY <4>1, <4>2, <4>3, <4>4 DEF CloseOnce, NoClose
    <3>3. QED  BY <3>1, <3>2
  <2>3. QED  BY <1>3, <2>1, <2>2
<1>7. Head(queue) # "none" \/ queue = <<>>  BY <1>2, NoneIsNoOp
<1>8. QED  BY <1>3, <1>4, <1>5, <1>6, <1>7 DEF Finish

\* A transaction that settles, while the plugin at most removes a socket.
LEMMA CloseMoves ==
  ASSUME Held, Released, UNCHANGED <<phase, ids, listening>>, ClosingMoves,
         \A s \in Socks : sock'[s] = sock[s] \/ (sock[s] # "none" /\ sock'[s] = "gone")
  PROVE  Held' /\ Released'
<1>1. Held'  BY DEF Held, ClosingMoves
<1>2. Released'  BY DEF Released, ClosingMoves, Heard, Socks
<1>3. QED  BY <1>1, <1>2

\* When nothing else is on its way, a new number is alone.
LEMMA Moved ==
  ASSUME TxnTypes, NoWaits, inbox' = <<>>, air' = <<>>,
         write' = write \/ (running' # "none" /\ Begun(write))
  PROVE  Alone'
<1>1. CASE write' = write  BY <1>1 DEF Alone, Quiet, NoWaits
<1>2. CASE running' # "none" /\ Begun(write)
  <2>1. Leaving'  BY <1>2 DEF Leaving, Begun, NoWaits
  <2>2. QED  BY <1>2, <2>1 DEF Alone
<1>3. QED  BY <1>1, <1>2

-----------------------------------------------------------------------------
(* The events, one lemma each. *)

LEMMA RejectKeeps ==
  ASSUME ClientInv, phase = "up",
         NEW w \in [Ids -> WriteStates], \A i \in Ids : i > counter => w[i] = "none",
         rejected' = TRUE, wrong' = wrong, disconnected' \in BOOLEAN, stray' \in BOOLEAN,
         CameraTypes',
         Finish(IF step = "reopen" THEN "answered" ELSE "failed", "error", sessionOpen, w),
         \A s \in Socks : sock'[s] = sock[s] \/ (sock[s] # "none" /\ sock'[s] = "gone")
  PROVE  ClientInv'
<1>1. TypeOK /\ Fresh /\ CloseOnce /\ Held /\ Released  BY DEF ClientInv
<1>2. FlagTypes /\ sessionOpen \in BOOLEAN  BY <1>1, Types DEF FlagTypes
<1>3. (IF step = "reopen" THEN "answered" ELSE "failed") \in States  BY DEF States
<1>4. /\ TxnTypes' /\ LinkTypes' /\ sessionOpen' \in BOOLEAN /\ Fresh' /\ CloseOnce'
      /\ ClosingMoves /\ UNCHANGED <<phase, ids, listening>>
  BY <1>1, <1>2, <1>3, FinishStep
<1>5. Held' /\ Released'  BY <1>1, <1>4, CloseMoves
<1>6. FlagTypes'  BY <1>2, <1>4 DEF FlagTypes
<1>7. TypeOK'  BY <1>4, <1>6, TypesNext
<1>8. Alone' /\ OwnAnswer'  BY DEF Alone, OwnAnswer
<1>9. QED  BY <1>4, <1>5, <1>7, <1>8 DEF ClientInv, Up

LEMMA TimeoutKeeps ==
  ASSUME ClientInv, Timeout
  PROVE  ClientInv'
<1>1. write \in [Ids -> WriteStates] /\ \A i \in Ids : i > counter => write[i] = "none"
  BY Types DEF ClientInv, TxnTypes, Fresh
<1>2. CameraTypes' /\ disconnected' \in BOOLEAN /\ stray' \in BOOLEAN
  BY Types DEF ClientInv, Timeout, Reject, camera, CameraTypes, FlagTypes
<1>3. phase = "up"  BY DEF ClientInv, Up, Timeout
<1>4. QED  BY <1>1, <1>2, <1>3, RejectKeeps DEF Timeout, Reject, camera

LEMMA DeliverKeeps ==
  ASSUME ClientInv, Deliver
  PROVE  ClientInv'
<1>1. /\ TypeOK /\ Fresh /\ CloseOnce /\ Held /\ Released /\ Alone /\ OwnAnswer
      /\ TxnTypes /\ LinkTypes /\ CameraTypes /\ FlagTypes
  BY Types DEF ClientInv
<1>2. /\ air # <<>> /\ air' = Tail(air) /\ UNCHANGED <<sock, inbox, notOpens, stray>>
  BY DEF Deliver
<1>3. CameraTypes'  BY <1>1, <1>2 DEF CameraTypes
<1>4. ~rejected => /\ running # "none" /\ inbox = <<>> /\ air' = <<>> /\ NoWaits
                   /\ Head(air).id = counter
  <2>1. CASE ~rejected
    <3>1. running # "none" /\ Answered
      BY <2>1, <1>1, <1>2 DEF Alone, Quiet, Leaving, AtCamera
    <3>2. PICK code \in Codes : air = <<[id |-> counter, code |-> code]>>
      BY <3>1 DEF Answered
    <3>3. Tail(air) = <<>> /\ Head(air) = [id |-> counter, code |-> code]
      BY <3>2
    <3>4. QED  BY <1>2, <3>1, <3>3 DEF Answered
  <2>2. QED  BY <2>1
<1>5. CASE pending = 0
  <2>1. UNCHANGED <<link, disconnected, sessionOpen, txn, write, rejected, wrong>>
    BY <1>5 DEF Deliver
  <2>2. TypeOK'
    BY <1>1, <1>2, <1>3, <2>1, TypesNext DEF link, txn, TxnTypes, LinkTypes, FlagTypes
  <2>3. Alone'
    BY <1>2, <1>4, <2>1 DEF Alone, Quiet, NoWaits
  <2>4. Fresh' /\ CloseOnce' /\ Held' /\ Up' /\ Released' /\ OwnAnswer'
    BY <1>1, <1>2, <2>1 DEF ClientInv, Fresh, CloseOnce, NoClose, Held, Up, Released, Heard, OwnAnswer, link, txn
  <2>5. QED  BY <2>2, <2>3, <2>4 DEF ClientInv
<1>6. CASE pending # 0
  <2>1. Resolve(Head(air).id, Head(air).code)  BY <1>6 DEF Deliver
  <2>2. /\ wrong' = (wrong \/ Head(air).id # counter)
        /\ disconnected' = disconnected /\ rejected' = rejected
    BY <2>1 DEF Resolve
  <2>3. OwnAnswer'  BY <1>1, <1>4, <2>2 DEF OwnAnswer
  <2>4. write \in [Ids -> WriteStates] /\ \A i \in Ids : i > counter => write[i] = "none"
    BY <1>1 DEF TxnTypes, Fresh
  <2>5. /\ TxnTypes' /\ LinkTypes' /\ sessionOpen' \in BOOLEAN /\ Fresh' /\ CloseOnce'
        /\ ClosingMoves /\ UNCHANGED <<phase, ids, listening>>
        /\ ~rejected => write' = write \/ (running' # "none" /\ Begun(write))
    <3>1. CASE step = "first" /\ Head(air).code = "notOpen" /\ running \in Txns
      <4>1. /\ RunTransaction(running, "reopen", write) /\ UNCHANGED <<queue, st>>
            /\ sessionOpen' = FALSE /\ UNCHANGED link
        BY <2>1, <3>1 DEF Resolve, NotOpen
      <4>2. /\ running' = running /\ step' = "reopen" /\ pending' = counter'
            /\ write' \in [Ids -> WriteStates] /\ Begun(write) /\ Fresh'
        BY <1>1, <2>4, <4>1, RunStep
      <4>3. running # "none" /\ counter' \in 0..MaxIds
        BY <3>1, <4>2, ClientAssumption DEF Begun, Ids
      <4>4. TxnTypes' /\ LinkTypes'
        BY <1>1, <4>1, <4>2, <4>3 DEF TxnTypes, LinkTypes, link
      <4>5. CloseOnce' /\ ClosingMoves
        BY <1>1, <4>1, <4>2 DEF CloseOnce, NoClose, ClosingMoves, link
      <4>6. QED  BY <4>1, <4>2, <4>3, <4>4, <4>5 DEF link
    <3>2. CASE step = "reopen" /\ Head(air).code = "ok"
      <4>1. /\ RunTransaction(running, "retry", write) /\ UNCHANGED <<queue, st>>
            /\ sessionOpen' = TRUE /\ UNCHANGED link
        BY <2>1, <3>2 DEF Resolve
      <4>2. /\ running' = running /\ step' = "retry" /\ pending' = counter'
            /\ write' \in [Ids -> WriteStates] /\ Begun(write) /\ Fresh'
        BY <1>1, <2>4, <4>1, RunStep
      <4>3. counter' \in 0..MaxIds
        BY <4>2, ClientAssumption DEF Begun, Ids
      <4>4. TxnTypes' /\ LinkTypes'
        BY <1>1, <4>1, <4>2, <4>3 DEF TxnTypes, LinkTypes, link
      <4>5. CloseOnce' /\ ClosingMoves
        BY <1>1, <4>1, <4>2 DEF CloseOnce, NoClose, ClosingMoves, link
      <4>6. QED  BY <1>4, <4>1, <4>2, <4>4, <4>5 DEF link
    <3>3. CASE /\ ~(step = "first" /\ Head(air).code = "notOpen" /\ running \in Txns)
               /\ ~(step = "reopen" /\ Head(air).code = "ok")
      <4>1. Finish("answered", Head(air).code, sessionOpen, write)
        BY <2>1, <3>3 DEF Resolve
      <4>2. "answered" \in States /\ sessionOpen \in BOOLEAN
        BY <1>1 DEF States, FlagTypes
      <4>3. QED  BY <1>1, <2>4, <4>1, <4>2, FinishStep
    <3>4. QED  BY <3>1, <3>2, <3>3
  <2>6. FlagTypes'
    BY <1>1, <1>2, <2>2, <2>5 DEF FlagTypes
  <2>7. TypeOK'  BY <1>3, <2>5, <2>6, TypesNext
  <2>8. Held' /\ Released'  BY <1>1, <1>2, <2>5, CloseMoves
  <2>9. Alone'
    <3>1. CASE rejected  BY <3>1, <2>2 DEF Alone
    <3>2. CASE ~rejected  BY <3>2, <1>1, <1>2, <1>4, <2>5, Moved
    <3>3. QED  BY <3>1, <3>2
  <2>10. Up'  BY <1>6, <2>5 DEF ClientInv, Up
  <2>11. QED  BY <2>3, <2>5, <2>7, <2>8, <2>9, <2>10 DEF ClientInv
<1>7. QED  BY <1>5, <1>6

LEMMA CallStep ==
  ASSUME ClientInv, NEW op \in Ops, Call(op)
  PROVE  /\ TxnTypes' /\ Fresh'
         /\ \/ UNCHANGED <<running, counter, write>> /\ queue' = Append(queue, op)
            \/ /\ running = "none" /\ queue' = <<>>
               /\ \/ running' = "none" /\ write' = write
                  \/ running' = op /\ Begun(write)
<1>1. /\ TxnTypes /\ Fresh /\ write \in [Ids -> WriteStates]
      /\ \A i \in Ids : i > counter => write[i] = "none"
  BY Types DEF ClientInv, TxnTypes, Fresh
<1>2. [st EXCEPT ![op] = "waiting"] \in [Ops -> States]
  BY <1>1 DEF TxnTypes, States
<1>3. CASE running = "none"
  <2>1. StartNext(<<op>>, [st EXCEPT ![op] = "waiting"], write)  BY <1>3 DEF Call
  <2>2. <<op>> \in Seq(Ops) /\ Head(<<op>>) = op /\ Tail(<<op>>) = <<>>  OBVIOUS
  <2>3. /\ TxnTypes' /\ Fresh'
        /\ \/ running' = "none" /\ queue' = <<>> /\ write' = write /\ counter' = counter
           \/ /\ running' = Head(<<op>>) /\ queue' = Tail(<<op>>) /\ <<op>> # <<>>
              /\ Begun(write)
    BY <1>1, <1>2, <2>1, <2>2, StartStep
  <2>4. QED  BY <1>3, <2>2, <2>3
<1>4. CASE running # "none"
  BY <1>1, <1>2, <1>4 DEF Call, TxnTypes, Fresh
<1>5. QED  BY <1>3, <1>4

\* A call leaves at most one number on its way.
LEMMA CallAlone ==
  ASSUME ClientInv, NEW op \in Ops, Call(op), UNCHANGED <<camera, past>>
  PROVE  Alone'
<1>1. TxnTypes /\ Alone  BY Types DEF ClientInv
<1>2. CASE rejected  BY <1>2 DEF Alone, past
<1>3. CASE ~rejected /\ UNCHANGED <<running, counter, write>>
  BY <1>1, <1>3 DEF Alone, Quiet, Leaving, AtCamera, Answered, NoWaits, camera, past
<1>4. CASE ~rejected /\ running = "none" /\ (write' = write \/ (running' = op /\ Begun(write)))
  <2>1. Quiet  BY <1>1, <1>4 DEF Alone
  <2>2. op # "none"  BY NoneIsNoOp
  <2>3. QED  BY <1>1, <1>4, <2>1, <2>2, Moved DEF Quiet, camera
<1>5. QED  BY <1>2, <1>3, <1>4, CallStep

LEMMA CallKeeps ==
  ASSUME ClientInv, phase = "up", NEW op \in Ops, op # "close", Call(op),
         UNCHANGED <<link, disconnected, sessionOpen, camera, past>>
  PROVE  ClientInv'
<1>1. /\ TypeOK /\ CloseOnce /\ Held /\ Released /\ OwnAnswer
      /\ TxnTypes /\ LinkTypes /\ CameraTypes /\ FlagTypes
  BY Types DEF ClientInv
<1>2. LinkTypes' /\ CameraTypes' /\ FlagTypes'
  BY <1>1 DEF LinkTypes, CameraTypes, FlagTypes, link, camera, past
<1>3. TypeOK' /\ Fresh' /\ Alone'  BY <1>2, CallStep, CallAlone, TypesNext
<1>4. CloseOnce'
  <2>1. CASE UNCHANGED <<running, counter, write>> /\ queue' = Append(queue, op)
    <3>1. \A k \in DOMAIN queue' : queue'[k] = op \/ (k \in DOMAIN queue /\ queue'[k] = queue[k])
      BY <2>1, <1>1 DEF TxnTypes
    <3>2. QED  BY <2>1, <3>1, <1>1 DEF CloseOnce, NoClose, link
  <2>2. CASE queue' = <<>> /\ (running' = "none" \/ running' = op)
    BY <2>2 DEF CloseOnce, NoClose, link
  <2>3. QED  BY <2>1, <2>2, CallStep
<1>5. Held' /\ Up' /\ Released' /\ OwnAnswer'
  BY <1>1 DEF Held, Up, Released, Heard, OwnAnswer, link, camera, past
<1>6. QED  BY <1>3, <1>4, <1>5 DEF ClientInv

LEMMA CloseKeeps ==
  ASSUME ClientInv, Close
  PROVE  ClientInv'
<1>1. /\ TypeOK /\ CloseOnce /\ Held /\ Released /\ OwnAnswer /\ Fresh /\ Alone
      /\ TxnTypes /\ LinkTypes /\ CameraTypes /\ FlagTypes
  BY Types DEF ClientInv
<1>2. /\ closing = "no" /\ disconnected' = TRUE /\ closing' \in {"session", "listeners"}
      /\ UNCHANGED <<probe, phase, ids, listening, attached, sessionOpen, camera, past>>
  BY DEF Close
<1>3. LinkTypes' /\ CameraTypes' /\ FlagTypes'
  BY <1>1, <1>2 DEF LinkTypes, CameraTypes, FlagTypes, camera, past
<1>4. phase \in {"up", "failed"}  BY DEF ClientInv, Close, Up
<1>5. Held' /\ Released' /\ OwnAnswer'
  BY <1>1, <1>2, <1>4 DEF Held, Released, OwnAnswer, camera, past
<1>6. CASE sessionOpen
  <2>1. closing' = "session" /\ Call("close") /\ "close" \in Ops  BY <1>6 DEF Close, Ops
  <2>2. TypeOK' /\ Fresh' /\ Alone'
    BY <1>2, <1>3, <2>1, CallStep, CallAlone, TypesNext
  <2>3. Up'  BY <1>2, <1>6 DEF ClientInv, Up
  <2>4. CloseOnce'
    <3>1. running # "close" /\ NoClose(queue)  BY <1>1, <1>2 DEF CloseOnce
    <3>2. CASE UNCHANGED <<running, counter, write>> /\ queue' = Append(queue, "close")
      <4>1. \A k \in DOMAIN queue' : k = Len(queue) + 1 \/ (k \in DOMAIN queue /\ queue'[k] = queue[k])
        BY <3>2, <1>1 DEF TxnTypes
      <4>2. QED  BY <2>1, <3>1, <3>2, <4>1 DEF CloseOnce, NoClose
    <3>3. CASE queue' = <<>>
      BY <2>1, <3>3 DEF CloseOnce, NoClose
    <3>4. QED  BY <2>1, <3>2, <3>3, CallStep
  <2>5. QED  BY <1>5, <2>2, <2>3, <2>4 DEF ClientInv
<1>7. CASE ~sessionOpen
  <2>1. closing' = "listeners" /\ UNCHANGED <<txn, write>>  BY <1>7 DEF Close
  <2>2. TypeOK'  BY <1>1, <1>3, <2>1, TypesNext DEF TxnTypes, txn
  <2>3. Fresh' /\ Alone' /\ CloseOnce' /\ Up'
    BY <1>1, <1>2, <2>1 DEF ClientInv, Fresh, Alone, Quiet, Leaving, AtCamera, Answered, NoWaits,
                            CloseOnce, NoClose, Up, txn, camera, past
  <2>4. QED  BY <1>5, <2>2, <2>3 DEF ClientInv
<1>8. QED  BY <1>6, <1>7

\* The steps of connect and close leave the chain alone.
LinkSteps == \/ Connect \/ CloseSteps \/ \E s \in Socks : ReadEnd(s)

LEMMA LinkKeeps ==
  ASSUME ClientInv, LinkSteps
  PROVE  ClientInv'
<1>1. /\ TypeOK /\ CloseOnce /\ Held /\ Released /\ OwnAnswer /\ Fresh /\ Alone /\ Up
      /\ TxnTypes /\ LinkTypes /\ CameraTypes /\ FlagTypes
  BY Types DEF ClientInv
<1>2. UNCHANGED <<probe, attached, disconnected, sessionOpen, txn, write, inbox, air, notOpens, past>>
  BY DEF LinkSteps, Connect, Dial, Handshake, CloseSteps, RemoveListeners, CloseSocket, Forget,
         ReadEnd, link, camera
<1>3. LinkTypes' /\ CameraTypes'
  BY <1>1, <1>2 DEF LinkTypes, CameraTypes, Socks, LinkSteps, Connect, Dial, Handshake, CloseSteps,
         RemoveListeners, CloseSocket, Forget, ReadEnd, link, camera
<1>4. TypeOK'
  BY <1>1, <1>2, <1>3, TypesNext DEF TxnTypes, FlagTypes, txn, past
<1>5. Fresh' /\ Alone' /\ OwnAnswer'
  BY <1>1, <1>2 DEF Fresh, Alone, Quiet, Leaving, AtCamera, Answered, NoWaits, OwnAnswer, txn, past
<1>6. CloseOnce' /\ Held' /\ Up' /\ Released'
  <2>1. CASE Connect
    <3>1. closing = "no" /\ closing' = closing /\ phase # "up"
      BY <2>1, <1>1 DEF Connect, Dial, Handshake, Held
    <3>2. \A s \in Socks : sock'[s] # "none" => s \in ids'
      <4>1. CASE UNCHANGED <<sock, ids>>  BY <4>1, <3>1, <1>1 DEF Held
      <4>2. CASE \E s \in Socks : sock' = [sock EXCEPT ![s] = "open"] /\ ids' = ids \cup {s}
        BY <4>2, <3>1, <1>1 DEF Held, CameraTypes
      <4>3. QED  BY <2>1, <4>1, <4>2 DEF Connect, Dial, Handshake, camera, Socks
    <3>3. Held' /\ Released'  BY <3>1, <3>2 DEF Held, Released
    <3>4. CloseOnce' /\ Up'
      BY <1>1, <1>2, <3>1 DEF CloseOnce, NoClose, Up, txn
    <3>5. QED  BY <3>3, <3>4
  <2>2. CASE RemoveListeners
    BY <2>2, <1>1, <1>2 DEF RemoveListeners, CloseOnce, NoClose, Held, Up, Released, txn, camera
  <2>3. CASE \E s \in Socks : CloseSocket(s) \/ ReadEnd(s)
    BY <2>3, <1>1, <1>2 DEF CloseSocket, ReadEnd, Broken, CloseOnce, NoClose, Held, Up, Released,
                            Heard, CameraTypes, Socks, link, txn
  <2>4. CASE Forget
    BY <2>4, <1>1, <1>2 DEF Forget, CloseOnce, NoClose, Held, Up, Released, Heard, CameraTypes,
                            Socks, txn, camera
  <2>5. QED  BY <2>1, <2>2, <2>3, <2>4 DEF LinkSteps, CloseSteps
<1>7. QED  BY <1>4, <1>5, <1>6 DEF ClientInv

LEMMA ReadErrorKeeps ==
  ASSUME ClientInv, NEW s \in Socks, ReadError(s)
  PROVE  ClientInv'
<1>1. /\ TypeOK /\ CloseOnce /\ Held /\ Released /\ OwnAnswer /\ Fresh /\ Alone /\ Up
      /\ TxnTypes /\ LinkTypes /\ CameraTypes /\ FlagTypes
  BY Types DEF ClientInv
<1>2. /\ sock' = [sock EXCEPT ![s] = "gone"] /\ sock[s] # "none" /\ air' \in {<<>>, air}
      /\ UNCHANGED <<inbox, notOpens, stray>>
  BY DEF ReadError, Broken
<1>3. CameraTypes'
  <2>1. air' \in Seq([id : Ids, code : Codes])
    <3>1. CASE air' = air  BY <3>1, <1>1 DEF CameraTypes
    <3>2. CASE air' = <<>>  BY <3>2
    <3>3. QED  BY <1>2, <3>1, <3>2
  <2>2. sock' \in [Socks -> {"none", "open", "dead", "gone"}]  BY <1>1, <1>2 DEF CameraTypes
  <2>3. QED  BY <1>1, <1>2, <2>1, <2>2 DEF CameraTypes
<1>4. \A r \in Socks : sock'[r] = sock[r] \/ (sock[r] # "none" /\ sock'[r] = "gone")
  BY <1>1, <1>2 DEF CameraTypes
<1>5. CASE Heard(s) /\ s = "cmd" /\ pending # 0
  <2>1. write \in [Ids -> WriteStates] /\ \A i \in Ids : i > counter => write[i] = "none"
    BY <1>1 DEF TxnTypes, Fresh
  <2>2. /\ rejected' = TRUE /\ wrong' = wrong /\ disconnected' = TRUE /\ stray' \in BOOLEAN
        /\ Finish(IF step = "reopen" THEN "answered" ELSE "failed", "error", sessionOpen, write)
    BY <1>1, <1>5 DEF ReadError, FlagTypes
  <2>3. phase = "up"  BY <1>1, <1>5 DEF Up
  <2>4. QED  BY <1>3, <1>4, <2>1, <2>2, <2>3, RejectKeeps
<1>6. CASE ~(Heard(s) /\ s = "cmd" /\ pending # 0)
  <2>1. /\ UNCHANGED <<probe, closing, ids, listening, attached, sessionOpen, txn, write,
                       rejected, wrong>>
        /\ disconnected' \in {disconnected, TRUE}
        /\ phase' = phase \/ (phase = "initEvt" /\ phase' = "failed")
    BY <1>6 DEF ReadError, link
  <2>2. TypeOK'
    BY <1>1, <1>2, <1>3, <2>1, TypesNext DEF TxnTypes, LinkTypes, FlagTypes, txn
  <2>3. Fresh' /\ Alone' /\ OwnAnswer' /\ CloseOnce' /\ Up'
    BY <1>1, <1>2, <2>1 DEF Fresh, Alone, Quiet, Leaving, AtCamera, Answered, NoWaits, OwnAnswer,
                            CloseOnce, NoClose, Up, txn
  <2>4. Held'
    BY <1>1, <1>4, <2>1 DEF Held
  <2>5. Released'
    BY <1>1, <1>4, <2>1 DEF Released, Heard
  <2>6. QED  BY <2>2, <2>3, <2>4, <2>5 DEF ClientInv
<1>7. QED  BY <1>5, <1>6

LEMMA WriteFailsKeeps ==
  ASSUME ClientInv, NEW i \in Ids, WriteFails(i)
  PROVE  ClientInv'
<1>1. /\ TypeOK /\ CloseOnce /\ Held /\ Released /\ OwnAnswer /\ Fresh /\ Alone /\ Up
      /\ TxnTypes /\ LinkTypes /\ CameraTypes /\ FlagTypes
  BY Types DEF ClientInv
<1>2. PICK w : w = [write EXCEPT ![i] = "done"]  OBVIOUS
<1>3. /\ w \in [Ids -> WriteStates] /\ w[i] = "done"
      /\ \A j \in Ids : j # i => w[j] = write[j]
  BY <1>1, <1>2 DEF TxnTypes, WriteStates
<1>4. \A j \in Ids : j > counter => w[j] = "none"
  BY <1>1, <1>3 DEF WriteFails, Fresh
<1>5. CameraTypes' /\ UNCHANGED camera
  BY <1>1 DEF WriteFails, CameraTypes, camera
<1>6. CASE running # "none" /\ i = counter
  <2>1. Reject(w) /\ UNCHANGED stray  BY <1>2, <1>6 DEF WriteFails
  <2>2. phase = "up"  BY <1>1, <1>6 DEF Up
  <2>3. disconnected' \in BOOLEAN /\ stray' \in BOOLEAN
    BY <1>1, <2>1 DEF Reject, FlagTypes
  <2>4. QED  BY <1>3, <1>4, <1>5, <2>1, <2>2, <2>3, RejectKeeps DEF Reject, camera
<1>7. CASE ~(running # "none" /\ i = counter)
  <2>1. /\ write' = w /\ pending' = 0 /\ stray' = (stray \/ pending # 0)
        /\ UNCHANGED <<link, disconnected, sessionOpen, queue, running, step, counter, st,
                       rejected, wrong>>
    BY <1>2, <1>7 DEF WriteFails
  <2>2. TypeOK'
    BY <1>1, <1>3, <1>5, <2>1, TypesNext DEF TxnTypes, LinkTypes, FlagTypes, link
  <2>3. Fresh' /\ OwnAnswer' /\ CloseOnce' /\ Up' /\ Held' /\ Released'
    BY <1>1, <1>4, <1>5, <2>1 DEF Fresh, OwnAnswer, CloseOnce, NoClose, Up, Held, Released, Heard,
                                  link, camera
  <2>4. Alone'
    BY <1>1, <1>3, <1>5, <2>1 DEF Alone, Quiet, Leaving, AtCamera, Answered, NoWaits, camera
  <2>5. QED  BY <2>2, <2>3, <2>4 DEF ClientInv
<1>8. QED  BY <1>6, <1>7

\* The request and its answer on their way, and the death of the camera.
LEMMA FlightKeeps ==
  ASSUME ClientInv, Answer \/ Dies \/ \E i \in Ids : Sent(i) \/ WriteEnds(i)
  PROVE  ClientInv'
<1>1. /\ TypeOK /\ CloseOnce /\ Held /\ Released /\ OwnAnswer /\ Fresh /\ Alone /\ Up
      /\ TxnTypes /\ LinkTypes /\ CameraTypes /\ FlagTypes
  BY Types DEF ClientInv
<1>2. UNCHANGED <<link, disconnected, sessionOpen, txn, past>>
  BY DEF Answer, Dies, Sent, WriteEnds
<1>3. write' \in [Ids -> WriteStates] /\ Fresh'
  <2>1. CASE UNCHANGED write  BY <2>1, <1>1, <1>2 DEF TxnTypes, Fresh, txn
  <2>2. CASE \E i \in Ids : Sent(i) \/ WriteEnds(i)
    BY <2>2, <1>1, <1>2 DEF Sent, WriteEnds, TxnTypes, WriteStates, Fresh, txn
  <2>3. QED  BY <2>1, <2>2 DEF Answer, Dies
<1>4. CameraTypes'
  <2>1. CASE Answer
    <3>1. Head(inbox) \in Ids /\ Tail(inbox) \in Seq(Ids)  BY <2>1, <1>1 DEF Answer, CameraTypes
    <3>2. PICK code \in {"ok", "error", "notOpen"} :
            /\ code = "notOpen" => notOpens < MaxNotOpen
            /\ notOpens' = IF code = "notOpen" THEN notOpens + 1 ELSE notOpens
            /\ air' = Append(air, [id |-> Head(inbox), code |-> code])
      BY <2>1 DEF Answer
    <3>3. [id |-> Head(inbox), code |-> code] \in [id : Ids, code : Codes]
      BY <3>1 DEF Codes
    <3>4. notOpens' \in 0..MaxNotOpen
      BY <3>2, <1>1, ClientAssumption DEF CameraTypes
    <3>5. QED  BY <2>1, <1>1, <3>1, <3>2, <3>3, <3>4 DEF Answer, CameraTypes
  <2>2. CASE Dies
    <3>1. inbox' = <<>> /\ sock' = [sock EXCEPT !["cmd"] = "dead"] /\ UNCHANGED <<air, notOpens>>
      BY <2>2 DEF Dies
    <3>2. inbox' \in Seq(Ids)  BY <3>1
    <3>3. QED  BY <1>1, <3>1, <3>2 DEF CameraTypes
  <2>3. CASE \E i \in Ids : Sent(i) \/ WriteEnds(i)
    <3>1. inbox' = inbox \/ \E i \in Ids : inbox' = Append(inbox, i)
      BY <2>3 DEF Sent, WriteEnds, camera
    <3>2. inbox' \in Seq(Ids)  BY <3>1, <1>1 DEF CameraTypes
    <3>3. UNCHANGED <<sock, air, notOpens>>  BY <2>3 DEF Sent, WriteEnds, camera
    <3>4. QED  BY <1>1, <3>2, <3>3 DEF CameraTypes
  <2>4. QED  BY <2>1, <2>2, <2>3
<1>5. TypeOK'
  BY <1>1, <1>2, <1>3, <1>4, TypesNext DEF TxnTypes, LinkTypes, FlagTypes, link, txn, past
<1>6. CloseOnce' /\ Up' /\ OwnAnswer'
  BY <1>1, <1>2 DEF CloseOnce, NoClose, Up, OwnAnswer, link, txn, past
<1>7. Held' /\ Released'
  <2>1. CASE UNCHANGED sock
    BY <2>1, <1>1, <1>2 DEF Held, Released, Heard, link
  <2>2. CASE Dies
    <3>1. sock["cmd"] = "open" /\ sock' = [sock EXCEPT !["cmd"] = "dead"] /\ "cmd" \in Socks
      BY <2>2 DEF Dies, Socks
    <3>2. closing # "done"  BY <1>1, <3>1 DEF Released
    <3>3. QED  BY <1>1, <1>2, <3>1, <3>2 DEF Held, Released, CameraTypes, link
  <2>3. QED  BY <2>1, <2>2 DEF Answer, Sent, WriteEnds, camera
<1>8. Alone'
  <2>1. CASE rejected  BY <2>1, <1>2 DEF Alone, past
  <2>2. CASE ~rejected /\ Answer
    <3>1. running # "none" /\ AtCamera
      BY <2>2, <1>1 DEF Alone, Quiet, Leaving, Answered, Answer
    <3>2. PICK code \in Codes : air' = Append(air, [id |-> Head(inbox), code |-> code])
      BY <2>2 DEF Answer, Codes
    <3>3. inbox' = Tail(inbox) /\ write' = write  BY <2>2 DEF Answer
    <3>4. Head(inbox) = counter /\ inbox' = <<>>  BY <3>1, <3>3 DEF AtCamera
    <3>5. air' = <<[id |-> counter, code |-> code]>>
      BY <3>1, <3>2, <3>4 DEF AtCamera
    <3>6. Answered' /\ running' # "none"
      BY <1>2, <3>1, <3>3, <3>4, <3>5 DEF Answered, AtCamera, NoWaits, txn
    <3>7. QED  BY <3>6 DEF Alone
  <2>3. CASE ~rejected /\ Dies
    BY <2>3, <1>1, <1>2 DEF Dies, Alone, Quiet, Leaving, AtCamera, Answered, NoWaits, txn, past
  <2>4. ASSUME NEW i \in Ids, Sent(i), ~rejected  PROVE Alone'
    <3>1. running # "none" /\ Leaving /\ i = counter
      BY <2>4, <1>1 DEF Alone, Quiet, AtCamera, Answered, NoWaits, Leaving, Sent
    <3>2. inbox' = <<counter>> /\ air' = <<>>
      BY <2>4, <3>1 DEF Sent, Leaving
    <3>3. NoWaits'
      BY <2>4, <3>1, <1>1 DEF Sent, Leaving, NoWaits, TxnTypes
    <3>4. QED  BY <1>2, <3>1, <3>2, <3>3 DEF Alone, AtCamera, txn
  <2>5. ASSUME NEW i \in Ids, WriteEnds(i), ~rejected  PROVE Alone'
    BY <2>5, <1>1, <1>2 DEF WriteEnds, Alone, Quiet, Leaving, AtCamera, Answered, NoWaits, TxnTypes,
                            txn, past, camera
  <2>6. QED  BY <2>1, <2>2, <2>3, <2>4, <2>5
<1>9. QED  BY <1>3, <1>5, <1>6, <1>7, <1>8 DEF ClientInv

-----------------------------------------------------------------------------
LEMMA InitClient == Init => ClientInv
<1> SUFFICES ASSUME Init PROVE ClientInv
  OBVIOUS
<1>1. TypeOK
  <2>1. queue \in Seq(Ops) /\ inbox \in Seq(Ids) /\ air \in Seq([id : Ids, code : Codes])
    <3>1. queue = <<>> /\ inbox = <<>> /\ air = <<>>  BY DEF Init
    <3>2. QED  BY <3>1
  <2>2. counter \in 0..MaxIds /\ notOpens \in 0..MaxNotOpen /\ pending \in {0, counter}
    BY ClientAssumption DEF Init
  <2>3. /\ st \in [Ops -> {"idle", "waiting", "answered", "failed"}]
        /\ sock \in [Socks -> {"none", "open", "dead", "gone"}]
        /\ write \in [Ids -> {"none", "only", "first", "rest", "done"}]
    BY DEF Init
  <2>4. QED  BY <2>1, <2>2, <2>3 DEF Init, TypeOK
<1>2. Fresh /\ Alone  BY DEF Init, Fresh, Alone, Quiet, NoWaits
<1>3. CloseOnce /\ Held /\ Up  BY DEF Init, CloseOnce, NoClose, Held, Up, Socks
<1>4. OwnAnswer /\ Released  BY DEF Init, OwnAnswer, Released
<1>5. QED  BY <1>1, <1>2, <1>3, <1>4 DEF ClientInv

LEMMA ClientStep == ClientInv /\ [Next]_vars => ClientInv'
<1> SUFFICES ASSUME ClientInv, [Next]_vars PROVE ClientInv'
  OBVIOUS
<1>1. CASE UNCHANGED vars
  BY <1>1 DEF vars, link, txn, camera, past, ClientInv, TypeOK, Fresh, Alone, Quiet, Leaving, AtCamera,
     Answered, NoWaits, OwnAnswer, CloseOnce, NoClose, Held, Up, Released, Heard
<1>2. CASE OpenSession
  <2>1. "open" \in Ops  BY DEF Ops
  <2>2. QED  BY <1>2, <2>1, CallKeeps DEF OpenSession
<1>3. ASSUME NEW t \in Txns, Operate(t) PROVE ClientInv'
  <2>1. t \in Ops /\ t # "close"  BY ClientAssumption DEF Ops
  <2>2. phase = "up"  BY <1>3 DEF ClientInv, Up, Operate
  <2>3. QED  BY <1>3, <2>1, <2>2, CallKeeps DEF Operate
<1>4. CASE Connect \/ CloseSteps \/ \E s \in Socks : ReadEnd(s)
  BY <1>4, LinkKeeps DEF LinkSteps
<1>5. CASE Close  BY <1>5, CloseKeeps
<1>6. CASE Deliver \/ Timeout  BY <1>6, DeliverKeeps, TimeoutKeeps
<1>7. CASE \E s \in Socks : ReadError(s)  BY <1>7, ReadErrorKeeps
<1>8. CASE \E i \in Ids : WriteFails(i)  BY <1>8, WriteFailsKeeps
<1>9. CASE Answer \/ Dies \/ \E i \in Ids : Sent(i) \/ WriteEnds(i)  BY <1>9, FlightKeeps
<1>10. QED
  BY <1>1, <1>2, <1>3, <1>4, <1>5, <1>6, <1>7, <1>8, <1>9 DEF Next, Writes

\* The variables keep their types, for any operations and bounds.
THEOREM ClientTypes == Spec => []TypeOK
<1>1. ClientInv => TypeOK  BY DEF ClientInv
<1>2. QED  BY <1>1, InitClient, ClientStep, PTL DEF Spec

\* As long as no transaction has failed, each is resolved with its own answer,
\* although handlePacket does not look at the number in the response.
THEOREM AnswersAreOwn == Spec => []OwnAnswer
<1>1. ClientInv => OwnAnswer  BY DEF ClientInv
<1>2. QED  BY <1>1, InitClient, ClientStep, PTL DEF Spec

\* close() leaves no socket with the plugin and no listener, wherever connect
\* stopped and whatever was under way.
THEOREM CloseReleases == Spec => []Released
<1>1. ClientInv => Released  BY DEF ClientInv
<1>2. QED  BY <1>1, InitClient, ClientStep, PTL DEF Spec
=============================================================================
