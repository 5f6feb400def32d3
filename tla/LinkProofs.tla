----------------------------- MODULE LinkProofs ----------------------------
(***************************************************************************)
(* Proofs about the camera link of the terminal program: PtpClient, for any*)
(* number of goroutines, of which any number may call Connect at any time, *)
(* and any number of links; Lifecycle, for any number of losses and of     *)
(* keep-alive goroutines: the reconnecting badge of the browser never lies,*)
(* although several reconnect goroutines may be at work at once.           *)
(*                                                                         *)
(* The modules share no variable; each theorem is about one of them.       *)
(***************************************************************************)
EXTENDS PtpClient, Lifecycle, TLAPS

-----------------------------------------------------------------------------
(* PtpClient *)

InTransaction == {"txn", "reopen", "retry"}

\* The mutex is held exactly by the goroutine inside a transaction, and that
\* goroutine speaks on the command connection of the client.
Locking ==
  /\ \A t \in Threads : pc[t] \in InTransaction <=> mu = t
  /\ \A t \in Threads : mu = t => conn # 0 /\ using[t] = conn
  /\ \A t \in Threads : using[t] # 0 => mu = t \/ pc[t] = "closing"

\* A goroutine in Close speaks on a connection nobody else can reach.
Taken == \A t \in Threads : pc[t] = "closing" /\ using[t] # 0 => using[t] # conn

\* Sockets that Connect is about to install are known to no one else.
Fresh ==
  /\ \A t \in Threads : pc[t] = "install" =>
       /\ new[t] # 0 /\ new[t] # conn
       /\ \A u \in Threads : using[u] # new[t]
       /\ \A u \in Threads \ {t} : pc[u] = "install" => new[u] # new[t]
  /\ \A g \in Conns : cmdSock[g] = "none" =>
       /\ conn # g
       /\ \A u \in Threads : using[u] # g /\ new[u] # g

IInv == TypeOK /\ Locking /\ Taken /\ Fresh /\ OneUserPerSocket

-----------------------------------------------------------------------------
LEMMA InitIInv == Init => IInv
<1> SUFFICES ASSUME Init PROVE IInv
  OBVIOUS
<1>0. 0 \notin Threads /\ MaxConn \in Nat  BY ClientAssumption
<1>1. TypeOK
  BY <1>0 DEF Init, TypeOK, Conns, SockState, ReaderState, PcState
<1>2. Locking /\ Taken /\ OneUserPerSocket
  BY <1>0 DEF Init, Locking, Taken, OneUserPerSocket, InTransaction
<1>3. Fresh
  BY <1>0 DEF Init, Fresh, Conns
<1>4. QED  BY <1>1, <1>2, <1>3 DEF IInv

\* No step of any goroutine, of the camera or of the network breaks it.
LEMMA NextIInv ==
  ASSUME IInv, [Next]_vars
  PROVE  IInv'
<1> USE ClientAssumption DEF IInv, Conns, SockState, ReaderState, PcState
<1>1. ASSUME NEW t \in Threads, NEW g \in Conns, Dial(t, g)
      PROVE  IInv'
  <2>1. TypeOK'  BY <1>1 DEF Dial, Goto, TypeOK
  <2>2. Locking' /\ Taken' /\ OneUserPerSocket'
    BY <1>1 DEF Dial, Goto, TypeOK, Locking, Taken, OneUserPerSocket, InTransaction
  <2>3. Fresh'  BY <1>1 DEF Dial, Goto, TypeOK, Fresh
  <2>4. QED  BY <2>1, <2>2, <2>3
<1>2. ASSUME NEW t \in Threads, Install(t)
      PROVE  IInv'
  <2>1. TypeOK'
    <3>1. new[t] \in Conns /\ CrossedBy(t) \subseteq Conns
      BY <1>2 DEF Install, CrossedBy, Fresh, TypeOK
    <3>2. QED  BY <1>2, <3>1 DEF Install, Goto, TypeOK
  <2>2. Locking' /\ Taken' /\ OneUserPerSocket'
    BY <1>2 DEF Install, Goto, TypeOK, Locking, Taken, OneUserPerSocket, InTransaction, Fresh
  <2>3. Fresh'  BY <1>2 DEF Install, Goto, TypeOK, Fresh
  <2>4. QED  BY <2>1, <2>2, <2>3
<1>3. ASSUME NEW t \in Threads, Arm(t)
      PROVE  IInv'
  <2>1. TypeOK'  BY <1>3 DEF Arm, Goto, TypeOK
  <2>2. Locking' /\ Taken' /\ OneUserPerSocket'
    BY <1>3 DEF Arm, Goto,
       TypeOK, Locking, Taken, OneUserPerSocket, InTransaction
  <2>3. Fresh'  BY <1>3 DEF Arm, Goto, TypeOK, Fresh
  <2>4. QED  BY <2>1, <2>2, <2>3
<1>4. ASSUME NEW t \in Threads, Spawn(t)
      PROVE  IInv'
  <2>1. TypeOK'  BY <1>4 DEF Spawn, Goto, TypeOK
  <2>2. Locking' /\ Taken' /\ OneUserPerSocket'
    BY <1>4 DEF Spawn, Goto,
       TypeOK, Locking, Taken, OneUserPerSocket, InTransaction
  <2>3. Fresh'  BY <1>4 DEF Spawn, Goto, TypeOK, Fresh
  <2>4. QED  BY <2>1, <2>2, <2>3
<1>5. ASSUME NEW t \in Threads, Call(t)
      PROVE  IInv'
  <2>1. TypeOK'  BY <1>5 DEF Call, Goto, TypeOK
  <2>2. Locking' /\ Taken' /\ OneUserPerSocket'
    BY <1>5 DEF Call, Goto,
       TypeOK, Locking, Taken, OneUserPerSocket, InTransaction
  <2>3. Fresh'  BY <1>5 DEF Call, Goto, TypeOK, Fresh
  <2>4. QED  BY <2>1, <2>2, <2>3
<1>6. ASSUME NEW t \in Threads, Refuse(t)
      PROVE  IInv'
  <2>1. TypeOK'  BY <1>6 DEF Refuse, ReturnError, Goto, TypeOK
  <2>2. Locking' /\ Taken' /\ OneUserPerSocket'
    BY <1>6 DEF Refuse, ReturnError, Goto, TypeOK, Locking, Taken, OneUserPerSocket, InTransaction
  <2>3. Fresh'  BY <1>6 DEF Refuse, ReturnError, Goto, TypeOK, Fresh
  <2>4. QED  BY <2>1, <2>2, <2>3
<1>7. ASSUME NEW t \in Threads, Begin(t)
      PROVE  IInv'
  <2>1. TypeOK'  BY <1>7 DEF Begin, Goto, TypeOK
  <2>2. Locking' /\ Taken' /\ OneUserPerSocket'
    BY <1>7 DEF Begin, Goto, TypeOK, Locking, Taken, OneUserPerSocket, InTransaction
  <2>3. Fresh'  BY <1>7 DEF Begin, Goto, TypeOK, Fresh
  <2>4. QED  BY <2>1, <2>2, <2>3
<1>8. ASSUME NEW t \in Threads, Respond(t)
      PROVE  IInv'
  <2>1. mu = t  BY <1>8 DEF Respond, Locking, InTransaction
  <2>2. TypeOK'  BY <1>8 DEF Respond, Release, ReturnOK, Goto, TypeOK
  <2>3. Locking' /\ Taken' /\ OneUserPerSocket'
    BY <1>8, <2>1 DEF Respond, Release, ReturnOK, Goto,
       TypeOK, Locking, Taken, OneUserPerSocket, InTransaction
  <2>4. Fresh'  BY <1>8 DEF Respond, Release, ReturnOK, Goto, TypeOK, Fresh
  <2>5. QED  BY <2>2, <2>3, <2>4
<1>9. ASSUME NEW t \in Threads, RespondError(t)
      PROVE  IInv'
  <2>1. mu = t  BY <1>9 DEF RespondError, Locking, InTransaction
  <2>2. TypeOK'  BY <1>9 DEF RespondError, Release, ReturnError, Goto, TypeOK
  <2>3. Locking' /\ Taken' /\ OneUserPerSocket'
    BY <1>9, <2>1 DEF RespondError, Release, ReturnError, Goto,
       TypeOK, Locking, Taken, OneUserPerSocket, InTransaction
  <2>4. Fresh'  BY <1>9 DEF RespondError, Release, ReturnError, Goto, TypeOK, Fresh
  <2>5. QED  BY <2>2, <2>3, <2>4
<1>10. ASSUME NEW t \in Threads, SessionNotOpen(t)
      PROVE  IInv'
  <2>1. TypeOK'  BY <1>10 DEF SessionNotOpen, Goto, TypeOK
  <2>2. Locking' /\ Taken' /\ OneUserPerSocket'
    BY <1>10 DEF SessionNotOpen, Goto,
       TypeOK, Locking, Taken, OneUserPerSocket, InTransaction
  <2>3. Fresh'  BY <1>10 DEF SessionNotOpen, Goto, TypeOK, Fresh
  <2>4. QED  BY <2>1, <2>2, <2>3
<1>11. ASSUME NEW t \in Threads, SessionReopened(t)
      PROVE  IInv'
  <2>1. TypeOK'  BY <1>11 DEF SessionReopened, Goto, TypeOK
  <2>2. Locking' /\ Taken' /\ OneUserPerSocket'
    BY <1>11 DEF SessionReopened, Goto,
       TypeOK, Locking, Taken, OneUserPerSocket, InTransaction
  <2>3. Fresh'  BY <1>11 DEF SessionReopened, Goto, TypeOK, Fresh
  <2>4. QED  BY <2>1, <2>2, <2>3
<1>12. ASSUME NEW t \in Threads, Drop(t)
      PROVE  IInv'
  <2>1. mu = t /\ conn # 0 /\ conn \in Conns
    BY <1>12 DEF Drop, Locking, InTransaction, TypeOK
  <2>2. TypeOK'
    BY <1>12, <2>1 DEF Drop, Release, ReturnError, Fired, Goto, TypeOK
  <2>3. Locking' /\ Taken' /\ OneUserPerSocket'
    BY <1>12, <2>1 DEF Drop, Release, ReturnError, Goto, TypeOK, Locking, Taken,
       OneUserPerSocket, InTransaction
  <2>4. Fresh'
    BY <1>12, <2>1 DEF Drop, Release, ReturnError, Goto, TypeOK, Fresh
  <2>5. QED  BY <2>2, <2>3, <2>4
<1>13. ASSUME NEW t \in Threads, CloseTake(t)
      PROVE  IInv'
  <2>1. \A u \in Threads : using[u] # 0 => pc[u] = "closing"
    BY <1>13 DEF CloseTake, Locking
  <2>2. TypeOK'  BY <1>13 DEF CloseTake, Goto, TypeOK
  <2>3. Locking' /\ Taken' /\ OneUserPerSocket'
    BY <1>13, <2>1 DEF CloseTake, Goto, TypeOK, Locking, Taken, OneUserPerSocket, InTransaction
  <2>4. Fresh'  BY <1>13 DEF CloseTake, Goto, TypeOK, Fresh
  <2>5. QED  BY <2>2, <2>3, <2>4
<1>14. ASSUME NEW t \in Threads, CloseSockets(t)
       PROVE  IInv'
  <2>1. TypeOK'  BY <1>14 DEF CloseSockets, Goto, TypeOK
  <2>2. Locking' /\ Taken' /\ OneUserPerSocket'
    BY <1>14 DEF CloseSockets, Goto, TypeOK, Locking, Taken, OneUserPerSocket, InTransaction
  <2>3. Fresh'  BY <1>14 DEF CloseSockets, Goto, TypeOK, Fresh
  <2>4. QED  BY <2>1, <2>2, <2>3
<1>15. ASSUME NEW g \in Conns, ReadFails(g)
      PROVE  IInv'
  <2>1. TypeOK'  BY <1>15 DEF ReadFails, TypeOK
  <2>2. Locking' /\ Taken' /\ OneUserPerSocket'
    BY <1>15 DEF ReadFails,
       TypeOK, Locking, Taken, OneUserPerSocket, InTransaction
  <2>3. Fresh'  BY <1>15 DEF ReadFails, TypeOK, Fresh
  <2>4. QED  BY <2>1, <2>2, <2>3
<1>16. ASSUME NEW g \in Conns, Deliberate(g)
      PROVE  IInv'
  <2>1. TypeOK'  BY <1>16 DEF Deliberate, TypeOK
  <2>2. Locking' /\ Taken' /\ OneUserPerSocket'
    BY <1>16 DEF Deliberate,
       TypeOK, Locking, Taken, OneUserPerSocket, InTransaction
  <2>3. Fresh'  BY <1>16 DEF Deliberate, TypeOK, Fresh
  <2>4. QED  BY <2>1, <2>2, <2>3
<1>17. ASSUME NEW g \in Conns, ReaderFires(g)
      PROVE  IInv'
  <2>1. TypeOK'  BY <1>17 DEF ReaderFires, Fired, TypeOK
  <2>2. Locking' /\ Taken' /\ OneUserPerSocket'
    BY <1>17 DEF ReaderFires, Fired,
       TypeOK, Locking, Taken, OneUserPerSocket, InTransaction
  <2>3. Fresh'  BY <1>17 DEF ReaderFires, Fired, TypeOK, Fresh
  <2>4. QED  BY <2>1, <2>2, <2>3
<1>18. ASSUME NEW g \in Conns, LoseCmd(g)
      PROVE  IInv'
  <2>1. TypeOK'  BY <1>18 DEF LoseCmd, TypeOK
  <2>2. Locking' /\ Taken' /\ OneUserPerSocket'
    BY <1>18 DEF LoseCmd,
       TypeOK, Locking, Taken, OneUserPerSocket, InTransaction
  <2>3. Fresh'  BY <1>18 DEF LoseCmd, TypeOK, Fresh
  <2>4. QED  BY <2>1, <2>2, <2>3
<1>19. ASSUME NEW g \in Conns, LoseEvt(g)
      PROVE  IInv'
  <2>1. TypeOK'  BY <1>19 DEF LoseEvt, TypeOK
  <2>2. Locking' /\ Taken' /\ OneUserPerSocket'
    BY <1>19 DEF LoseEvt,
       TypeOK, Locking, Taken, OneUserPerSocket, InTransaction
  <2>3. Fresh'  BY <1>19 DEF LoseEvt, TypeOK, Fresh
  <2>4. QED  BY <2>1, <2>2, <2>3
<1>20. CASE UNCHANGED vars
  BY <1>20 DEF vars, TypeOK, Locking, Taken, Fresh, OneUserPerSocket, InTransaction
<1>21. QED
  BY <1>1, <1>2, <1>3, <1>4, <1>5, <1>6, <1>7, <1>8, <1>9, <1>10, <1>11, <1>12, <1>13, <1>14, <1>15, <1>16, <1>17, <1>18, <1>19, <1>20
  DEF Next, Continue, ReadEvents

-----------------------------------------------------------------------------
\* The inductive invariant holds in every reachable state of the client: who
\* holds the mutex, which sockets are installed, which are being closed (client.go).
THEOREM Invariance == Spec => []IInv
<1>1. IInv /\ [Next]_vars => IInv'  BY NextIInv
<1>2. QED  BY InitIInv, <1>1, PTL DEF Spec

\* Every variable of the client keeps its type (ptpip.Client).
THEOREM TypeCorrect == Spec => []TypeOK
<1>1. IInv => TypeOK  BY DEF IInv
<1>2. QED  BY Invariance, <1>1, PTL

\* However many goroutines connect, transact and close at once, no command
\* socket ever has two users (Transact, Close).
THEOREM Serialised == Spec => []OneUserPerSocket
<1>1. IInv => OneUserPerSocket  BY DEF IInv
<1>2. QED  BY Invariance, <1>1, PTL

-----------------------------------------------------------------------------
\* A step leaves no open socket without an owner.
LEMMA NextNoLeak ==
  ASSUME IInv, NoLeakedSocket, [Next]_vars
  PROVE  NoLeakedSocket'
<1> USE ClientAssumption DEF Conns
<1>t. TypeOK /\ Locking  BY DEF IInv
<1>1. ASSUME NEW t \in Threads, NEW g \in Conns, Dial(t, g)
      PROVE  NoLeakedSocket'
  BY <1>1, <1>t DEF Dial, Goto, NoLeakedSocket, TypeOK
<1>2. ASSUME NEW t \in Threads, Install(t)
      PROVE  NoLeakedSocket'
  BY <1>2, <1>t DEF Install, Goto, NoLeakedSocket, TypeOK
<1>3. ASSUME NEW t \in Threads,
             \/ Arm(t) \/ Spawn(t) \/ Call(t) \/ Refuse(t)
             \/ SessionNotOpen(t) \/ SessionReopened(t)
      PROVE  NoLeakedSocket'
  <2>1. /\ pc[t] # "install" /\ UNCHANGED <<conn, cmdSock, using, new, fate>>
        /\ \A u \in Threads \ {t} : pc'[u] = pc[u]
    BY <1>3, <1>t DEF Arm, Spawn, Call, Refuse, ReturnError, SessionNotOpen,
       SessionReopened, Goto, TypeOK
  <2>2. QED  BY <2>1 DEF NoLeakedSocket
<1>4. ASSUME NEW t \in Threads, Begin(t)
      PROVE  NoLeakedSocket'
  <2>1. using[t] = 0 \/ pc[t] = "closing"
    BY <1>4, <1>t DEF Begin, Locking
  <2>2. QED  BY <1>4, <1>t, <2>1 DEF Begin, Goto, NoLeakedSocket, TypeOK
<1>5. ASSUME NEW t \in Threads, Respond(t) \/ RespondError(t)
      PROVE  NoLeakedSocket'
  <2>1. using[t] = conn
    BY <1>5, <1>t DEF Respond, RespondError, Locking, InTransaction
  <2>2. /\ pc[t] # "install" /\ UNCHANGED <<conn, cmdSock, fate>>
        /\ \A u \in Threads \ {t} : pc'[u] = pc[u] /\ using'[u] = using[u] /\ new'[u] = new[u]
    BY <1>5, <1>t DEF Respond, RespondError, Release, ReturnOK, ReturnError, Goto, TypeOK
  <2>3. QED  BY <2>1, <2>2 DEF NoLeakedSocket
<1>6. ASSUME NEW t \in Threads, Drop(t)
      PROVE  NoLeakedSocket'
  <2>1. using[t] = conn /\ conn \in Conns
    BY <1>6, <1>t DEF Drop, Locking, InTransaction, TypeOK
  <2>2. /\ pc[t] # "install"
        /\ cmdSock' = [cmdSock EXCEPT ![conn] = "closed"]
        /\ fate' = [fate EXCEPT ![conn] = "dropped"]
        /\ \A u \in Threads \ {t} : pc'[u] = pc[u] /\ using'[u] = using[u] /\ new'[u] = new[u]
    BY <1>6, <1>t DEF Drop, Release, ReturnError, Goto, TypeOK
  <2>3. cmdSock'[conn] = "closed"
    BY <2>1, <2>2, <1>t DEF TypeOK
  <2>4. \A h \in Conns \ {conn} : cmdSock'[h] = cmdSock[h] /\ fate'[h] = fate[h]
    BY <2>2, <1>t DEF TypeOK
  <2>5. QED  BY <2>1, <2>2, <2>3, <2>4 DEF NoLeakedSocket
<1>7. ASSUME NEW t \in Threads, CloseTake(t)
      PROVE  NoLeakedSocket'
  <2>1. using[t] = 0
    BY <1>7, <1>t DEF CloseTake, Locking, InTransaction
  <2>2. QED  BY <1>7, <1>t, <2>1 DEF CloseTake, Goto, NoLeakedSocket, TypeOK
<1>8. ASSUME NEW t \in Threads, CloseSockets(t)
      PROVE  NoLeakedSocket'
  BY <1>8, <1>t DEF CloseSockets, Goto, NoLeakedSocket, TypeOK
<1>9. ASSUME NEW g \in Conns, ReadEvents(g) \/ LoseCmd(g) \/ LoseEvt(g)
      PROVE  NoLeakedSocket'
  <2>1. /\ UNCHANGED <<conn, using, pc, new, fate>>
        /\ \A h \in Conns : cmdSock'[h] \in {"open", "lost"} => cmdSock[h] \in {"open", "lost"}
    BY <1>9, <1>t DEF ReadEvents, ReadFails, Deliberate, ReaderFires, LoseCmd, LoseEvt, TypeOK
  <2>2. QED  BY <2>1 DEF NoLeakedSocket
<1>10. CASE UNCHANGED vars
  BY <1>10 DEF vars, NoLeakedSocket
<1>11. QED
  BY <1>1, <1>2, <1>3, <1>4, <1>5, <1>6, <1>7, <1>8, <1>9, <1>10 DEF Next, Continue

\* No socket is forgotten, but for those a Connect over a link that is still
\* installed overwrites (Connect 150-154, Close, dropLocked).
THEOREM NoLeak == Spec => []NoLeakedSocket
<1>1. Init => NoLeakedSocket  BY DEF Init, NoLeakedSocket
<1>2. IInv /\ NoLeakedSocket /\ [Next]_vars => NoLeakedSocket'  BY NextNoLeak
<1>3. QED  BY Invariance, <1>1, <1>2, PTL DEF Spec
-----------------------------------------------------------------------------
(* Reports *)

\* The links that are being connected are different ones, and none was handed over. The
\* latch is armed for the one that was installed and is not crossed.
Connecting ==
  \A t \in Threads :
    /\ pc[t] = "idle" => new[t] = 0
    /\ pc[t] \in {"install", "arm", "spawn"} => new[t] # 0
    /\ new[t] # 0 =>
         /\ t \in Connectors /\ result[new[t]] = "pending"
         /\ \A u \in Threads \ {t} : new[u] # new[t]
         /\ pc[t] # "install" /\ new[t] \notin crossed => conn \in {0, new[t]}
         /\ pc[t] \notin {"install", "arm"} /\ new[t] \notin crossed => latch = new[t]

\* A goroutine that is about to arm has crossed every other link that is installed, or is
\* being connected since.
Arming ==
  \A t \in Threads : pc[t] = "arm" =>
    /\ conn \in {0, new[t]} \cup crossed
    /\ \A u \in Threads \ {t} : pc[u] # "install" => new[u] \in {0} \cup crossed

\* The installed link is live, and once it is handed over the latch is its own.
Latched ==
  conn # 0 => /\ fate[conn] = "live"
              /\ result[conn] = "ok" /\ conn \notin crossed => latch = conn

ReportInv == Connecting /\ Arming /\ Latched /\ DropReported

\* A step by which a link is dropped or handed over finds the latch of that link.
LEMMA NextReported ==
  ASSUME IInv, ReportInv, [Next]_vars
  PROVE  ReportInv'
<1> USE ClientAssumption DEF Conns
<1>t. TypeOK /\ Locking /\ Fresh  BY DEF IInv
<1>1. ASSUME NEW t \in Threads, NEW g \in Conns, Dial(t, g)
      PROVE  ReportInv'
  <2>1. conn # g /\ g # 0 /\ new[t] = 0 /\ \A u \in Threads : new[u] # g
    BY <1>1, <1>t DEF Dial, Fresh, ReportInv, Connecting
  <2>2. /\ UNCHANGED <<conn, latch, done, fate, crossed>>
        /\ t \in Connectors
        /\ pc' = [pc EXCEPT ![t] = "install"] /\ new' = [new EXCEPT ![t] = g]
        /\ result' = [result EXCEPT ![g] = "pending"]
    BY <1>1 DEF Dial, Goto
  <2>3. Connecting'  BY <1>t, <2>1, <2>2 DEF ReportInv, Connecting, TypeOK
  <2>4. Arming'  BY <1>t, <2>1, <2>2 DEF ReportInv, Arming, TypeOK
  <2>5. Latched' /\ DropReported'
    BY <1>t, <2>1, <2>2 DEF ReportInv, Latched, DropReported, TypeOK
  <2>6. QED  BY <2>3, <2>4, <2>5 DEF ReportInv
<1>2. ASSUME NEW t \in Threads, Install(t)
      PROVE  ReportInv'
  <2>1. /\ UNCHANGED <<latch, done, new, result>>
        /\ pc[t] = "install" /\ pc' = [pc EXCEPT ![t] = "arm"]
        /\ conn' = new[t] /\ crossed' = crossed \cup CrossedBy(t)
    BY <1>2 DEF Install, Goto
  <2>2. /\ \A u \in Threads \ {t} : new[u] # 0 /\ pc[u] # "install" => new[u] \in crossed'
        /\ (\E u \in Threads \ {t} : pc[u] = "arm") => new[t] \in crossed'
    BY <2>1 DEF CrossedBy
  <2>3. new[t] # 0 /\ new[t] \in Conns /\ result[new[t]] = "pending"
    BY <1>t, <2>1 DEF ReportInv, Connecting, TypeOK
  <2>4. Connecting'
    BY <1>t, <2>1, <2>2, <2>3 DEF ReportInv, Connecting, TypeOK
  <2>5. Arming'
    BY <1>t, <2>1, <2>2, <2>3 DEF ReportInv, Arming, TypeOK
  <2>6. Latched' /\ DropReported'
    BY <1>2, <1>t, <2>1, <2>3 DEF Install, ReportInv, Latched, DropReported, TypeOK
  <2>7. QED  BY <2>4, <2>5, <2>6 DEF ReportInv
<1>3. ASSUME NEW t \in Threads, Arm(t)
      PROVE  ReportInv'
  <2>1. /\ UNCHANGED <<conn, done, new, result, fate, crossed>>
        /\ pc[t] = "arm" /\ pc' = [pc EXCEPT ![t] = "spawn"] /\ latch' = new[t]
    BY <1>3 DEF Arm, Goto
  <2>2. conn \in {0, new[t]} \cup crossed /\ new[t] # 0
    BY <2>1 DEF ReportInv, Arming, Connecting
  <2>3. \A u \in Threads \ {t} : pc[u] # "install" => new[u] \in {0} \cup crossed
    BY <2>1 DEF ReportInv, Arming
  <2>4. Connecting'
    BY <1>t, <2>1, <2>2, <2>3 DEF ReportInv, Connecting, TypeOK
  <2>5. Arming'
    BY <1>t, <2>1, <2>3 DEF ReportInv, Arming, TypeOK
  <2>6. Latched' /\ DropReported'
    BY <1>t, <2>1, <2>2 DEF ReportInv, Latched, DropReported, TypeOK
  <2>7. QED  BY <2>4, <2>5, <2>6 DEF ReportInv
<1>4. ASSUME NEW t \in Threads,
             \/ Spawn(t) \/ Call(t) \/ Refuse(t) \/ Begin(t)
             \/ SessionNotOpen(t) \/ SessionReopened(t) \/ RespondError(t)
      PROVE  ReportInv'
  <2>1. /\ UNCHANGED <<conn, latch, done, new, result, fate, crossed>>
        /\ \A u \in Threads \ {t} : pc'[u] = pc[u]
        /\ pc[t] \notin {"install", "arm"} /\ pc'[t] \notin {"install", "arm", "spawn"}
        /\ pc'[t] = "idle" => new[t] = 0
    BY <1>4, <1>t DEF Spawn, Call, Refuse, Begin, SessionNotOpen, SessionReopened,
       RespondError, ReturnError, Goto, TypeOK
  <2>2. QED  BY <2>1 DEF ReportInv, Connecting, Arming, Latched, DropReported
<1>5. ASSUME NEW t \in Threads, Respond(t)
      PROVE  ReportInv'
  <2>1. conn # 0 /\ conn \in Conns /\ pc[t] \in InTransaction
    BY <1>5, <1>t DEF Respond, Locking, InTransaction, TypeOK
  <2>2. new[t] # 0 /\ new[t] \notin crossed => conn = new[t] /\ latch = new[t]
    BY <1>5, <2>1 DEF Respond, ReportInv, Connecting
  <2>3. /\ UNCHANGED <<conn, latch, done, fate, crossed>>
        /\ result' = [g \in Conns |-> IF g = new[t] THEN "ok" ELSE result[g]]
        /\ pc' = [pc EXCEPT ![t] = "idle"] /\ new' = [new EXCEPT ![t] = 0]
    BY <1>5 DEF Respond, ReturnOK, Goto
  <2>4. Connecting'
    BY <1>t, <2>3 DEF ReportInv, Connecting, TypeOK
  <2>5. Arming'
    BY <1>t, <2>3 DEF ReportInv, Arming, TypeOK
  <2>6. Latched'
    BY <1>t, <2>1, <2>2, <2>3 DEF ReportInv, Latched, TypeOK
  <2>7. DropReported'
    BY <1>t, <2>1, <2>2, <2>3 DEF ReportInv, Latched, DropReported, TypeOK
  <2>8. QED  BY <2>4, <2>5, <2>6, <2>7 DEF ReportInv
<1>6. ASSUME NEW t \in Threads, Drop(t)
      PROVE  ReportInv'
  <2>1. conn # 0 /\ conn \in Conns /\ pc[t] \in InTransaction
    BY <1>6, <1>t DEF Drop, Locking, InTransaction, TypeOK
  <2>2. /\ conn' = 0 /\ UNCHANGED <<latch, new, result, crossed>>
        /\ fate' = [fate EXCEPT ![conn] = "dropped"] /\ done' = Fired
        /\ pc' = [pc EXCEPT ![t] = IF new[t] # 0 THEN "close" ELSE "idle"]
    BY <1>6 DEF Drop, ReturnError, Goto
  <2>3. result[conn] = "ok" /\ conn \notin crossed => conn \in done'
    BY <2>1, <2>2 DEF ReportInv, Latched, Fired
  <2>4. done \subseteq done'  BY <2>2 DEF Fired
  <2>5. Connecting' /\ Arming'
    BY <1>t, <2>1, <2>2 DEF ReportInv, Connecting, Arming, InTransaction, TypeOK
  <2>6. DropReported'
    BY <1>t, <2>1, <2>2, <2>3, <2>4 DEF ReportInv, DropReported, TypeOK
  <2>7. QED  BY <2>2, <2>5, <2>6 DEF ReportInv, Latched
<1>7. ASSUME NEW t \in Threads, CloseTake(t)
      PROVE  ReportInv'
  <2>1. /\ UNCHANGED <<latch, done, new, result, crossed>>
        /\ conn' = 0 /\ pc[t] \in {"idle", "close"} /\ pc' = [pc EXCEPT ![t] = "closing"]
        /\ fate' = [g \in Conns |-> IF g = conn THEN "closed" ELSE fate[g]]
    BY <1>7 DEF CloseTake, Goto
  <2>2. QED
    BY <1>t, <2>1 DEF ReportInv, Connecting, Arming, Latched, DropReported, TypeOK
<1>8. ASSUME NEW t \in Threads, CloseSockets(t)
      PROVE  ReportInv'
  <2>1. /\ UNCHANGED <<conn, latch, done, fate, crossed>>
        /\ result' = [g \in Conns |-> IF g = new[t] THEN "error" ELSE result[g]]
        /\ pc[t] = "closing" /\ pc' = [pc EXCEPT ![t] = "idle"] /\ new' = [new EXCEPT ![t] = 0]
    BY <1>8 DEF CloseSockets, Goto
  <2>2. Connecting'
    BY <1>t, <2>1 DEF ReportInv, Connecting, TypeOK
  <2>3. Arming'
    BY <1>t, <2>1 DEF ReportInv, Arming, TypeOK
  <2>4. Latched' /\ DropReported'
    BY <1>t, <2>1 DEF ReportInv, Latched, DropReported, TypeOK
  <2>5. QED  BY <2>2, <2>3, <2>4 DEF ReportInv
<1>9. ASSUME NEW g \in Conns, ReadEvents(g) \/ LoseCmd(g) \/ LoseEvt(g)
      PROVE  ReportInv'
  <2>1. UNCHANGED <<conn, latch, pc, new, result, fate, crossed>> /\ done \subseteq done'
    BY <1>9 DEF ReadEvents, ReadFails, Deliberate, ReaderFires, Fired, LoseCmd, LoseEvt
  <2>2. QED  BY <2>1 DEF ReportInv, Connecting, Arming, Latched, DropReported
<1>10. CASE UNCHANGED vars
  BY <1>10 DEF vars, ReportInv, Connecting, Arming, Latched, DropReported
<1>11. QED
  BY <1>1, <1>2, <1>3, <1>4, <1>5, <1>6, <1>7, <1>8, <1>9, <1>10 DEF Next, Continue

\* However many goroutines connect at once, every link that was handed over and then
\* dropped was reported, although the latch is armed some time after the sockets are
\* installed; the exception are the links whose Connect another one crossed in that window
\* or before it returned (Connect 150-171, dropLocked).
THEOREM Reported == Spec => []DropReported
<1>1. Init => ReportInv
  BY ClientAssumption DEF Init, ReportInv, Connecting, Arming, Latched, DropReported
<1>2. IInv /\ ReportInv /\ [Next]_vars => ReportInv'  BY NextReported
<1>3. ReportInv => DropReported  BY DEF ReportInv
<1>4. QED  BY Invariance, <1>1, <1>2, <1>3, PTL DEF Spec

-----------------------------------------------------------------------------
(* Lifecycle *)

\* The browser is shown only after a Connect succeeded, which remembered the
\* address that Camera.Reconnect needs (connectedMsg, Camera.Connect).
BrowserKnowsAddr == /\ screen = "browser" => addr
                    /\ connect = "ok" => addr

\* Every loss that waits to be told was counted.
LostCounted == lost <= drops

BadgeInv == LifeTypeOK /\ BrowserKnowsAddr /\ LostCounted /\ BadgeHasCause

LEMMA InitBadge == LifeInit => BadgeInv
<1> SUFFICES ASSUME LifeInit PROVE BadgeInv
  OBVIOUS
<1>1. LifeTypeOK
  <2>1. loop \in [Loops -> LoopState]  BY DEF LifeInit, LoopState
  <2>2. reconnectCtx \in 0..MaxDrops /\ lost \in 0..MaxDrops /\ drops \in 0..MaxDrops
        /\ keepAliveCtx \in 0..MaxKeep
    BY LifecycleAssumption DEF LifeInit
  <2>3. cancelled \subseteq Loops /\ keeps \subseteq Keeps
    BY DEF LifeInit
  <2>4. QED  BY <2>1, <2>2, <2>3 DEF LifeInit, LifeTypeOK
<1>2. BrowserKnowsAddr /\ LostCounted /\ BadgeHasCause
  BY DEF LifeInit, BrowserKnowsAddr, LostCounted, BadgeHasCause
<1>3. QED  BY <1>1, <1>2 DEF BadgeInv

\* StartKeepAlive and StopKeepAlive keep their types.
LEMMA KeepTypes ==
  ASSUME LifeTypeOK, StopKeepAlive \/ StoreKeepAlive \/ UNCHANGED keep
  PROVE  keeps' \subseteq Keeps /\ keepAliveCtx' \in 0..MaxKeep
<1>1. CASE StopKeepAlive
  BY <1>1, LifecycleAssumption DEF StopKeepAlive, LifeTypeOK
<1>2. CASE StoreKeepAlive
  <2>1. PICK k \in Keeps : keeps' = keeps \cup {k} /\ keepAliveCtx' = k
    BY <1>2 DEF StoreKeepAlive
  <2>2. keepAliveCtx' \in 0..MaxKeep
    BY <2>1, LifecycleAssumption DEF Keeps
  <2>3. QED  BY <2>1, <2>2 DEF LifeTypeOK
<1>3. CASE UNCHANGED keep
  BY <1>3 DEF keep, LifeTypeOK
<1>4. QED  BY <1>1, <1>2, <1>3

\* So do CancelReconnect and its absence.
LEMMA CancelTypes ==
  ASSUME LifeTypeOK, CancelReconnect \/ UNCHANGED <<cancelled, reconnectCtx>>
  PROVE  cancelled' \subseteq Loops /\ reconnectCtx' \in 0..MaxDrops
<1>1. CASE CancelReconnect
  <2>1. {reconnectCtx} \ {0} \subseteq Loops
    BY LifecycleAssumption DEF Loops, LifeTypeOK
  <2>2. 0 \in 0..MaxDrops
    BY LifecycleAssumption
  <2>3. QED  BY <1>1, <2>1, <2>2 DEF CancelReconnect, LifeTypeOK
<1>2. CASE UNCHANGED <<cancelled, reconnectCtx>>
  BY <1>2 DEF LifeTypeOK
<1>3. QED  BY <1>1, <1>2

\* A loop that moves on but not to its end keeps the badge justified.
LEMMA StillRunning ==
  ASSUME LifeTypeOK, NEW i \in Loops, NEW l \in LoopState \ {"none", "done", "exit"},
         loop' = [loop EXCEPT ![i] = l]
  PROVE  \E j \in Loops : Running(j)' /\ loop'[j] # "exit"
<1>1. loop'[i] = l  BY DEF LifeTypeOK
<1>2. QED  BY <1>1 DEF Running

\* A step of a reconnect goroutine.
LEMMA LoopKeepsBadge ==
  ASSUME BadgeInv, NEW i \in Loops, LoopStep(i)
  PROVE  BadgeInv'
<1> USE LifecycleAssumption DEF BadgeInv, Step
<1>t. /\ loop \in [Loops -> LoopState] /\ drops \in 0..MaxDrops /\ keepAliveCtx \in 0..MaxKeep
      /\ keeps \subseteq Keeps
  BY DEF LifeTypeOK
<1>1. /\ UNCHANGED <<addr, view, connect>>
      /\ loop' \in [Loops -> LoopState]
      /\ loop'[i] # "exit" \/ loop[i] = "exit"
      /\ \/ loop'[i] \in LoopState \ {"none", "done", "exit"} /\ loop' = [loop EXCEPT ![i] = loop'[i]]
         \/ loop[i] = "exit" /\ loop' = [loop EXCEPT ![i] = "done"]
  BY <1>t DEF LoopStep, LoopCancelled, LoopWakes, LoopConnects, LoopFails, LoopDrops, LoopRetries,
     LoopStopsKeepAlive, LoopStoresKeepAlive, LoopExits, cam, keep, view, env, LoopState
<1>2. LifeTypeOK' /\ LostCounted'
  <2>1. /\ up' \in BOOLEAN /\ alive' \in BOOLEAN /\ armed' \in BOOLEAN
    BY DEF LoopStep, LoopCancelled, LoopWakes, LoopConnects, LoopFails, LoopDrops, LoopRetries,
       LoopStopsKeepAlive, LoopStoresKeepAlive, LoopExits, cam, OpenClient, CloseClient, LifeTypeOK
  <2>2. /\ cancelled' = cancelled /\ reconnectCtx' \in 0..MaxDrops
        /\ lost' = lost /\ drops' \in 0..MaxDrops /\ drops' >= drops
    BY DEF LoopStep, LoopCancelled, LoopWakes, LoopConnects, LoopFails, LoopDrops, LoopRetries,
       LoopStopsKeepAlive, LoopStoresKeepAlive, LoopExits, env, LifeTypeOK
  <2>3. keeps' \subseteq Keeps /\ keepAliveCtx' \in 0..MaxKeep
    <3>1. StopKeepAlive \/ StoreKeepAlive \/ UNCHANGED keep
      BY DEF LoopStep, LoopCancelled, LoopWakes, LoopConnects, LoopFails, LoopDrops, LoopRetries,
         LoopStopsKeepAlive, LoopStoresKeepAlive, LoopExits, keep
    <3>2. QED  BY <3>1, KeepTypes
  <2>4. LostCounted'  BY <2>2, <1>t DEF LostCounted, LifeTypeOK
  <2>5. QED  BY <1>1, <2>1, <2>2, <2>3, <2>4 DEF LifeTypeOK, view
<1>3. BadgeHasCause'
  <2>1. CASE loop'[i] \in LoopState \ {"none", "done", "exit"} /\ loop' = [loop EXCEPT ![i] = loop'[i]]
    BY <2>1, StillRunning DEF BadgeHasCause
  <2>2. CASE loop[i] = "exit" /\ loop' = [loop EXCEPT ![i] = "done"]
    BY <1>1, <1>t, <2>2 DEF BadgeHasCause, Running, view
  <2>3. QED  BY <1>1, <2>1, <2>2
<1>4. QED  BY <1>1, <1>2, <1>3 DEF BrowserKnowsAddr, view

\* A step of a keep-alive goroutine, of the link or of connectCmd leaves the
\* reconnect goroutines and the interface alone.
LEMMA WorldKeepsBadge ==
  ASSUME BadgeInv,
         \/ \E k \in Keeps : KeepAliveDrops(k) \/ KeepAliveLeaves(k) \/ KeepAliveRefused(k)
         \/ LinkDies \/ ReaderReports \/ TransactionDrops
         \/ ConnectSucceeds \/ ConnectFails \/ ConnectDrops
  PROVE  BadgeInv'
<1> USE LifecycleAssumption DEF BadgeInv
<1>t. drops \in 0..MaxDrops /\ lost \in 0..MaxDrops  BY DEF LifeTypeOK
<1>1. /\ UNCHANGED <<loops, view, keepAliveCtx>> /\ keeps' \subseteq keeps
      /\ addr' = addr \/ addr'
      /\ connect' \in {connect, "ok", "error"} /\ (connect' = "ok" => addr' \/ connect = "ok")
  BY DEF KeepAliveDrops, KeepAliveLeaves, KeepAliveRefused, LinkDies, ReaderReports,
     TransactionDrops, ConnectSucceeds, ConnectFails, ConnectDrops, cam, loops, keep, view, env
<1>2. up' \in BOOLEAN /\ alive' \in BOOLEAN /\ armed' \in BOOLEAN /\ addr' \in BOOLEAN
  BY DEF KeepAliveDrops, KeepAliveLeaves, KeepAliveRefused, LinkDies, ReaderReports,
     TransactionDrops, ConnectSucceeds, ConnectFails, ConnectDrops, cam,
     DropClient, Report, OpenClient, CloseClient, LifeTypeOK
<1>3. \/ UNCHANGED <<lost, drops>>
      \/ drops < MaxDrops /\ lost' = lost + 1 /\ drops' = drops + 1
  BY DEF KeepAliveDrops, KeepAliveLeaves, KeepAliveRefused, LinkDies, ReaderReports,
     TransactionDrops, ConnectSucceeds, ConnectFails, ConnectDrops, env, DropClient, Report
<1>4. /\ lost' \in 0..MaxDrops /\ drops' \in 0..MaxDrops /\ LostCounted'
  BY <1>3, <1>t DEF LostCounted
<1>5. LifeTypeOK'
  BY <1>1, <1>2, <1>4 DEF LifeTypeOK, loops, view
<1>6. BrowserKnowsAddr' /\ BadgeHasCause'
  BY <1>1 DEF BrowserKnowsAddr, BadgeHasCause, Running, loops, view
<1>7. QED  BY <1>4, <1>5, <1>6

\* A key or a message that starts or ends no reconnect goroutine.
LEMMA KeysKeepBadge ==
  ASSUME BadgeInv,
         \/ UiConnect \/ UiDetect \/ UiDiscovered \/ UiRefreshFailed
         \/ UiConnectFailed \/ UiStoresKeepAlive
  PROVE  BadgeInv'
<1> USE LifecycleAssumption DEF BadgeInv
<1>1. /\ UNCHANGED <<cam, loops, reconnecting, lost, drops>>
      /\ connect' # "ok" \/ connect' = connect
      /\ connect' \in {"none", "detecting", "dialing", "ok", "error"}
      /\ UNCHANGED screen \/ screen' = "connect"
      /\ UNCHANGED ui \/ (ui = "storeKeep" /\ ui' = "ready")
      /\ left' \in BOOLEAN
  BY DEF UiConnect, UiDetect, UiDiscovered, UiRefreshFailed, UiConnectFailed, UiStoresKeepAlive,
     keep, view, env, LifeTypeOK
<1>2. keeps' \subseteq Keeps /\ keepAliveCtx' \in 0..MaxKeep
  <2>1. StoreKeepAlive \/ UNCHANGED keep
    BY DEF UiConnect, UiDetect, UiDiscovered, UiRefreshFailed, UiConnectFailed, UiStoresKeepAlive
  <2>2. QED  BY <2>1, KeepTypes
<1>3. LifeTypeOK' /\ LostCounted'
  BY <1>1, <1>2 DEF LifeTypeOK, LostCounted, cam, loops
<1>4. BrowserKnowsAddr' /\ BadgeHasCause'
  BY <1>1 DEF BrowserKnowsAddr, BadgeHasCause, Running, cam, loops
<1>5. QED  BY <1>3, <1>4

\* The messages and keys that do.
LEMMA MessagesKeepBadge ==
  ASSUME BadgeInv,
         UiConnected \/ UiLinkLost \/ UiStoresLoop \/ UiSwitchCamera
         \/ \E i \in Loops : UiReconnectState(i)
  PROVE  BadgeInv'
<1> USE LifecycleAssumption DEF BadgeInv
<1>1. CASE UiConnected
  <2>1. keeps' \subseteq Keeps /\ keepAliveCtx' \in 0..MaxKeep
    BY <1>1, KeepTypes DEF UiConnected
  <2>2. QED
    BY <1>1, <2>1 DEF UiConnected, cam, loops, LifeTypeOK, LostCounted, BrowserKnowsAddr, BadgeHasCause
<1>2. CASE UiLinkLost
  <2>1. keeps' \subseteq Keeps /\ keepAliveCtx' \in 0..MaxKeep
    BY <1>2, KeepTypes DEF UiLinkLost
  <2>2. lost' \in 0..MaxDrops /\ LostCounted'
    BY <1>2 DEF UiLinkLost, LostCounted, LifeTypeOK
  <2>3. loop' \in [Loops -> LoopState]
    BY <1>2 DEF UiLinkLost, Step, LoopState, LifeTypeOK
  <2>4. cancelled' \subseteq Loops /\ reconnectCtx' \in 0..MaxDrops
    BY <1>2, CancelTypes DEF UiLinkLost
  <2>5. BrowserKnowsAddr' /\ BadgeHasCause'
    BY <1>2 DEF UiLinkLost, cam, BrowserKnowsAddr, BadgeHasCause
  <2>6. QED
    BY <1>2, <2>1, <2>2, <2>3, <2>4, <2>5 DEF UiLinkLost, cam, LifeTypeOK
<1>3. CASE UiStoresLoop
  <2>1. PICK i \in Loops : loop' = [loop EXCEPT ![i] = "emitWaiting"] /\ reconnectCtx' = i
    BY <1>3 DEF UiStoresLoop
  <2>2. \E j \in Loops : Running(j)' /\ loop'[j] # "exit"
    BY <2>1, StillRunning DEF LoopState
  <2>3. loop' \in [Loops -> LoopState] /\ reconnectCtx' \in 0..MaxDrops
    BY <2>1 DEF LifeTypeOK, LoopState, Loops
  <2>4. QED
    BY <1>3, <2>2, <2>3 DEF UiStoresLoop, cam, keep, env, LifeTypeOK, LostCounted,
       BrowserKnowsAddr, BadgeHasCause
<1>4. CASE UiSwitchCamera
  <2>1. keeps' \subseteq Keeps /\ keepAliveCtx' \in 0..MaxKeep
    BY <1>4, KeepTypes DEF UiSwitchCamera
  <2>2. cancelled' \subseteq Loops /\ reconnectCtx' \in 0..MaxDrops
    BY <1>4, CancelTypes DEF UiSwitchCamera
  <2>3. QED
    BY <1>4, <2>1, <2>2 DEF UiSwitchCamera, CloseClient, LifeTypeOK, LostCounted,
       BrowserKnowsAddr, BadgeHasCause
<1>5. ASSUME NEW i \in Loops, UiReconnectState(i)
      PROVE  BadgeInv'
  <2>1. /\ UNCHANGED <<cam, cancelled, reconnectCtx, keep, screen, ui, left, env>>
        /\ reconnecting' \in BOOLEAN
    BY <1>5 DEF UiReconnectState
  <2>2. loop' \in [Loops -> LoopState]
    BY <1>5 DEF UiReconnectState, Step, LoopState, LifeTypeOK
  <2>3. reconnecting' => \E j \in Loops : Running(j)' /\ loop'[j] # "exit"
    <3>1. CASE loop' = [loop EXCEPT ![i] = "sleeping"] \/ loop' = [loop EXCEPT ![i] = "emitWaiting"]
      BY <3>1, StillRunning DEF LoopState
    <3>2. QED  BY <1>5, <3>1 DEF UiReconnectState, Step
  <2>4. QED
    BY <2>1, <2>2, <2>3 DEF cam, keep, env, LifeTypeOK, LostCounted, BrowserKnowsAddr, BadgeHasCause
<1>6. QED  BY <1>1, <1>2, <1>3, <1>4, <1>5

-----------------------------------------------------------------------------
LEMMA NextBadge == BadgeInv /\ [LifeNext]_lifeVars => BadgeInv'
<1>1. ASSUME BadgeInv, UNCHANGED lifeVars PROVE BadgeInv'
  BY <1>1 DEF BadgeInv, lifeVars, cam, loops, keep, view, env, LifeTypeOK, LostCounted,
     BrowserKnowsAddr, BadgeHasCause, Running
<1>2. QED
  BY <1>1, LoopKeepsBadge, WorldKeepsBadge, KeysKeepBadge, MessagesKeepBadge DEF LifeNext, UiStep

\* Every variable of the link's life keeps its type (camera.Camera, Model).
THEOREM LifeTypes == LifeSpec => []LifeTypeOK
<1>1. BadgeInv => LifeTypeOK  BY DEF BadgeInv
<1>2. QED  BY InitBadge, NextBadge, <1>1, PTL DEF LifeSpec

\* The reconnecting badge always has a cause, however many loops are started,
\* replaced and cancelled (handleLinkLost, handleReconnect, Camera.Reconnect).
THEOREM BadgeIsHonest == LifeSpec => []BadgeHasCause
<1>1. BadgeInv => BadgeHasCause  BY DEF BadgeInv
<1>2. QED  BY InitBadge, NextBadge, <1>1, PTL DEF LifeSpec

\* Between the two halves of Reconnect no cancel function is held: the first half took the
\* last one, and only the second stores another.
Vacant == ui = "storeLoop" => reconnectCtx = 0

\* What may change the cancel function that is held
LEMMA HolderChanges ==
  ASSUME [LifeNext]_lifeVars
  PROVE  \/ UNCHANGED <<reconnectCtx, ui>>
         \/ UNCHANGED reconnectCtx /\ ui' # "storeLoop"
         \/ UNCHANGED ui /\ \E j \in Loops : LoopExits(j)
         \/ CancelReconnect
         \/ ui = "storeLoop" /\ ui' = "ready"
<1>1. ASSUME NEW i \in Loops, LoopStep(i)
      PROVE  UNCHANGED <<reconnectCtx, ui>> \/ (UNCHANGED ui /\ LoopExits(i))
  BY <1>1 DEF LoopStep, LoopCancelled, LoopWakes, LoopConnects, LoopFails, LoopDrops, LoopRetries,
     LoopStopsKeepAlive, LoopStoresKeepAlive, LoopExits, view
<1>2. ASSUME \/ \E k \in Keeps : KeepAliveDrops(k) \/ KeepAliveLeaves(k) \/ KeepAliveRefused(k)
             \/ LinkDies \/ ReaderReports \/ TransactionDrops
             \/ ConnectSucceeds \/ ConnectFails \/ ConnectDrops \/ UNCHANGED lifeVars
      PROVE  UNCHANGED <<reconnectCtx, ui>>
  BY <1>2 DEF KeepAliveDrops, KeepAliveLeaves, KeepAliveRefused, LinkDies, ReaderReports,
     TransactionDrops, ConnectSucceeds, ConnectFails, ConnectDrops, loops, view, lifeVars
<1>3. ASSUME UiConnect \/ UiDetect \/ UiDiscovered \/ UiRefreshFailed
             \/ UiConnectFailed \/ \E i \in Loops : UiReconnectState(i)
      PROVE  UNCHANGED <<reconnectCtx, ui>>
  BY <1>3 DEF UiConnect, UiDetect, UiDiscovered, UiRefreshFailed, UiConnectFailed,
     UiReconnectState, loops, view
<1>4. ASSUME UiConnected \/ UiStoresKeepAlive
      PROVE  UNCHANGED reconnectCtx /\ ui' # "storeLoop"
  BY <1>4 DEF UiConnected, UiStoresKeepAlive, loops
<1>5. ASSUME UiSwitchCamera PROVE UNCHANGED <<reconnectCtx, ui>> \/ CancelReconnect
  BY <1>5 DEF UiSwitchCamera
<1>6. ASSUME UiLinkLost PROVE UNCHANGED <<reconnectCtx, ui>> \/ CancelReconnect
  BY <1>6 DEF UiLinkLost
<1>7. ASSUME UiStoresLoop PROVE ui = "storeLoop" /\ ui' = "ready"
  BY <1>7 DEF UiStoresLoop
<1>8. QED  BY <1>1, <1>2, <1>3, <1>4, <1>5, <1>6, <1>7 DEF LifeNext, UiStep

\* A reconnect loop with attempts before it stays in reach of the camera until it is
\* cancelled, unless the cleanup of another loop forgets it, however many losses are handled
\* and however often the user disconnects (Reconnect, cancelReconnect).
THEOREM LoopsStayInReach == LifeSpec => LoopKept
<1> DEFINE Kept == \A i \in Loops : reconnectCtx = i /\ reconnectCtx' # i /\ AtWork(i) =>
                     i \in cancelled' \/ \E j \in Loops \ {i} : LoopExits(j)
<1>1. LifeInit => Vacant  BY DEF LifeInit, Vacant
<1>2. ASSUME Vacant, [LifeNext]_lifeVars PROVE Vacant'
  <2>1. (\E j \in Loops : LoopExits(j)) => reconnectCtx' = 0
    BY DEF LoopExits
  <2>2. QED  BY <1>2, <2>1, HolderChanges DEF Vacant, CancelReconnect
<1>3. ASSUME Vacant, [LifeNext]_lifeVars PROVE Kept
  <2> SUFFICES ASSUME NEW i \in Loops, reconnectCtx = i, reconnectCtx' # i, AtWork(i)
               PROVE  i \in cancelled' \/ \E j \in Loops \ {i} : LoopExits(j)
    OBVIOUS
  <2>1. ~LoopExits(i)  BY DEF LoopExits, Step, AtWork
  <2>2. i # 0  BY DEF Loops
  <2>3. QED  BY <1>3, <2>1, <2>2, HolderChanges DEF Vacant, CancelReconnect
<1>4. LifeSpec => [][Kept]_lifeVars
  <2>1. Vacant /\ [LifeNext]_lifeVars => [Kept]_lifeVars  BY <1>3
  <2> HIDE DEF Kept
  <2>2. QED  BY <1>1, <1>2, <2>1, PTL DEF LifeSpec
<1>5. QED  BY <1>4 DEF LoopKept
=============================================================================
