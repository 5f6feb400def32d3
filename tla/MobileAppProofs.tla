-------------------------- MODULE MobileAppProofs --------------------------
(***************************************************************************)
(* Proofs about the mobile application. MobileStore, for any number of     *)
(* connections, attempts, calls and disconnects: the flags of the store    *)
(* always have a call in flight that will reset them, and a connected      *)
(* application keeps the link alive. Plugin, for any set of connections and*)
(* any number of joins.                                                    *)
(*                                                                         *)
(* The modules share no variable; each theorem is about one of them.       *)
(***************************************************************************)
EXTENDS MobileStore, Plugin, TLAPS

-----------------------------------------------------------------------------
(* MobileStore *)

(* No loop has a generation that is still to come. *)
NoneAhead == \A g \in Gens : g > generation => loop[g] = "none"

(* A disconnect waits for one close. *)
OneClose ==
  \A d \in Offs, c \in Clients :
    <<c, d>> \in closing => /\ off[d] = "closing"
                           /\ \A e \in Clients : <<e, d>> \in closing => e = c

StoreInv == TypeOK /\ FlagsHaveCause /\ KeptAlive

Kinds    == {"none", "list", "watch", "marked", "import"}
LoopPcs  == {"none", "sleep", "try", "over"}
Pcs      == {"idle", "dial", "greet", "list"}
Shapes   == /\ attempt \in [Attempts -> [pc : Pcs, for : {0} \cup Gens, on : {0} \cup Clients]]
            /\ call \in [Calls -> [kind : Kinds, on : {0} \cup Clients]]
            /\ loop \in [Gens -> LoopPcs]
            /\ generation \in 0..MaxGen

LEMMA Shape == TypeOK => Shapes
  BY DEF TypeOK, Shapes, Kinds, LoopPcs, Pcs

LEMMA InitStore == Init => StoreInv
<1> SUFFICES ASSUME Init PROVE StoreInv
  OBVIOUS
<1> USE StoreAssumption
<1>1. TypeOK
  <2>1. attempt \in [Attempts -> [pc : {"idle", "dial", "greet", "list"},
                                  for : {0} \cup Gens, on : {0} \cup Clients]]
    BY DEF Init, Idle
  <2>2. call \in [Calls -> [kind : {"none", "list", "watch", "marked", "import"},
                            on : {0} \cup Clients]]
    BY DEF Init, NoCall
  <2>3. generation \in 0..MaxGen
    BY DEF Init
  <2>4. /\ off \in [Offs -> {"none", "closing", "leaving", "done"}]
        /\ link \in [Clients -> {"new", "up", "down", "closed"}]
        /\ loop \in [Gens -> {"none", "sleep", "try", "over"}]
    BY DEF Init
  <2>5. QED  BY <2>1, <2>2, <2>3, <2>4 DEF Init, TypeOK
<1>2. FlagsHaveCause /\ KeptAlive
  BY DEF Init, FlagsHaveCause, Looping, KeptAlive
<1>3. QED  BY <1>1, <1>2 DEF StoreInv

-----------------------------------------------------------------------------
(* The pieces that several actions share *)

\* A call is put in its place and the others stay.
LEMMA Occupied ==
  ASSUME TypeOK, NEW s \in Calls, NEW kind \in Kinds, NEW on \in {0} \cup Clients,
         Occupy(s, kind, on)
  PROVE  /\ call' \in [Calls -> [kind : Kinds, on : {0} \cup Clients]]
         /\ call'[s].kind = kind
         /\ \A t \in Calls \ {s} : call'[t] = call[t]
  BY Shape DEF Occupy, Shapes

\* CameraService.disconnect keeps its types.
LEMMA CloseTypes ==
  ASSUME TypeOK, NEW heard \in SUBSET Clients, NEW who \in {0} \cup Offs, CloseClient(who, heard)
  PROVE  mute' \subseteq Clients /\ closing' \subseteq Clients \X ({0} \cup Offs)
  BY DEF CloseClient, TypeOK

\* What the signal of a loss may change.
LEMMA Signal ==
  ASSUME TypeOK, NEW heard \in SUBSET Clients, OnDisconnected(heard)
  PROVE  /\ mute' \subseteq Clients /\ closing' \subseteq Clients \X ({0} \cup Offs)
         /\ keepAliveTimer' \in BOOLEAN /\ stray' = stray
         /\ connected' \in BOOLEAN /\ connecting' \in BOOLEAN /\ reconnecting' \in BOOLEAN
         /\ generation' \in 0..MaxGen /\ loop' \in [Gens -> LoopPcs]
         /\ connecting' => connecting
         /\ connected' => connected /\ keepAliveTimer' = keepAliveTimer
         /\ \/ UNCHANGED <<reconnecting, generation, loop>>
            \/ /\ generation' \in Gens /\ loop'[generation'] = "sleep" /\ reconnecting' = TRUE
               /\ generation' = generation + 1
               /\ \A g \in Gens : g # generation' => loop'[g] = loop[g]
<1>1. CASE ~connected \/ reconnecting
  BY <1>1, Shape DEF OnDisconnected, TearDown, NotLost, timers, TypeOK, Shapes
<1>2. CASE connected /\ ~reconnecting
  <2>1. mute' \subseteq Clients /\ closing' \subseteq Clients \X ({0} \cup Offs)
    BY <1>2, CloseTypes DEF OnDisconnected, TearDown
  <2>2. connected' = FALSE /\ keepAliveTimer' = FALSE /\ stray' = stray
    BY <1>2 DEF OnDisconnected, TearDown
  <2>3. CASE UNCHANGED <<generation, loop, reconnecting, connecting>>
    BY <2>1, <2>2, <2>3, Shape DEF TypeOK, Shapes
  <2>4. CASE /\ generation < MaxGen /\ generation' = generation + 1
             /\ loop' = [loop EXCEPT ![generation + 1] = "sleep"]
             /\ reconnecting' = TRUE /\ connecting' = FALSE
    <3>1. generation + 1 \in Gens /\ generation' \in 0..MaxGen
      BY <2>4, Shape, StoreAssumption DEF Shapes, Gens
    <3>2. loop' \in [Gens -> LoopPcs] /\ loop'[generation + 1] = "sleep"
         /\ \A g \in Gens : g # generation' => loop'[g] = loop[g]
      BY <2>4, <3>1, Shape DEF Shapes, LoopPcs
    <3>3. QED  BY <2>1, <2>2, <2>4, <3>1, <3>2
  <2>5. QED  BY <1>2, <2>3, <2>4 DEF OnDisconnected, TearDown, NotLost
<1>3. QED  BY <1>1, <1>2 DEF TypeOK

\* A signal, whoever delivers it, keeps the invariant when it leaves attempts,
\* calls and disconnects alone.
LEMMA SignalKeeps ==
  ASSUME StoreInv, NEW heard \in SUBSET Clients, OnDisconnected(heard),
         UNCHANGED <<importing, loadingPhotos, attempt, off, client, link, call, jammed, threw>>,
         pings' \subseteq Clients
  PROVE  StoreInv'
<1> USE DEF StoreInv
<1>1. TypeOK'
  BY Signal DEF TypeOK, LoopPcs
<1>2. FlagsHaveCause'
  BY Signal DEF FlagsHaveCause, Looping
<1>3. KeptAlive'
  BY Signal DEF KeptAlive
<1>4. QED  BY <1>1, <1>2, <1>3

-----------------------------------------------------------------------------
(* The actions *)

\* A new attempt: connecting has its cause.
LEMMA Begun ==
  ASSUME TypeOK, NEW a \in FreeAttempts, NEW g \in {0} \cup Gens, Begin(a, g)
  PROVE  /\ connecting' = TRUE /\ ~connected /\ ~connecting
         /\ attempt' \in [Attempts -> [pc : Pcs, for : {0} \cup Gens, on : {0} \cup Clients]]
         /\ a \in Attempts /\ attempt'[a].pc = "dial" /\ attempt[a].pc = "idle"
         /\ \A b \in Attempts \ {a} : attempt'[b] = attempt[b]
  BY Shape DEF Begin, FreeAttempts, Shapes, Pcs

LEMMA AttemptKeeps ==
  ASSUME StoreInv, NEW a \in Attempts, AttemptSteps(a)
  PROVE  StoreInv'
<1> USE DEF StoreInv
<1>s. Shapes  BY Shape
<1>1. CASE AttemptFails(a)
  <2>1. /\ attempt' \in [Attempts -> [pc : Pcs, for : {0} \cup Gens, on : {0} \cup Clients]]
        /\ attempt[a].pc = "dial" /\ attempt'[a].pc = "idle"
        /\ \A b \in Attempts \ {a} : attempt'[b] = attempt[b]
    BY <1>1, <1>s DEF AttemptFails, Shapes, Idle, Pcs
  <2>2. TypeOK'
    BY <1>1, <2>1 DEF AttemptFails, TypeOK, timers, camera, work, Pcs
  <2>3. FlagsHaveCause' /\ KeptAlive'
    BY <1>1, <2>1 DEF AttemptFails, FlagsHaveCause, Looping, KeptAlive, timers, camera, work
  <2>4. QED  BY <2>2, <2>3
<1>2. CASE Connects(a)
  <2>1. /\ attempt' \in [Attempts -> [pc : Pcs, for : {0} \cup Gens, on : {0} \cup Clients]]
        /\ attempt[a].pc = "dial" /\ attempt'[a].pc = "greet"
        /\ \A b \in Attempts \ {a} : attempt'[b] = attempt[b]
    BY <1>2, <1>s DEF Connects, Shapes, Pcs
  <2>2. /\ client' \in Clients /\ link' \in [Clients -> {"new", "up", "down", "closed"}]
        /\ mute' \subseteq Clients
    BY <1>2 DEF Connects, First, New, TypeOK
  <2>3. TypeOK'
    BY <1>2, <2>1, <2>2 DEF Connects, TypeOK, timers, work, Pcs
  <2>4. FlagsHaveCause' /\ KeptAlive'
    BY <1>2, <2>1 DEF Connects, FlagsHaveCause, Looping, KeptAlive, timers, work
  <2>5. QED  BY <2>3, <2>4
<1>3. CASE Greeted(a)
  <2>1. /\ attempt' \in [Attempts -> [pc : Pcs, for : {0} \cup Gens, on : {0} \cup Clients]]
        /\ attempt[a].pc = "greet" /\ attempt'[a].pc = "list" /\ attempt'[a].on = client
        /\ \A b \in Attempts \ {a} : attempt'[b] = attempt[b]
    BY <1>3, <1>s DEF Greeted, Shapes, Pcs, TypeOK
  <2>2. TypeOK'
    BY <1>3, <2>1 DEF Greeted, TypeOK, camera, work, Pcs
  <2>3. FlagsHaveCause' /\ KeptAlive'
    BY <1>3, <2>1 DEF Greeted, FlagsHaveCause, Looping, KeptAlive, camera, work
  <2>4. QED  BY <2>2, <2>3
<1>4. CASE Listed(a)
  <2>1. /\ attempt' \in [Attempts -> [pc : Pcs, for : {0} \cup Gens, on : {0} \cup Clients]]
        /\ attempt[a].pc = "list" /\ attempt'[a].pc = "idle"
        /\ \A b \in Attempts \ {a} : attempt'[b] = attempt[b]
    BY <1>4, <1>s DEF Listed, Shapes, Idle, Pcs
  <2>2. /\ call' \in [Calls -> [kind : Kinds, on : {0} \cup Clients]]
        /\ \A t \in Calls : call[t].kind # "none" => call'[t] = call[t]
    <3>1. CASE call' = call  BY <3>1, <1>s DEF Shapes
    <3>2. CASE \E t \in First(FreeCalls) : Occupy(t, "marked", client)
      <4>1. PICK t \in Calls : call[t].kind = "none" /\ Occupy(t, "marked", client)
        BY <3>2 DEF First, FreeCalls
      <4>2. client \in {0} \cup Clients /\ "marked" \in Kinds
        BY DEF TypeOK, Kinds
      <4>3. QED  BY <4>1, <4>2, Occupied
    <3>3. QED  BY <1>4, <3>1, <3>2 DEF Listed
  <2>3. TypeOK'
    BY <1>4, <2>1, <2>2 DEF Listed, TypeOK, timers, camera, Pcs, Kinds
  <2>4. FlagsHaveCause'
    BY <1>4, <2>1, <2>2 DEF Listed, FlagsHaveCause, Looping, timers, camera
  <2>5. KeptAlive'
    BY <1>4, <2>1 DEF Listed, KeptAlive, timers
  <2>6. QED  BY <2>3, <2>4, <2>5
<1>5. QED  BY <1>1, <1>2, <1>3, <1>4 DEF AttemptSteps

LEMMA LoopKeeps ==
  ASSUME StoreInv, NEW g \in Gens, LoopSteps(g)
  PROVE  StoreInv'
<1> USE DEF StoreInv
<1>s. Shapes  BY Shape
<1>1. CASE loop[g] \in {"sleep", "try"} /\ AfterAttempt(g)
           /\ UNCHANGED <<connected, importing, loadingPhotos, timers,
                          generation, attempt, off, camera, work>>
  <2>1. loop' \in [Gens -> LoopPcs] /\ connecting' \in BOOLEAN /\ reconnecting' \in BOOLEAN
    BY <1>1, <1>s DEF AfterAttempt, Shapes, LoopPcs, TypeOK
  <2>2. TypeOK'
    BY <1>1, <2>1 DEF TypeOK, timers, camera, work, LoopPcs
  <2>3. FlagsHaveCause'
    <3>1. \A h \in Gens : h # g => loop'[h] = loop[h]
      BY <1>1, <1>s DEF AfterAttempt, Shapes
    <3>2. (\E h \in Gens : Looping(h))' => reconnecting' \/ \E d \in Offs : off'[d] = "done"
      <4>1. CASE g # generation
        BY <1>1, <3>1, <4>1, <1>s DEF AfterAttempt, FlagsHaveCause, Looping, Shapes
      <4>2. CASE g = generation /\ connected
        BY <1>1, <3>1, <4>2, <1>s DEF AfterAttempt, Looping, Shapes
      <4>3. CASE g = generation /\ ~connected
        BY <1>1, <4>3 DEF AfterAttempt, FlagsHaveCause, Looping
      <4>4. QED  BY <4>1, <4>2, <4>3
    <3>3. reconnecting' => \E h \in Gens : Looping(h)'
      BY <1>1, <3>1, <1>s DEF AfterAttempt, FlagsHaveCause, Looping, Shapes
    <3>4. QED  BY <1>1, <3>2, <3>3 DEF AfterAttempt, FlagsHaveCause, work
  <2>4. KeptAlive'
    BY <1>1 DEF KeptAlive, timers
  <2>5. QED  BY <2>2, <2>3, <2>4
<1>2. CASE /\ loop[g] = "sleep" /\ g = generation /\ \E a \in First(FreeAttempts) : Begin(a, g)
           /\ loop' = [loop EXCEPT ![g] = "try"] /\ UNCHANGED reconnecting
           /\ UNCHANGED <<connected, importing, loadingPhotos, timers, generation, off,
                          camera, work>>
  <2>1. PICK a \in FreeAttempts : Begin(a, g)
    BY <1>2 DEF First
  <2>2. loop' \in [Gens -> LoopPcs] /\ loop'[g] = "try"
    BY <1>2, <1>s DEF Shapes, LoopPcs
  <2>3. TypeOK'
    BY <1>2, <2>1, <2>2, Begun DEF TypeOK, timers, camera, work, LoopPcs, Pcs
  <2>4. FlagsHaveCause' /\ KeptAlive'
    BY <1>2, <2>1, <2>2, Begun DEF FlagsHaveCause, Looping, KeptAlive, timers, work
  <2>5. QED  BY <2>3, <2>4
<1>3. QED  BY <1>1, <1>2 DEF LoopSteps, Wakes, Resumes

LEMMA ClientKeeps ==
  ASSUME StoreInv, OneClose, NEW c \in Clients, ClientSteps(c)
  PROVE  StoreInv'
<1> USE DEF StoreInv
<1>m. mute \cup {c} \in SUBSET Clients /\ mute \in SUBSET Clients /\ pings \ {c} \subseteq Clients
      /\ pings \subseteq Clients
  BY DEF TypeOK
<1>1. CASE SocketError(c)
  BY <1>1, <1>m, SignalKeeps DEF SocketError, work
<1>2. CASE TransactionFails(c)
  BY <1>2, <1>m, SignalKeeps DEF TransactionFails, work
<1>3. CASE PingFails(c)
  <2> DEFINE heard == IF link[c] = "up" THEN mute ELSE mute \cup {c}
  <2>1. heard \in SUBSET Clients  BY <1>m
  <2>2. QED  BY <1>3, <1>m, <2>1, SignalKeeps DEF PingFails
<1>4. CASE PingAnswered(c)
  BY <1>4, <1>m DEF PingAnswered, TypeOK, FlagsHaveCause, Looping, KeptAlive, flags, timers, tasks, camera
<1>5. CASE Drops(c)
  <2>1. link' \in [Clients -> {"new", "up", "down", "closed"}]
    BY <1>5 DEF Drops, TypeOK
  <2>2. QED
    BY <1>5, <2>1 DEF Drops, TypeOK, FlagsHaveCause, Looping, KeptAlive, flags, timers, tasks, work
<1>6. ASSUME NEW who \in {0} \cup Offs, Closed(c, who) PROVE StoreInv'
  <2>1. link' \in [Clients -> {"new", "up", "down", "closed"}]
    BY <1>6 DEF Closed, TypeOK
  <2>2. /\ off' \in [Offs -> {"none", "closing", "leaving", "done"}]
        /\ \A d \in Offs : off[d] \in {"closing", "leaving"} => off'[d] \in {"closing", "leaving"}
        /\ \A d \in Offs : off[d] = "done" => off'[d] = "done"
    BY <1>6 DEF Closed, TypeOK, OneClose
  <2>3. TypeOK'
    BY <1>6, <2>1, <2>2 DEF Closed, TypeOK, flags, timers, work
  <2>4. FlagsHaveCause' /\ KeptAlive'
    BY <1>6, <2>2 DEF Closed, FlagsHaveCause, Looping, KeptAlive, flags, timers, work
  <2>5. QED  BY <2>3, <2>4
<1>8. CASE Jams(c)
  <2>1. jammed' \subseteq Clients  BY <1>8 DEF Jams, TypeOK
  <2>2. QED
    BY <1>8, <2>1 DEF Jams, TypeOK, FlagsHaveCause, Looping, KeptAlive, flags, timers, tasks, camera
<1>7. QED  BY <1>1, <1>2, <1>3, <1>4, <1>5, <1>6, <1>8 DEF ClientSteps

\* A listing or an import that starts.
LEMMA StartKeeps ==
  ASSUME StoreInv, NEW s \in Calls, call[s].kind = "none",
         NEW kind \in {"list", "watch", "import"}, Occupy(s, kind, client),
         loadingPhotos' = (loadingPhotos \/ kind # "import"),
         importing' = (importing \/ kind = "import"),
         UNCHANGED <<connected, connecting, reconnecting, timers, tasks, camera, pings, jammed, threw>>
  PROVE  StoreInv'
<1> USE DEF StoreInv
<1>1. kind \in Kinds /\ client \in {0} \cup Clients
  BY DEF Kinds, TypeOK
<1>2. /\ call' \in [Calls -> [kind : Kinds, on : {0} \cup Clients]]
      /\ call'[s].kind = kind
      /\ \A t \in Calls : call[t].kind # "none" => call'[t] = call[t]
  BY <1>1, Occupied
<1>3. TypeOK'
  BY <1>2 DEF TypeOK, timers, tasks, camera, Kinds
<1>4. FlagsHaveCause'
  BY <1>2 DEF FlagsHaveCause, Looping, tasks, camera
<1>5. KeptAlive'
  BY DEF KeptAlive, timers, tasks
<1>6. QED  BY <1>3, <1>4, <1>5

LEMMA UserKeeps ==
  ASSUME StoreInv, NoneAhead, UserSteps
  PROVE  StoreInv'
<1> USE DEF StoreInv
<1>1. CASE UserConnects
  <2>1. PICK a \in FreeAttempts : Begin(a, 0)
    BY <1>1 DEF UserConnects, First
  <2>2. TypeOK'
    BY <1>1, <2>1, Begun DEF UserConnects, TypeOK, timers, camera, work, Pcs
  <2>3. FlagsHaveCause' /\ KeptAlive'
    BY <1>1, <2>1, Begun DEF UserConnects, FlagsHaveCause, Looping, KeptAlive, timers, work
  <2>4. QED  BY <2>2, <2>3
<1>2. CASE Refresh
  <2>1. PICK s \in Calls : call[s].kind = "none" /\ Occupy(s, "list", client)
    BY <1>2 DEF Refresh, First, FreeCalls
  <2>2. /\ loadingPhotos' = (loadingPhotos \/ "list" # "import")
        /\ importing' = (importing \/ "list" = "import")
    BY <1>2 DEF Refresh, TypeOK
  <2>3. QED  BY <1>2, <2>1, <2>2, StartKeeps DEF Refresh
<1>3. CASE Watch
  <2>1. PICK s \in Calls : call[s].kind = "none" /\ Occupy(s, "watch", client)
    BY <1>3 DEF Watch, First, FreeCalls
  <2>2. /\ loadingPhotos' = (loadingPhotos \/ "watch" # "import")
        /\ importing' = (importing \/ "watch" = "import")
    BY <1>3 DEF Watch, TypeOK
  <2>3. QED  BY <1>3, <2>1, <2>2, StartKeeps DEF Watch
<1>4. CASE UserImports
  <2>1. PICK s \in Calls : call[s].kind = "none" /\ Occupy(s, "import", client)
    BY <1>4 DEF UserImports, First, FreeCalls
  <2>2. /\ loadingPhotos' = (loadingPhotos \/ "import" # "import")
        /\ importing' = (importing \/ "import" = "import")
    BY <1>4 DEF UserImports, TypeOK
  <2>3. QED  BY <1>4, <2>1, <2>2, StartKeeps DEF UserImports
<1>5. ASSUME NEW d \in Offs, Disconnect(d) PROVE StoreInv'
  <2>1. /\ off' \in [Offs -> {"none", "closing", "leaving", "done"}]
        /\ off'[d] \in {"closing", "leaving"}
    BY <1>5 DEF Disconnect, TypeOK
  <2>2. mute' \subseteq Clients /\ closing' \subseteq Clients \X ({0} \cup Offs)
    <3>1. mute \in SUBSET Clients  BY DEF TypeOK
    <3>2. QED  BY <1>5, <3>1, CloseTypes DEF Disconnect
  <2>3. generation' \in 0..MaxGen
    BY <1>5, StoreAssumption DEF Disconnect, TypeOK
  <2>4. TypeOK'
    BY <1>5, <2>1, <2>2, <2>3 DEF Disconnect, TypeOK, work
  <2>6. \A g \in Gens : ~Looping(g)'
    BY <1>5, Shape DEF Disconnect, NoneAhead, Looping, Shapes, Gens
  <2>5. FlagsHaveCause' /\ KeptAlive'
    BY <1>5, <2>1, <2>6 DEF Disconnect, FlagsHaveCause, KeptAlive, work
  <2>7. QED  BY <2>4, <2>5
<1>6. QED  BY <1>1, <1>2, <1>3, <1>4, <1>5 DEF UserSteps

LEMMA TickKeeps ==
  ASSUME StoreInv, KeepAliveTick
  PROVE  StoreInv'
<1> USE DEF StoreInv
<1>1. CASE client = 0
  <2>1. mute \in SUBSET Clients /\ pings \subseteq Clients  BY DEF TypeOK
  <2>2. QED  BY <1>1, <2>1, SignalKeeps DEF KeepAliveTick
<1>2. CASE client # 0
  <2>1. pings' \subseteq Clients  BY <1>2 DEF KeepAliveTick, TypeOK
  <2>2. UNCHANGED <<flags, timers, tasks, camera, call, jammed, threw>>
    BY <1>2 DEF KeepAliveTick, flags, timers, tasks, camera
  <2>3. QED
    BY <2>1, <2>2 DEF TypeOK, FlagsHaveCause, Looping, KeptAlive, flags, timers, tasks, camera
<1>3. QED  BY <1>1, <1>2

LEMMA CallKeeps ==
  ASSUME StoreInv, NEW s \in Calls, CallEnds(s)
  PROVE  StoreInv'
<1> USE DEF StoreInv
<1>s. Shapes  BY Shape
<1>1. /\ call' \in [Calls -> [kind : Kinds, on : {0} \cup Clients]]
      /\ \A t \in Calls \ {s} : call'[t] = call[t]
      /\ threw' \in BOOLEAN /\ importing' \in BOOLEAN
      /\ \/ UNCHANGED <<importing, threw>> /\ call[s].kind # "import"
         \/ importing' = FALSE
         \/ importing' => threw'
         \/ call'[s].kind = "import"
  <2>1. CASE /\ call' = [call EXCEPT ![s] = NoCall]
             /\ \/ call[s].kind # "import" /\ UNCHANGED <<importing, threw>>
                \/ call[s].kind = "import" /\ importing' = FALSE /\ threw' = FALSE
                \/ call[s].kind = "import" /\ threw' = importing /\ UNCHANGED importing
    <3>1. NoCall \in [kind : Kinds, on : {0} \cup Clients]  BY DEF NoCall, Kinds
    <3>2. call' \in [Calls -> [kind : Kinds, on : {0} \cup Clients]]
      BY <2>1, <3>1, <1>s DEF Shapes
    <3>3. \A t \in Calls \ {s} : call'[t] = call[t]
      BY <2>1, <1>s DEF Shapes
    <3>4. QED  BY <2>1, <3>2, <3>3 DEF TypeOK
  <2>2. CASE Occupy(s, "import", client) /\ importing' = TRUE /\ UNCHANGED threw
    <3>1. "import" \in Kinds /\ client \in {0} \cup Clients  BY DEF Kinds, TypeOK
    <3>2. QED  BY <2>2, <3>1, Occupied DEF TypeOK
  <2>3. QED  BY <2>1, <2>2 DEF CallEnds
<1>2. TypeOK'
  BY <1>1 DEF CallEnds, TypeOK, timers, tasks, camera, Kinds
<1>3. FlagsHaveCause'
  BY <1>1 DEF CallEnds, FlagsHaveCause, Looping, tasks, camera
<1>4. KeptAlive'
  BY DEF CallEnds, KeptAlive, timers, tasks
<1>5. QED  BY <1>2, <1>3, <1>4

LEMMA OffKeeps ==
  ASSUME StoreInv, NEW d \in Offs, Disconnected(d)
  PROVE  StoreInv'
<1>1. off' \in [Offs -> {"none", "closing", "leaving", "done"}]
  BY DEF Disconnected, StoreInv, TypeOK
<1>2. QED
  BY <1>1 DEF Disconnected, StoreInv, TypeOK, FlagsHaveCause, Looping, KeptAlive, camera, work

LEMMA AheadKeeps ==
  ASSUME TypeOK, NoneAhead, Next
  PROVE  NoneAhead'
<1>s. Shapes  BY Shape
<1>n. \A g \in Gens : g \in Nat  BY DEF Gens
<1>1. CASE UNCHANGED <<generation, loop>>
  BY <1>1 DEF NoneAhead
<1>2. ASSUME NEW heard \in SUBSET Clients, OnDisconnected(heard)
      PROVE  NoneAhead'
  <2>1. CASE UNCHANGED <<reconnecting, generation, loop>>
    BY <2>1 DEF NoneAhead
  <2>2. CASE /\ generation' = generation + 1
             /\ \A g \in Gens : g # generation' => loop'[g] = loop[g]
    BY <2>2, <1>s, <1>n DEF NoneAhead, Shapes
  <2>3. QED  BY <1>2, <2>1, <2>2, Signal
<1>3. ASSUME NEW d \in Offs, Disconnect(d) PROVE NoneAhead'
  BY <1>3, <1>s, <1>n DEF Disconnect, NoneAhead, Shapes
<1>4. ASSUME NEW g \in Gens, LoopSteps(g) PROVE NoneAhead'
  <2>1. UNCHANGED generation /\ loop[g] # "none"
    BY <1>4 DEF LoopSteps, Wakes, Resumes
  <2>2. \A h \in Gens : h # g => loop'[h] = loop[h]
    BY <1>4, <1>s DEF LoopSteps, Wakes, Resumes, AfterAttempt, Shapes
  <2>3. QED  BY <2>1, <2>2 DEF NoneAhead
<1>5. ASSUME NEW c \in Clients, ClientSteps(c) PROVE NoneAhead'
  <2>1. mute \cup {c} \in SUBSET Clients /\ mute \in SUBSET Clients  BY DEF TypeOK
  <2>2. CASE SocketError(c) \/ TransactionFails(c)
    BY <2>1, <2>2, <1>2 DEF SocketError, TransactionFails
  <2>3. CASE PingFails(c)
    <3>1. CASE link[c] = "up"  BY <2>1, <2>3, <3>1, <1>2 DEF PingFails
    <3>2. CASE link[c] # "up"  BY <2>1, <2>3, <3>2, <1>2 DEF PingFails
    <3>3. QED  BY <3>1, <3>2
  <2>4. CASE PingAnswered(c) \/ Drops(c) \/ Jams(c) \/ \E who \in {0} \cup Offs : Closed(c, who)
    BY <2>4, <1>1 DEF PingAnswered, Drops, Jams, Closed, tasks
  <2>5. QED  BY <1>5, <2>2, <2>3, <2>4 DEF ClientSteps
<1>6. CASE KeepAliveTick
  <2>1. CASE client = 0
    <3>1. mute \in SUBSET Clients  BY DEF TypeOK
    <3>2. QED  BY <1>6, <2>1, <3>1, <1>2 DEF KeepAliveTick
  <2>2. CASE client # 0  BY <1>6, <2>2, <1>1 DEF KeepAliveTick
  <2>3. QED  BY <2>1, <2>2
<1>7. CASE UserConnects \/ Refresh \/ Watch \/ UserImports
  BY <1>7, <1>1 DEF UserConnects, Refresh, Watch, UserImports, tasks
<1>8. ASSUME NEW a \in Attempts, AttemptSteps(a) PROVE NoneAhead'
  BY <1>8, <1>1 DEF AttemptSteps, AttemptFails, Connects, Greeted, Listed
<1>9. ASSUME NEW s \in Calls, CallEnds(s) PROVE NoneAhead'
  BY <1>9, <1>1 DEF CallEnds, tasks
<1>10. ASSUME NEW d \in Offs, Disconnected(d) PROVE NoneAhead'
  BY <1>10, <1>1 DEF Disconnected
<1>11. QED
  BY <1>3, <1>4, <1>5, <1>6, <1>7, <1>8, <1>9, <1>10 DEF Next, UserSteps

\* A signal adds no close that a disconnect waits for.
LEMMA SignalCloses ==
  ASSUME OneClose, NEW heard, OnDisconnected(heard), UNCHANGED off
  PROVE  OneClose'
<1>0. 0 \notin Offs  BY DEF Offs
<1>1. closing' = closing \/ closing' = closing \cup {<<client, 0>>}
  BY DEF OnDisconnected, NotLost, TearDown, CloseClient
<1>2. \A d \in Offs, c \in Clients : <<c, d>> \in closing' => <<c, d>> \in closing
  BY <1>0, <1>1
<1>3. QED  BY <1>2 DEF OneClose

LEMMA OneCloseKeeps ==
  ASSUME TypeOK, OneClose, Next
  PROVE  OneClose'
<1>1. CASE UNCHANGED <<closing, off>>
  BY <1>1 DEF OneClose
<1>2. ASSUME NEW d \in Offs, Disconnect(d) PROVE OneClose'
  <2>1. /\ off[d] = "none" /\ \A e \in Offs : e # d => off'[e] = off[e]
        /\ \/ closing' = closing
           \/ closing' = closing \cup {<<client, d>>} /\ off'[d] = "closing"
    <3>1. CASE client = 0  BY <1>2, <3>1 DEF Disconnect, CloseClient, TypeOK
    <3>2. CASE client # 0  BY <1>2, <3>2 DEF Disconnect, CloseClient, TypeOK
    <3>3. QED  BY <3>1, <3>2
  <2>2. \A c \in Clients : <<c, d>> \notin closing  BY <2>1 DEF OneClose
  <2>3. \A e \in Offs, c \in Clients :
          <<c, e>> \in closing' => \/ e # d /\ <<c, e>> \in closing
                                   \/ e = d /\ c = client /\ off'[d] = "closing"
    <3> SUFFICES ASSUME NEW e \in Offs, NEW c \in Clients, <<c, e>> \in closing'
                 PROVE  \/ e # d /\ <<c, e>> \in closing
                        \/ e = d /\ c = client /\ off'[d] = "closing"
      OBVIOUS
    <3>1. <<c, e>> = <<client, d>> => c = client /\ e = d
      OBVIOUS
    <3>2. CASE <<c, e>> \in closing  BY <2>2, <3>2
    <3>3. CASE <<c, e>> \notin closing
      <4>1. closing' = closing \cup {<<client, d>>} /\ off'[d] = "closing"  BY <2>1, <3>3
      <4>2. QED  BY <3>1, <3>3, <4>1
    <3>4. QED  BY <3>2, <3>3
  <2>4. ASSUME NEW e \in Offs, NEW c \in Clients, <<c, e>> \in closing'
        PROVE  off'[e] = "closing" /\ \A f \in Clients : <<f, e>> \in closing' => f = c
    BY <2>1, <2>3, <2>4 DEF OneClose
  <2>5. QED  BY <2>4 DEF OneClose
<1>3. ASSUME NEW c \in Clients, NEW who \in {0} \cup Offs, Closed(c, who) PROVE OneClose'
  <2>1. /\ <<c, who>> \in closing /\ closing' = closing \ {<<c, who>>}
        /\ \A e \in Offs : e # who => off'[e] = off[e]
    BY <1>3 DEF Closed, TypeOK
  <2>2. who \in Offs => \A f \in Clients : <<f, who>> \notin closing'
    BY <2>1 DEF OneClose
  <2>3. QED  BY <2>1, <2>2 DEF OneClose
<1>4. ASSUME NEW c \in Clients, ClientSteps(c) PROVE OneClose'
  <2>1. CASE SocketError(c) \/ TransactionFails(c) \/ PingFails(c)
    BY <2>1, SignalCloses DEF SocketError, TransactionFails, PingFails
  <2>2. CASE PingAnswered(c) \/ Drops(c) \/ Jams(c)
    BY <2>2, <1>1 DEF PingAnswered, Drops, Jams, tasks, camera
  <2>3. QED  BY <1>4, <1>3, <2>1, <2>2 DEF ClientSteps
<1>5. CASE KeepAliveTick
  <2>1. CASE client = 0  BY <1>5, <2>1, SignalCloses DEF KeepAliveTick
  <2>2. CASE client # 0  BY <1>5, <2>2, <1>1 DEF KeepAliveTick
  <2>3. QED  BY <2>1, <2>2
<1>6. CASE UserConnects \/ Refresh \/ Watch \/ UserImports
  BY <1>6, <1>1 DEF UserConnects, Refresh, Watch, UserImports, tasks, camera
<1>7. ASSUME NEW a \in Attempts, AttemptSteps(a) PROVE OneClose'
  BY <1>7, <1>1 DEF AttemptSteps, AttemptFails, Connects, Greeted, Listed, camera
<1>8. ASSUME NEW s \in Calls, CallEnds(s) PROVE OneClose'
  BY <1>8, <1>1 DEF CallEnds, tasks, camera
<1>9. ASSUME NEW g \in Gens, LoopSteps(g) PROVE OneClose'
  BY <1>9, <1>1 DEF LoopSteps, Wakes, Resumes, camera
<1>10. ASSUME NEW d \in Offs, Disconnected(d) PROVE OneClose'
  BY <1>10 DEF Disconnected, OneClose, TypeOK, camera
<1>11. QED
  BY <1>2, <1>4, <1>5, <1>6, <1>7, <1>8, <1>9, <1>10 DEF Next, UserSteps

StoreAhead == StoreInv /\ NoneAhead /\ OneClose

LEMMA StoreStep ==
  ASSUME StoreAhead, [Next]_vars
  PROVE  StoreAhead'
<1> USE DEF StoreAhead
<1>1. CASE UNCHANGED vars
  BY <1>1 DEF vars, flags, timers, tasks, camera, work, StoreInv, TypeOK, FlagsHaveCause, Looping,
              KeptAlive, NoneAhead, OneClose
<1>2. CASE Next
  <2>1. StoreInv'
    BY <1>2, UserKeeps, TickKeeps, AttemptKeeps, LoopKeeps, ClientKeeps, CallKeeps, OffKeeps DEF Next
  <2>2. NoneAhead'
    BY <1>2, AheadKeeps DEF StoreInv
  <2>3. OneClose'
    BY <1>2, OneCloseKeeps DEF StoreInv
  <2>4. QED  BY <2>1, <2>2, <2>3
<1>3. QED  BY <1>1, <1>2

LEMMA StoreHolds == Spec => []StoreAhead
<1>1. Init => StoreAhead
  <2>1. Init => NoneAhead /\ OneClose  BY DEF Init, NoneAhead, OneClose
  <2>2. QED  BY <2>1, InitStore DEF StoreAhead
<1>2. QED  BY <1>1, StoreStep, PTL DEF Spec

\* The variables keep their types: no call of connect, disconnect, startReconnect
\* or importPhotos leaves the store in a shape its code does not expect.
THEOREM StoreTypes == Spec => []TypeOK
<1>1. StoreAhead => TypeOK  BY DEF StoreAhead, StoreInv
<1>2. QED  BY <1>1, StoreHolds, PTL

\* No interleaving leaves a flag set that excludes an action (connecting,
\* reconnecting, importing, loadingPhotos) without a call that will reset it.
THEOREM FlagsAreReset == Spec => []FlagsHaveCause
<1>1. StoreAhead => FlagsHaveCause  BY DEF StoreAhead, StoreInv
<1>2. QED  BY <1>1, StoreHolds, PTL

\* A connected application has a keep-alive interval, through which it will
\* notice the loss of its link.
THEOREM LinkIsKeptAlive == Spec => []KeptAlive
<1>1. StoreAhead => KeptAlive  BY DEF StoreAhead, StoreInv
<1>2. QED  BY <1>1, StoreHolds, PTL

-----------------------------------------------------------------------------
(* Plugin *)

(* The race: a path that won has not been published, and nothing is won     *)
(* after a winner was published.                                            *)
Unraced(c) == \A p \in Paths : path[<<c, p>>] = "idle"

OneWin(c) ==
  /\ caller[c] \in {"idle", "direct"} => winner[c] = "none" /\ Unraced(c)
  /\ \A p \in Paths : path[<<c, p>>] = "won" => claimed[c] = p /\ winner[c] = "none"
  /\ winner[c] # "none" => claimed[c] # "none" \/ Unraced(c)

OneWinner == \A c \in Conns : OneWin(c)

(* The life of a connection begins when its caller returns. *)
Alive ==
  \A c \in Conns :
    /\ entry[c] = "none" <=> caller[c] # "resolved"
    /\ entry[c] = "none" <=> reader[c] = "none"
    /\ caller[c] = "resolved" => winner[c] # "none"
    /\ reader[c] \in {"leaving", "over"} => c \in told \cup closed

(* Joins. *)
Joined ==
  /\ held \subseteq {joinCallback, method.releases}
  /\ method.does # "none" => joinCallback = 0
  /\ available.of # 0 => available.of \in granted
  /\ bound # 0 => bound \in granted /\ bound \in (held \ {method.releases}) \cup overtaken

PluginInv == PluginShape /\ OneWinner /\ Alive /\ NothingHeld /\ LossIsTold /\ Joined

LEMMA InitPlugin == PluginInit => PluginInv
  BY DEF PluginInit, PluginInv, PluginShape, OneWinner, OneWin, Unraced, Alive, NothingHeld, LossIsTold,
         Joined, Paths, Joins

-----------------------------------------------------------------------------
(* The three parts change variables of their own, but for Install and       *)
(* Cleanup, by which a connection passes from the race to its life.         *)

(* The two halves of NothingHeld. *)
SocketOwned(c, p) ==
  <<c, p>> \in open => path[<<c, p>>] \in {"claim", "won"} \/ Kept(c, p) \/ Late(c, p)
RequestOwned(c) ==
  c \in asked => \/ path[<<c, "wifi">>] \in {"acquire", "create", "dial", "claim", "won"}
                 \/ Kept(c, "wifi") \/ Late(c, "wifi") \/ c \in forgotten

LEMMA Halves ==
  NothingHeld <=> \A c \in Conns : RequestOwned(c) /\ \A p \in Paths : SocketOwned(c, p)
  BY DEF NothingHeld, SocketOwned, RequestOwned

(* Goes moves one path and leaves the others. *)
LEMMA OneGoes ==
  ASSUME PluginShape, NEW c \in Conns, NEW p \in Paths, NEW from, NEW to, Goes(c, p, from, to)
  PROVE  /\ path[<<c, p>>] = from /\ path'[<<c, p>>] = to
         /\ \A d \in Conns, q \in Paths : d # c \/ q # p => path'[<<d, q>>] = path[<<d, q>>]
<1> DEFINE States == {"idle", "start", "acquire", "create", "dial", "claim", "won", "over"}
<1>1. <<c, p>> \in Conns \X Paths /\ path \in [Conns \X Paths -> States]  BY DEF PluginShape
<1> HIDE DEF States
<1>2. path'[<<c, p>>] = to  BY <1>1 DEF Goes
<1>3. ASSUME NEW d \in Conns, NEW q \in Paths, d # c \/ q # p
      PROVE  path'[<<d, q>>] = path[<<d, q>>]
  <2>1. <<d, q>> # <<c, p>> /\ <<d, q>> \in Conns \X Paths  BY <1>3
  <2>2. QED  BY <1>1, <2>1 DEF Goes
<1>4. QED  BY <1>2, <1>3 DEF Goes

LEMMA RaceKeeps ==
  ASSUME PluginInv, NEW c \in Conns,
         \/ ConnectBound(c) \/ ConnectPlain(c) \/ RequestWifi(c) \/ Acquire(c)
         \/ CreateSocket(c) \/ GiveUp(c)
  PROVE  PluginInv'
<1> USE DEF PluginInv
<1>0. "wifi" \in Paths /\ "plain" \in Paths  BY DEF Paths
<1>1. Joined'
  BY DEF ConnectBound, ConnectPlain, RequestWifi, Acquire, CreateSocket, GiveUp, join, Joined
<1>2. PluginShape'
  BY DEF ConnectBound, ConnectPlain, RequestWifi, Acquire, CreateSocket, GiveUp, Goes, join,
     life, PluginShape, Paths
<1>3. /\ UNCHANGED <<open, claimed, winner, entry, reader, told, closed>>
      /\ \A d \in Conns :
           caller[d] \notin {"idle", "direct"} => caller'[d] \notin {"idle", "direct"}
      /\ \A d \in Conns : caller'[d] = "resolved" <=> caller[d] = "resolved"
      /\ \A d \in Conns : d # c => caller'[d] = caller[d] /\ (d \in asked' <=> d \in asked)
      /\ forgotten \subseteq forgotten'
  BY DEF ConnectBound, ConnectPlain, RequestWifi, Acquire, CreateSocket, GiveUp, life, PluginShape
<1>4. \A d \in Conns, q \in Paths : d # c => path'[<<d, q>>] = path[<<d, q>>]
  <2> SUFFICES ASSUME NEW d \in Conns, NEW q \in Paths, d # c
               PROVE  path'[<<d, q>>] = path[<<d, q>>]
    OBVIOUS
  <2>1. <<d, q>> # <<c, "wifi">> /\ <<d, q>> # <<c, "plain">> /\ <<d, q>> \in Conns \X Paths
    OBVIOUS
  <2>2. QED  BY <2>1 DEF ConnectBound, ConnectPlain, RequestWifi, Acquire, CreateSocket,
                         GiveUp, Goes, PluginShape
<1>5. Alive' /\ LossIsTold'
  BY <1>3 DEF Alive, LossIsTold
<1>6. OneWinner'
  <2>1. ASSUME NEW d \in Conns, d # c
        PROVE  OneWin(d)'
    BY <2>1, <1>3, <1>4 DEF OneWinner, OneWin, Unraced
  <2>2. OneWin(c)'
    <3>0. OneWin(c)  BY DEF OneWinner
    <3>1. CASE ConnectBound(c)
      <4>1. caller'[c] = "racing" /\ winner[c] = "none"
        BY <3>0, <3>1 DEF ConnectBound, OneWin, PluginShape
      <4>2. \A p \in Paths : path'[<<c, p>>] # "won"
        BY <3>1, <1>0 DEF ConnectBound, PluginShape, Paths
      <4>3. QED  BY <4>1, <4>2, <1>3 DEF OneWin
    <3>2. CASE ConnectPlain(c) \/ GiveUp(c)
      BY <3>0, <3>2, <1>3 DEF ConnectPlain, GiveUp, PluginShape, OneWin, Unraced
    <3>3. CASE RequestWifi(c) \/ Acquire(c) \/ CreateSocket(c)
      <4>1. /\ path[<<c, "wifi">>] # "idle" /\ path'[<<c, "wifi">>] # "won" /\ UNCHANGED caller
            /\ path'[<<c, "plain">>] = path[<<c, "plain">>]
        BY <3>3, <1>0, OneGoes DEF RequestWifi, Acquire, CreateSocket
      <4>2. ~Unraced(c)  BY <4>1, <1>0 DEF Unraced
      <4>3. QED  BY <3>0, <4>1, <4>2, <1>3 DEF OneWin, Paths
    <3>4. QED  BY <3>1, <3>2, <3>3
  <2>3. QED  BY <2>1, <2>2 DEF OneWinner
<1>7. NothingHeld'
  <2>1. ASSUME NEW d \in Conns, d # c
        PROVE  RequestOwned(d)' /\ \A p \in Paths : SocketOwned(d, p)'
    BY <2>1, <1>0, <1>3, <1>4, Halves DEF RequestOwned, SocketOwned, Kept, Late
  <2>2. ASSUME NEW p \in Paths
        PROVE  SocketOwned(c, p)' /\ RequestOwned(c)'
    <3>0. SocketOwned(c, p) /\ RequestOwned(c)  BY Halves
    <3>1. CASE ConnectBound(c)
      BY <3>0, <3>1, <1>0, <1>3 DEF ConnectBound, PluginShape, OneWinner, OneWin, Unraced,
                                    RequestOwned, SocketOwned, Kept, Late
    <3>2. CASE ConnectPlain(c) \/ GiveUp(c)
      BY <3>0, <3>2, <1>3 DEF ConnectPlain, GiveUp, PluginShape, OneWinner, OneWin, Unraced,
                              RequestOwned, SocketOwned, Kept, Late
    <3>3. CASE RequestWifi(c)
      BY <3>0, <3>3, <1>0, <1>3, OneGoes DEF RequestWifi, PluginShape, OneWinner, OneWin, Unraced,
         RequestOwned, SocketOwned, Kept, Late
    <3>4. CASE Acquire(c)
      BY <3>0, <3>4, <1>0, <1>3, OneGoes DEF Acquire, PluginShape, OneWinner, OneWin, Unraced,
         RequestOwned, SocketOwned, Kept, Late
    <3>5. CASE CreateSocket(c)
      BY <3>0, <3>5, <1>0, <1>3, OneGoes DEF CreateSocket, PluginShape, OneWinner, OneWin, Unraced,
         RequestOwned, SocketOwned, Kept, Late
    <3>6. QED  BY <3>1, <3>2, <3>3, <3>4, <3>5
  <2>3. \A d \in Conns : RequestOwned(d)' /\ \A p \in Paths : SocketOwned(d, p)'
    BY <2>1, <2>2, <1>0
  <2>4. QED  BY <2>3 DEF NothingHeld, RequestOwned, SocketOwned
<1>8. QED  BY <1>1, <1>2, <1>5, <1>6, <1>7

LEMMA PathKeeps ==
  ASSUME PluginInv, NEW c \in Conns, NEW p \in Paths, PathSteps(c, p)
  PROVE  PluginInv'
<1> USE DEF PluginInv
<1>1. /\ UNCHANGED <<caller, forgotten, entry, reader, told, closed>>
      /\ UNCHANGED join
  BY DEF PathSteps, DialFails, Dials, TryClaim, Publish, life
<1>2. PluginShape'
  BY DEF PathSteps, DialFails, Dials, TryClaim, Publish, Goes, life, join, PluginShape, Paths
<1>3. /\ \A d \in Conns, q \in Paths : d # c \/ q # p => path'[<<d, q>>] = path[<<d, q>>]
      /\ \A d \in Conns : d # c => claimed'[d] = claimed[d] /\ winner'[d] = winner[d]
      /\ \A d \in Conns : d # c => (d \in asked' <=> d \in asked)
      /\ \A d \in Conns, q \in Paths :
           d # c \/ q # p => (<<d, q>> \in open' <=> <<d, q>> \in open)
  <2>0. \A d \in Conns, q \in Paths : <<d, q>> = <<c, p>> <=> d = c /\ q = p  OBVIOUS
  <2>1. CASE DialFails(c, p)  BY <2>1, OneGoes DEF DialFails
  <2>2. CASE Dials(c, p)
    <3>1. /\ Goes(c, p, "dial", "claim") /\ open' = open \cup {<<c, p>>}
          /\ UNCHANGED <<claimed, winner, asked>>
      BY <2>2 DEF Dials
    <3>2. \A d \in Conns, q \in Paths :
           d # c \/ q # p => (<<d, q>> \in open' <=> <<d, q>> \in open)
      BY <2>0, <3>1
    <3>3. QED  BY <3>1, <3>2, OneGoes
  <2>3. CASE TryClaim(c, p)
    <3>1. /\ open' \in {open, open \ {<<c, p>>}} /\ asked' \in {asked, asked \ {c}}
          /\ claimed' \in {claimed, [claimed EXCEPT ![c] = p]} /\ UNCHANGED winner
      BY <2>3 DEF TryClaim
    <3>2. \A d \in Conns, q \in Paths : d # c \/ q # p => path'[<<d, q>>] = path[<<d, q>>]
      BY <2>3, OneGoes DEF TryClaim
    <3>3. \A d \in Conns, q \in Paths :
           d # c \/ q # p => (<<d, q>> \in open' <=> <<d, q>> \in open)
      BY <2>0, <3>1
    <3>4. \A d \in Conns : d # c => claimed'[d] = claimed[d] /\ winner'[d] = winner[d]
      BY <3>1 DEF PluginShape
    <3>5. \A d \in Conns : d # c => (d \in asked' <=> d \in asked)
      BY <3>1
    <3>6. QED  BY <3>2, <3>3, <3>4, <3>5
  <2>4. CASE Publish(c, p)
    <3>1. \A d \in Conns : d # c => claimed'[d] = claimed[d] /\ winner'[d] = winner[d]
      BY <2>4 DEF Publish, PluginShape
    <3>2. Goes(c, p, "won", "over") /\ UNCHANGED <<open, asked>>  BY <2>4 DEF Publish
    <3>3. QED  BY <3>1, <3>2, OneGoes
  <2>5. QED  BY <2>1, <2>2, <2>3, <2>4 DEF PathSteps
<1>4. path[<<c, p>>] # "idle" /\ caller[c] \notin {"idle", "direct"}
  BY OneGoes DEF PathSteps, DialFails, Dials, TryClaim, Publish, Goes, OneWinner, OneWin,
                 Unraced
<1>5. /\ path[<<c, p>>] # "won" => UNCHANGED winner
      /\ path[<<c, p>>] = "won" => winner[c] = "none" /\ winner'[c] = p
  BY OneGoes DEF PathSteps, DialFails, Dials, TryClaim, Publish, OneWinner, OneWin, PluginShape
<1>10. OneWinner'
  <2>1. ASSUME NEW d \in Conns, d # c
        PROVE  OneWin(d)'
    BY <2>1, <1>1, <1>3 DEF OneWinner, OneWin, Unraced
  <2>2. OneWin(c)'
    <3>0. OneWin(c) /\ ~Unraced(c)  BY <1>4 DEF OneWinner, OneWin, Unraced, Unraced
    <3>1. CASE DialFails(c, p) \/ Dials(c, p)
      <4>1. path'[<<c, p>>] # "won" /\ UNCHANGED <<claimed, winner>>
        BY <3>1, OneGoes DEF DialFails, Dials
      <4>2. QED  BY <3>0, <4>1, <1>1, <1>3, <1>4 DEF OneWin
    <3>2. CASE TryClaim(c, p) /\ claimed[c] = "none"
      <4>1. path[<<c, p>>] = "claim" /\ claimed'[c] = p /\ UNCHANGED winner
        BY <3>2, OneGoes DEF TryClaim, PluginShape
      <4>2. winner[c] = "none"  BY <3>0, <3>2 DEF OneWin
      <4>3. \A q \in Paths : q # p => path'[<<c, q>>] # "won"
        BY <3>0, <3>2, <1>3 DEF OneWin, Paths
      <4>4. QED  BY <4>1, <4>2, <4>3, <1>1, <1>4 DEF OneWin, Paths
    <3>3. CASE TryClaim(c, p) /\ claimed[c] # "none"
      <4>1. path'[<<c, p>>] = "over" /\ UNCHANGED <<claimed, winner>>
        BY <3>3, OneGoes DEF TryClaim
      <4>2. QED  BY <3>0, <4>1, <1>1, <1>3, <1>4 DEF OneWin
    <3>4. CASE Publish(c, p)
      <4>1. path[<<c, p>>] = "won" /\ path'[<<c, p>>] = "over" /\ UNCHANGED claimed
        BY <3>4, OneGoes DEF Publish
      <4>2. claimed[c] = p  BY <3>0, <4>1 DEF OneWin
      <4>3. \A q \in Paths : q # p => path'[<<c, q>>] # "won"
        BY <3>0, <4>2, <1>3 DEF OneWin
      <4>4. QED  BY <4>1, <4>2, <4>3, <1>1, <1>4 DEF OneWin, Paths
    <3>5. QED  BY <3>1, <3>2, <3>3, <3>4 DEF PathSteps
  <2>3. QED  BY <2>1, <2>2 DEF OneWinner
<1>6. Joined' /\ LossIsTold'
  BY <1>1 DEF join, Joined, LossIsTold
<1>7. Alive'
  BY <1>1, <1>3, <1>5 DEF Alive, PluginShape, Paths
<1>8. NothingHeld'
  <2>0. \A d \in Conns : RequestOwned(d) /\ \A q \in Paths : SocketOwned(d, q)  BY Halves
  <2>1. ASSUME NEW d \in Conns, d # c
        PROVE  RequestOwned(d)' /\ \A q \in Paths : SocketOwned(d, q)'
    BY <2>0, <2>1, <1>1, <1>3 DEF RequestOwned, SocketOwned, Kept, Late, Paths
  <2>2. ASSUME NEW q \in Paths, q # p
        PROVE  SocketOwned(c, q)'
    BY <2>0, <2>2, <1>1, <1>3, <1>5 DEF SocketOwned, Kept, Late, Paths
  <2>3. SocketOwned(c, p)'
    <3>0. SocketOwned(c, p)  BY <2>0
    <3>1. CASE DialFails(c, p)
      BY <3>0, <3>1, <1>1, OneGoes DEF DialFails, SocketOwned, Kept, Late
    <3>2. CASE Dials(c, p)
      BY <3>2, OneGoes DEF Dials, SocketOwned
    <3>3. CASE TryClaim(c, p)
      BY <3>3, OneGoes DEF TryClaim, SocketOwned
    <3>4. CASE Publish(c, p)
      BY <3>4, <1>1, <1>4, <1>5, OneGoes DEF Publish, SocketOwned, Kept, Late, Alive, PluginShape
    <3>5. QED  BY <3>1, <3>2, <3>3, <3>4 DEF PathSteps
  <2>4. RequestOwned(c)'
    <3>0. RequestOwned(c)  BY <2>0
    <3>1. CASE p # "wifi"
      <4>1. path'[<<c, "wifi">>] = path[<<c, "wifi">>]  BY <3>1, <1>3 DEF Paths
      <4>2. c \in asked' => c \in asked
        BY <3>1 DEF PathSteps, DialFails, Dials, TryClaim, Publish
      <4>3. QED  BY <3>0, <4>1, <4>2, <1>1, <1>5 DEF RequestOwned, Kept, Late
    <3>2. CASE p = "wifi"
      <4>1. CASE DialFails(c, p)  BY <3>2, <4>1 DEF DialFails, RequestOwned
      <4>2. CASE Dials(c, p)      BY <3>2, <4>2, OneGoes DEF Dials, RequestOwned
      <4>3. CASE TryClaim(c, p)   BY <3>2, <4>3, OneGoes DEF TryClaim, RequestOwned
      <4>4. CASE Publish(c, p)
        BY <3>2, <4>4, <1>1, <1>4, <1>5, OneGoes DEF Publish, RequestOwned, Kept, Late, Alive,
           PluginShape
      <4>5. QED  BY <4>1, <4>2, <4>3, <4>4 DEF PathSteps
    <3>3. QED  BY <3>1, <3>2
  <2>5. \A d \in Conns : RequestOwned(d)' /\ \A q \in Paths : SocketOwned(d, q)'
    BY <2>1, <2>2, <2>3, <2>4
  <2>6. QED  BY <2>5 DEF NothingHeld, RequestOwned, SocketOwned
<1>9. QED  BY <1>2, <1>6, <1>7, <1>8, <1>10

LEMMA InstallKeeps ==
  ASSUME PluginInv, NEW c \in Conns, DirectEnds(c) \/ Return(c)
  PROVE  PluginInv'
<1> USE DEF PluginInv
<1>1. Joined'
  BY DEF DirectEnds, Return, join, Joined
<1>2. PluginShape'
  BY DEF DirectEnds, Return, Install, join, life, PluginShape, Paths
<1>3. OneWinner' /\ Alive' /\ LossIsTold'
  BY DEF DirectEnds, Return, Install, life, PluginShape, Paths, OneWinner, OneWin, Unraced, Alive,
         LossIsTold
<1>4. NothingHeld'
  <2> SUFFICES ASSUME NEW d \in Conns, NEW q \in Paths
               PROVE  RequestOwned(d)' /\ SocketOwned(d, q)'
    BY DEF NothingHeld, RequestOwned, SocketOwned, Paths
  <2>0. RequestOwned(d) /\ SocketOwned(d, q)  BY Halves
  <2>1. <<d, q>> = <<c, "plain">> <=> d = c /\ q = "plain"  OBVIOUS
  <2>2. CASE DirectEnds(c)
    BY <2>0, <2>1, <2>2 DEF DirectEnds, Install, life, PluginShape, OneWinner, OneWin, Unraced,
                            Alive, RequestOwned, SocketOwned, Kept, Late
  <2>3. CASE Return(c)
    BY <2>0, <2>3 DEF Return, Install, life, PluginShape, Alive, RequestOwned, SocketOwned, Kept,
                      Late
  <2>4. QED  BY <2>2, <2>3
<1>5. QED  BY <1>1, <1>2, <1>3, <1>4

LEMMA LifeKeeps ==
  ASSUME PluginInv, NEW c \in Conns, LifeSteps(c)
  PROVE  PluginInv'
<1> USE DEF PluginInv
<1>1. Joined'
  BY DEF LifeSteps, Close, StreamEnds, ReadFails, TellError, ReaderLeaves, join, Joined
<1>2. PluginShape'
  BY DEF LifeSteps, Close, StreamEnds, ReadFails, TellError, ReaderLeaves, Cleanup, race, join,
         PluginShape, Paths
<1>3. OneWinner'
  BY DEF LifeSteps, Close, StreamEnds, ReadFails, TellError, ReaderLeaves, Cleanup, race,
         OneWinner,
         OneWin, Unraced
<1>4. Alive' /\ LossIsTold'
  BY DEF LifeSteps, Close, StreamEnds, ReadFails, TellError, ReaderLeaves, Cleanup, race,
         PluginShape,
         Alive, LossIsTold
<1>5. NothingHeld'
  <2> SUFFICES ASSUME NEW d \in Conns, NEW q \in Paths
               PROVE  RequestOwned(d)' /\ SocketOwned(d, q)'
    BY DEF NothingHeld, RequestOwned, SocketOwned, Paths
  <2>0. RequestOwned(d) /\ SocketOwned(d, q)  BY Halves
  <2>1. <<d, q>> = <<c, winner[c]>> <=> d = c /\ q = winner[c]  OBVIOUS
  <2>2. CASE UNCHANGED <<race, entry>>
    BY <2>0, <2>2 DEF race, RequestOwned, SocketOwned, Kept, Late
  <2>3. CASE Cleanup(c)
    BY <2>0, <2>1, <2>3 DEF Cleanup, PluginShape, RequestOwned, SocketOwned, Kept, Late
  <2>4. QED  BY <2>2, <2>3 DEF LifeSteps, Close, StreamEnds, ReadFails, TellError, ReaderLeaves
<1>6. QED  BY <1>1, <1>2, <1>3, <1>4, <1>5

LEMMA JoinKeeps ==
  ASSUME PluginInv,
         LeaveWifi \/ Left \/ Bind \/ SettleJoin \/ \E j \in Joins : JoinSteps(j)
  PROVE  PluginInv'
<1> USE DEF PluginInv
<1>1. UNCHANGED <<race, life>>
  BY DEF LeaveWifi, Left, Bind, SettleJoin, JoinSteps, JoinWifi, Requests, OnAvailable,
         OnUnavailable, Release
<1>2. (OneWinner /\ Alive /\ NothingHeld /\ LossIsTold)'
  BY <1>1 DEF race, life, OneWinner, OneWin, Unraced, Alive, NothingHeld, LossIsTold, Kept, Late
<1>3. PluginShape' /\ Joined'
  <2>1. CASE LeaveWifi
    BY <1>1, <2>1 DEF race, life, LeaveWifi, Release, PluginShape, Joined, Joins
  <2>2. CASE Left
    BY <1>1, <2>2 DEF race, life, Left, PluginShape, Joined, Joins
  <2>3. CASE Bind
    BY <1>1, <2>3 DEF race, life, Bind, PluginShape, Joined, Joins
  <2>4. CASE SettleJoin
    BY <1>1, <2>4 DEF race, life, SettleJoin, PluginShape, Joined, Joins
  <2>5. CASE \E j \in Joins : JoinWifi(j)
    BY <1>1, <2>5 DEF race, life, JoinWifi, Release, PluginShape, Joined, Joins
  <2>6. CASE \E j \in Joins : Requests(j)
    <3> PICK j \in Joins : Requests(j)  BY <2>6
    <3>0. method' = [does |-> "none", releases |-> 0] /\ 0 \notin held /\ held \subseteq Joins
      BY DEF Requests, PluginShape, Joins
    <3>1. PluginShape'
      <4>1. /\ joinCallback' \in {0, j} /\ held' \subseteq held \cup {j}
            /\ joinCall' \in {joinCall, [joinCall EXCEPT ![j] = "settled"]}
            /\ UNCHANGED <<bound, granted, available, overtaken>>
        BY DEF Requests
      <4>2. /\ joinCallback' \in {0} \cup Joins /\ held' \subseteq Joins
            /\ joinCall' \in [Joins -> {"none", "pending", "settled"}]
        BY <3>0, <4>1 DEF PluginShape
      <4>3. QED  BY <1>1, <3>0, <4>1, <4>2 DEF race, life, PluginShape
    <3>2. /\ method.does = "joinWifi" /\ joinCallback = 0
          /\ held \ {method.releases} \subseteq {0} /\ 0 \notin held
      BY <3>0 DEF Requests, Joined
    <3>3. /\ held' \subseteq {joinCallback'} /\ method' = [does |-> "none", releases |-> 0]
          /\ held \ {method.releases} \subseteq held' /\ 0 \notin held'
          /\ UNCHANGED <<bound, granted, available, overtaken>>
      BY <3>2 DEF Requests, PluginShape, Joins
    <3>4. Joined'
      BY <3>3 DEF Joined
    <3>5. QED  BY <3>1, <3>4
  <2>7. CASE \E j \in Joins : OnAvailable(j)
    BY <1>1, <2>7 DEF race, life, OnAvailable, PluginShape, Joined, Joins
  <2>8. CASE \E j \in Joins : OnUnavailable(j)
    BY <1>1, <2>8 DEF race, life, OnUnavailable, PluginShape, Joined, Joins
  <2>9. QED  BY <2>1, <2>2, <2>3, <2>4, <2>5, <2>6, <2>7, <2>8 DEF JoinSteps
<1>4. QED  BY <1>2, <1>3

LEMMA PluginStep == PluginInv /\ [PluginNext]_pluginVars => PluginInv'
<1> SUFFICES ASSUME PluginInv, [PluginNext]_pluginVars  PROVE PluginInv'
  OBVIOUS
<1>1. CASE UNCHANGED pluginVars
  BY <1>1 DEF pluginVars, race, life, join, PluginInv, PluginShape, OneWinner, OneWin, Unraced, Alive,
              NothingHeld, LossIsTold, Joined, Kept, Late
<1>2. CASE PluginNext
  BY <1>2, RaceKeeps, PathKeeps, InstallKeeps, LifeKeeps, JoinKeeps DEF PluginNext, CallSteps
<1>3. QED  BY <1>1, <1>2

-----------------------------------------------------------------------------
\* The variables of the plugin keep their types (TcpSocketPlugin.kt).
THEOREM PluginTypes == PluginSpec => []PluginTypeOK
<1>1. PluginInv => PluginTypeOK  BY DEF PluginInv, PluginTypeOK, Alive
<1>2. QED  BY <1>1, InitPlugin, PluginStep, PTL DEF PluginSpec

\* However many connections race, are closed and end at once, nothing is left
\* open or registered but in the two cases that NothingHeld names
\* (raceWifiAndDefault, readLoop, close, cleanup).
THEOREM LosersAreReleased == PluginSpec => []NothingHeld
<1>1. PluginInv => NothingHeld  BY DEF PluginInv
<1>2. QED  BY <1>1, InitPlugin, PluginStep, PTL DEF PluginSpec

\* No connection is lost without an event (readLoop, which asks `sockets` before
\* it emits an error, and close, which empties it).
THEOREM LossesAreTold == PluginSpec => []LossIsTold
<1>1. PluginInv => LossIsTold  BY DEF PluginInv
<1>2. QED  BY <1>1, InitPlugin, PluginStep, PTL DEF PluginSpec

\* Every join can be undone (joinWifi, releaseJoin, onAvailable).
THEOREM JoinsAreReleasable == PluginSpec => []JoinIsReleasable
<1>1. PluginInv => JoinIsReleasable  BY DEF PluginInv, Joined, JoinIsReleasable
<1>2. QED  BY <1>1, InitPlugin, PluginStep, PTL DEF PluginSpec
=============================================================================
