---------------------------- MODULE MobileStore ----------------------------
(***************************************************************************)
(* The link of the mobile application: connect, disconnect, keep-alive and *)
(* auto-reconnect of store.ts over the CameraService of lib/camera.ts.     *)
(*                                                                         *)
(* JavaScript runs one callback at a time: a step is the code between two  *)
(* awaits, and whatever was read before an await may be stale after it.    *)
(* The numbers that name connections and loops are never reused.           *)
(***************************************************************************)
EXTENDS Naturals, FiniteSets

CONSTANTS
  MaxClients,     \* bound: connections established in a behaviour
  MaxAttempts,    \* bound: calls of connect / autoConnect in flight
  MaxCalls,       \* bound: listings and imports in flight, besides an attempt's
  MaxOff,         \* bound: explicit disconnects
  MaxJams,        \* bound: clients whose transactions cease to settle
  MaxGen,         \* bound: values of reconnectGeneration; MaxClients + MaxOff never binds
  AutoReconnect   \* values settings.autoReconnect may have

ASSUME StoreAssumption ==
  /\ MaxClients \in Nat /\ MaxAttempts \in Nat /\ MaxCalls \in Nat
  /\ MaxOff \in Nat /\ MaxJams \in Nat /\ MaxGen \in Nat /\ AutoReconnect \subseteq BOOLEAN

Clients  == 1..MaxClients
Attempts == 1..MaxAttempts
Calls    == 1..MaxCalls
Offs     == 1..MaxOff
Gens     == 1..MaxGen  \* a loop follows a connection, a cancel is a disconnect

VARIABLES
  connected, connecting, reconnecting, importing, loadingPhotos,  \* flags of AppState
  keepAliveTimer,  \* the keep-alive interval runs and its handle is stored
  stray,           \* a keep-alive interval runs whose handle was dropped
  generation,      \* reconnectGeneration
  loop,            \* startReconnect, by the generation it claimed
  attempt,         \* connect / autoConnect: control state, loop that waits, client listed
  off,             \* disconnect(): control state of each call
  client,          \* CameraService.client, 0 for null
  link,            \* what became of each PtpIpClient
  mute,            \* clients whose single-shot disconnect callback is spent or cleared
  closing,         \* CameraService.disconnect in flight: <<client, disconnect() or 0>>
  call,            \* listings and imports in flight and the client they use
  pings,           \* clients with a keep-alive transaction in flight
  jammed,          \* clients whose transactions will never settle
  threw            \* an import threw after its run and left importing set

flags  == <<connected, connecting, reconnecting, importing, loadingPhotos>>
timers == <<keepAliveTimer, stray>>
tasks  == <<generation, loop, attempt, off>>
camera == <<client, link, mute, closing>>
work   == <<call, pings, jammed, threw>>
vars   == <<flags, timers, tasks, camera, work>>

NoCall == [kind |-> "none", on |-> 0]
Idle   == [pc |-> "idle", for |-> 0, on |-> 0]

TypeOK ==
  /\ connected \in BOOLEAN /\ connecting \in BOOLEAN /\ reconnecting \in BOOLEAN
  /\ importing \in BOOLEAN /\ loadingPhotos \in BOOLEAN
  /\ keepAliveTimer \in BOOLEAN /\ stray \in BOOLEAN
  /\ generation \in 0..MaxGen
  /\ loop \in [Gens -> {"none", "sleep", "try", "over"}]
  /\ attempt \in [Attempts -> [pc : {"idle", "dial", "greet", "list"},
                               for : {0} \cup Gens, on : {0} \cup Clients]]
  /\ off \in [Offs -> {"none", "closing", "leaving", "done"}]
  /\ client \in {0} \cup Clients
  /\ link \in [Clients -> {"new", "up", "down", "closed"}]
  /\ mute \subseteq Clients
  /\ closing \subseteq Clients \X ({0} \cup Offs)
  /\ call \in [Calls -> [kind : {"none", "list", "watch", "marked", "import"},
                         on : {0} \cup Clients]]
  /\ pings \subseteq Clients /\ jammed \subseteq Clients
  /\ threw \in BOOLEAN

Init ==
  /\ connected = FALSE /\ connecting = FALSE /\ reconnecting = FALSE
  /\ importing = FALSE /\ loadingPhotos = FALSE
  /\ keepAliveTimer = FALSE /\ stray = FALSE
  /\ generation = 0 /\ loop = [g \in Gens |-> "none"]
  /\ attempt = [a \in Attempts |-> Idle]
  /\ off = [d \in Offs |-> "none"]
  /\ client = 0 /\ link = [c \in Clients |-> "new"] /\ mute = {} /\ closing = {}
  /\ call = [s \in Calls |-> NoCall] /\ pings = {}
  /\ jammed = {} /\ threw = FALSE

FreeAttempts == {a \in Attempts : attempt[a].pc = "idle"}
FreeCalls    == {s \in Calls : call[s].kind = "none"}
New          == {c \in Clients : link[c] = "new"}
First(S)     == {x \in S : \A y \in S : x <= y}  \* which free number is taken is immaterial

Occupy(s, kind, on) == call' = [call EXCEPT ![s] = [kind |-> kind, on |-> on]]

-----------------------------------------------------------------------------
(* CameraService.disconnect: mutes the client at once, and forgets whatever *)
(* client is installed when the close has ended.                            *)

CloseClient(who, heard) ==
  IF client = 0 THEN mute' = heard /\ closing' = closing
                ELSE mute' = heard \cup {client} /\ closing' = closing \cup {<<client, who>>}

Closed(c, who) ==
  /\ <<c, who>> \in closing /\ c \notin jammed
  /\ closing' = closing \ {<<c, who>>}
  /\ link' = [link EXCEPT ![c] = "closed"]
  /\ client' = 0
  /\ off' = IF who = 0 THEN off ELSE [off EXCEPT ![who] = "leaving"]
  /\ UNCHANGED <<flags, timers, generation, loop, attempt, mute, work>>

-----------------------------------------------------------------------------
(* _onDisconnected with the startReconnect it calls.  heard are the clients *)
(* that are mute after the signal was delivered.                            *)

TearDown(heard) ==
  /\ CloseClient(0, heard)
  /\ connected' = FALSE
  /\ \/ /\ TRUE \in AutoReconnect
        /\ generation < MaxGen /\ generation' = generation + 1
        /\ loop' = [loop EXCEPT ![generation + 1] = "sleep"]
        /\ reconnecting' = TRUE /\ connecting' = FALSE
     \/ /\ FALSE \in AutoReconnect
        /\ UNCHANGED <<generation, loop, reconnecting, connecting>>

NotLost(heard) ==
  mute' = heard /\ UNCHANGED <<connected, connecting, reconnecting, generation, loop, closing>>

OnDisconnected(heard) ==
  IF ~connected \/ reconnecting
  THEN NotLost(heard) /\ UNCHANGED timers
  ELSE TearDown(heard) /\ keepAliveTimer' = FALSE /\ UNCHANGED stray

(* An error event of a socket: fireDisconnect.  The handler stays on a      *)
(* client that was replaced.                                                *)
SocketError(c) ==
  /\ link[c] = "down" /\ c \notin mute
  /\ OnDisconnected(mute \cup {c})
  /\ UNCHANGED <<importing, loadingPhotos, attempt, off, client, link, work>>

InUse(c) == \/ \E s \in Calls : call[s].kind # "none" /\ call[s].on = c
            \/ \E a \in Attempts : attempt[a].pc = "list" /\ attempt[a].on = c

(* A transaction of a listing or an import fails: transaction() fires. *)
TransactionFails(c) ==
  /\ link[c] \in {"down", "closed"} /\ c \notin mute \cup jammed /\ InUse(c)
  /\ OnDisconnected(mute \cup {c})
  /\ UNCHANGED <<importing, loadingPhotos, attempt, off, client, link, work>>

-----------------------------------------------------------------------------
(* connect, autoConnect, _onConnected *)

(* From here to the end of camera.connect nothing but connectStatus changes: *)
(* discovery, the probe sweeps on throwaway clients, the handshake.          *)
Begin(a, g) ==
  /\ ~connecting /\ ~connected
  /\ connecting' = TRUE
  /\ attempt' = [attempt EXCEPT ![a] = [pc |-> "dial", for |-> g, on |-> 0]]

(* The connect screen, on mount or on a tap. *)
UserConnects ==
  /\ \E a \in First(FreeAttempts) : Begin(a, 0)
  /\ UNCHANGED <<connected, reconnecting, importing, loadingPhotos, timers,
                 generation, loop, off, camera, work>>

(* No probe answered, or camera.connect threw. *)
AttemptFails(a) ==
  /\ attempt[a].pc = "dial"
  /\ connecting' = FALSE
  /\ attempt' = [attempt EXCEPT ![a] = Idle]
  /\ UNCHANGED <<connected, reconnecting, importing, loadingPhotos, timers,
                 generation, loop, off, camera, work>>

(* camera.connect returns and the first part of _onConnected runs.  A       *)
(* client whose event socket failed before applyHandlers is already mute.   *)
Connects(a) ==
  /\ attempt[a].pc = "dial"
  /\ \E c \in First(New) :
       /\ client' = c
       /\ link' = [link EXCEPT ![c] = "up"]
       /\ mute' \in {mute, mute \cup {c}}
  /\ connected' = TRUE /\ connecting' = FALSE
  /\ attempt' = [attempt EXCEPT ![a].pc = "greet"]
  /\ UNCHANGED <<reconnecting, importing, loadingPhotos, timers, generation, loop,
                 off, closing, work>>

(* After the haptics: startKeepAlive, and refreshPhotos, which returns at   *)
(* once when there is no client.                                            *)
Greeted(a) ==
  /\ attempt[a].pc = "greet"
  /\ keepAliveTimer' = TRUE
  /\ attempt' = [attempt EXCEPT ![a].pc = "list", ![a].on = client]
  /\ loadingPhotos' = (loadingPhotos \/ client # 0)
  /\ UNCHANGED <<connected, connecting, reconnecting, importing, stray,
                 generation, loop, off, camera, work>>

(* The listing ends, well or not; _pullMarkedTransfers goes on in the       *)
(* background.                                                              *)
Listed(a) ==
  /\ attempt[a].pc = "list" /\ attempt[a].on \notin jammed
  /\ loadingPhotos' = IF attempt[a].on = 0 THEN loadingPhotos ELSE FALSE
  /\ attempt' = [attempt EXCEPT ![a] = Idle]
  /\ IF client = 0 THEN call' = call
     ELSE \E s \in First(FreeCalls) : Occupy(s, "marked", client)
  /\ UNCHANGED <<connected, connecting, reconnecting, importing, timers,
                 generation, loop, off, camera, pings, jammed, threw>>

-----------------------------------------------------------------------------
(* startReconnect *)

(* The part of the loop's body after autoConnect. *)
\* Mutant of AfterAttempt: the loop ends on success without resetting reconnecting.
AfterAttemptShown(g) ==
  /\ loop' = [loop EXCEPT ![g] = IF g # generation \/ connected THEN "over" ELSE "sleep"]
  /\ UNCHANGED <<reconnecting, connecting>>

AfterAttempt(g) ==
  IF g # generation
  THEN loop' = [loop EXCEPT ![g] = "over"] /\ UNCHANGED <<reconnecting, connecting>>
  ELSE IF connected
  THEN loop' = [loop EXCEPT ![g] = "over"] /\ reconnecting' = FALSE /\ UNCHANGED connecting
  ELSE loop' = [loop EXCEPT ![g] = "sleep"] /\ connecting' = FALSE /\ UNCHANGED reconnecting

(* The backoff is over; autoConnect returns at once when it need not run. *)
Wakes(g) ==
  /\ loop[g] = "sleep"
  /\ \/ /\ g # generation \/ connecting \/ connected
        /\ AfterAttempt(g) /\ UNCHANGED attempt
     \/ /\ g = generation
        /\ \E a \in First(FreeAttempts) : Begin(a, g)
        /\ loop' = [loop EXCEPT ![g] = "try"] /\ UNCHANGED reconnecting
  /\ UNCHANGED <<connected, importing, loadingPhotos, timers, generation, off, camera, work>>

Resumes(g) ==
  /\ loop[g] = "try"
  /\ \A a \in Attempts : attempt[a].pc # "idle" => attempt[a].for # g
  /\ AfterAttempt(g)
  /\ UNCHANGED <<connected, importing, loadingPhotos, timers, generation, attempt,
                 off, camera, work>>

-----------------------------------------------------------------------------
(* disconnect, offered by the settings screen of a connected application *)

Disconnect(d) ==
  /\ connected /\ off[d] = "none"
  /\ \A e \in Offs : e < d => off[e] # "none"
  /\ generation < MaxGen /\ generation' = generation + 1 /\ reconnecting' = FALSE
  /\ keepAliveTimer' = FALSE
  /\ CloseClient(d, mute)
  /\ off' = [off EXCEPT ![d] = IF client = 0 THEN "leaving" ELSE "closing"]
  /\ UNCHANGED <<connected, connecting, importing, loadingPhotos, stray, loop,
                 attempt, client, link, work>>

(* leaveWifi has returned: the final set, which drops the handles. *)
Disconnected(d) ==
  /\ off[d] = "leaving" /\ off' = [off EXCEPT ![d] = "done"]
  /\ connected' = FALSE /\ reconnecting' = FALSE
  /\ stray' = (stray \/ keepAliveTimer) /\ keepAliveTimer' = FALSE
  /\ UNCHANGED <<connecting, importing, loadingPhotos, generation, loop, attempt,
                 camera, work>>

-----------------------------------------------------------------------------
(* Keep-alive *)

\* Mutant of KeepAliveTick: a ping without the check that there is a client.
KeepAliveTickBlind ==
  /\ keepAliveTimer \/ stray
  /\ connected /\ ~importing /\ ~loadingPhotos
  /\ pings' = pings \cup {client}
  /\ UNCHANGED <<flags, timers, tasks, camera, call, jammed, threw>>

KeepAliveTick ==
  /\ keepAliveTimer \/ stray
  /\ connected /\ ~importing /\ ~loadingPhotos
  /\ IF client = 0
     THEN OnDisconnected(mute) /\ UNCHANGED pings
     ELSE /\ pings' = pings \cup {client}
          /\ UNCHANGED <<connected, connecting, reconnecting, timers, generation,
                         loop, mute, closing>>
  /\ UNCHANGED <<importing, loadingPhotos, attempt, off, client, link, call, jammed, threw>>

PingAnswered(c) ==
  /\ c \in pings \ jammed /\ link[c] = "up" /\ pings' = pings \ {c}
  /\ UNCHANGED <<flags, timers, tasks, camera, call, jammed, threw>>

\* Mutant of PingFails: the tick leaves the report of a failed ping to the client.
PingFailsQuietly(c) ==
  /\ c \in pings \ jammed /\ pings' = pings \ {c}
  /\ UNCHANGED <<flags, timers, tasks, camera, call, jammed, threw>>

(* The transaction fails, or the camera answers with an error: the catch of *)
(* the tick signals a loss without the client's single-shot guard.          *)
PingFails(c) ==
  /\ c \in pings \ jammed /\ pings' = pings \ {c}
  /\ OnDisconnected(IF link[c] = "up" THEN mute ELSE mute \cup {c})
  /\ UNCHANGED <<importing, loadingPhotos, attempt, off, client, link, call, jammed, threw>>

-----------------------------------------------------------------------------
(* Listings and imports *)

(* Pull to refresh, or the refresh two seconds after a capture. *)
Refresh ==
  /\ client # 0
  /\ loadingPhotos' = TRUE /\ \E s \in First(FreeCalls) : Occupy(s, "list", client)
  /\ UNCHANGED <<connected, connecting, reconnecting, importing, timers, tasks, camera, pings, jammed, threw>>

(* The auto-import interval, whose tick tests the flags itself, or an       *)
(* ObjectAdded event: refresh, then import.                                 *)
Watch ==
  /\ connected /\ ~importing /\ client # 0
  /\ loadingPhotos' = TRUE /\ \E s \in First(FreeCalls) : Occupy(s, "watch", client)
  /\ UNCHANGED <<connected, connecting, reconnecting, importing, timers, tasks, camera, pings, jammed, threw>>

UserImports ==
  /\ connected
  /\ importing' = TRUE /\ \E s \in First(FreeCalls) : Occupy(s, "import", client)
  /\ UNCHANGED <<connected, connecting, reconnecting, loadingPhotos, timers, tasks, camera, pings, jammed, threw>>

(* A listing or an import ends.  After a listing for the watch mode or of   *)
(* the marked photos an import may follow, whatever has happened since.  An *)
(* import whose two queries of the database after the loop are refused ends *)
(* without the set that resets importing.                                   *)
CallEnds(s) ==
  /\ call[s].kind # "none"
  /\ call[s].kind # "import" => call[s].on \notin jammed
  /\ loadingPhotos' = IF call[s].kind \in {"list", "watch"} THEN FALSE ELSE loadingPhotos
  /\ \/ /\ call' = [call EXCEPT ![s] = NoCall]
        /\ \/ call[s].kind # "import" /\ UNCHANGED <<importing, threw>>
           \/ call[s].kind = "import" /\ importing' = FALSE /\ threw' = FALSE
           \/ call[s].kind = "import" /\ threw' = importing /\ UNCHANGED importing
     \/ /\ call[s].kind \in {"watch", "marked"}
        /\ importing' = TRUE /\ Occupy(s, "import", client) /\ UNCHANGED threw
  /\ UNCHANGED <<connected, connecting, reconnecting, timers, tasks, camera, pings, jammed>>

(* A write of a transaction that has settled fails, and its catch clears    *)
(* what the next one waits on: that one and all behind it never settle.     *)
Jams(c) ==
  /\ c \in pings \/ InUse(c) \/ \E who \in {0} \cup Offs : <<c, who>> \in closing
  /\ Cardinality(jammed) < MaxJams /\ jammed' = jammed \cup {c}
  /\ UNCHANGED <<flags, timers, tasks, camera, call, pings, threw>>

(* Environment: the camera goes away. *)
Drops(c) ==
  /\ link[c] = "up" /\ link' = [link EXCEPT ![c] = "down"]
  /\ UNCHANGED <<flags, timers, tasks, client, mute, closing, work>>

-----------------------------------------------------------------------------
AttemptSteps(a) == AttemptFails(a) \/ Connects(a) \/ Greeted(a) \/ Listed(a)
LoopSteps(g)    == Wakes(g) \/ Resumes(g)
ClientSteps(c)  == \/ SocketError(c) \/ TransactionFails(c) \/ PingAnswered(c) \/ PingFails(c)
                   \/ Drops(c) \/ Jams(c) \/ \E who \in {0} \cup Offs : Closed(c, who)
UserSteps       == \/ UserConnects \/ Refresh \/ Watch \/ UserImports
                   \/ \E d \in Offs : Disconnect(d)

Next ==
  \/ UserSteps \/ KeepAliveTick
  \/ \E a \in Attempts : AttemptSteps(a)
  \/ \E g \in Gens : LoopSteps(g)
  \/ \E c \in Clients : ClientSteps(c)
  \/ \E s \in Calls : CallEnds(s)
  \/ \E d \in Offs : Disconnected(d)

Spec == Init /\ [][Next]_vars

(* What happens by itself: calls of the plugin and transactions of a client *)
(* that is not jammed end, by a timeout if need be, and timers fire.  A     *)
(* tick that finds the application busy does nothing, so the tick that      *)
(* finds it idle needs strong fairness; so does Listed, which may have to   *)
(* wait for a free place in call.                                           *)
FairSpec ==
  /\ Spec
  /\ \A a \in Attempts : /\ WF_vars(AttemptFails(a) \/ Connects(a) \/ Greeted(a))
                         /\ SF_vars(Listed(a))
  /\ \A g \in Gens : WF_vars(LoopSteps(g))
  /\ \A c \in Clients : /\ WF_vars(PingAnswered(c) \/ PingFails(c))
                        /\ WF_vars(\E who \in {0} \cup Offs : Closed(c, who))
  /\ \A s \in Calls : WF_vars(call[s].on \notin jammed /\ CallEnds(s))
  /\ \A d \in Offs : WF_vars(Disconnected(d))
  /\ SF_vars(KeepAliveTick)

-----------------------------------------------------------------------------
(* Every flag of the store that excludes an action is set only while the    *)
(* call that will reset it is in flight, or after an import that threw      *)
(* (importPhotos 645-647): no interleaving of connect, disconnect,          *)
(* reconnect, listings and imports leaves the application "connecting",     *)
(* "reconnecting", "importing" or "loading" otherwise.  And a reconnect     *)
(* loop shows as "reconnecting" as long as no disconnect has ended.         *)
Looping(g) == g = generation /\ loop[g] \in {"sleep", "try"}

FlagsHaveCause ==
  /\ connecting => \E a \in Attempts : attempt[a].pc = "dial"
  /\ reconnecting => \E g \in Gens : Looping(g)
  /\ (\E g \in Gens : Looping(g)) => reconnecting \/ \E d \in Offs : off[d] = "done"
  /\ importing => threw \/ \E s \in Calls : call[s].kind = "import"
  /\ loadingPhotos => \/ \E s \in Calls : call[s].kind \in {"list", "watch"}
                      \/ \E a \in Attempts : attempt[a].pc = "list" /\ attempt[a].on # 0

(* A connected application has a keep-alive interval, except while it is    *)
(* still greeting the camera or already in disconnect().                    *)
KeptAlive ==
  connected => \/ keepAliveTimer \/ stray
               \/ \E a \in Attempts : attempt[a].pc = "greet"
               \/ \E d \in Offs : off[d] \in {"closing", "leaving"}

(* An application that shows a connection notices, without user action,     *)
(* that its client is dead or gone, unless a client is jammed or an import  *)
(* threw: then the pings never end, or every tick of the keep-alive returns *)
(* at the flag importing (startKeepAlive).                                  *)
Lost == connected /\ (client = 0 \/ link[client] # "up")
LossIsNoticed == Lost ~> ~Lost \/ jammed # {} \/ threw

-----------------------------------------------------------------------------
(* What the code says and does not keep: TLC finds each violated, OneAttempt*)
(* with two attempts, and no run lists it                                   *)

(* "True while the auto-reconnect backoff loop is running" (reconnecting of *)
(* AppState) and "stops on success or explicit disconnect" (startReconnect):*)
(* whenever a loop is going on the application says so.                     *)
LoopIsShown == \A g \in Gens : Looping(g) => reconnecting

(* "Safe to call repeatedly: bail if we're already connecting" (autoConnect)*)
(* : no two attempts to connect run at once.                                *)
OneAttempt ==
  \A a, b \in Attempts : attempt[a].pc = "dial" /\ attempt[b].pc = "dial" => a = b

(* "Fired at most once per connection", "ignore late/duplicate signals"     *)
(* (_onDisconnected): a failed ping of another client takes no live link    *)
(* away.                                                                    *)
LateSignalsIgnored ==
  [][\A c \in Clients : PingFails(c) /\ client \notin {0, c} /\ link[client] = "up"
                          => connected' = connected]_vars
=============================================================================
