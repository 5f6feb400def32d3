------------------------------- MODULE Plugin -------------------------------
(***************************************************************************)
(* The TCP plugin of the Android application (TcpSocketPlugin.kt): the     *)
(* race of connect between a socket bound to Wi-Fi and a plain one, the    *)
(* read loops, close, and joining and leaving the camera's Wi-Fi.          *)
(*                                                                         *)
(* The threads are those of ioPool (a caller, two paths and a reader for   *)
(* each connection), the one on which plugin methods run, and the one on   *)
(* which ConnectivityManager runs the callback of a join.                  *)
(***************************************************************************)
EXTENDS Naturals

CONSTANTS
  Conns,    \* calls of connect, by the socket id they are given
  MaxJoins  \* bound: calls of joinWifi

ASSUME PluginAssumption == MaxJoins \in Nat

Joins == 1..MaxJoins
Paths == {"wifi", "plain"}

VARIABLES
  caller,        \* connect: the call, which waits for a path to win
  path,          \* connect: the two paths of the race
  claimed,       \* connect: the path that set `claimed`
  winner,        \* connect: the path in winnerRef
  open,          \* connected sockets
  asked,         \* connections whose NetworkCallback is registered
  entry,         \* the entry of `sockets`
  reader,        \* readLoop
  told,          \* connections for which "closed" or "error" was emitted
  closed,        \* connections for which JavaScript called close
  forgotten,     \* history: connections whose Wi-Fi socket could not be created
  joinCallback,  \* the join whose callback is stored, 0 for null
  held,          \* joins whose callback is registered with the system
  bound,         \* the join whose network the process is bound to, 0 for none
  granted,       \* joins whose network the system has found
  joinCall,      \* the call of joinWifi
  method,        \* the plugin method at work: what it does, what it releases
  available,     \* onAvailable at work: progress, its join
  overtaken      \* history: joins whose onAvailable bound the process after its release

race == <<caller, path, claimed, winner, open, asked, forgotten>>
life == <<entry, reader, told, closed>>
join == <<joinCallback, held, bound, granted, joinCall, method, available, overtaken>>
pluginVars == <<race, life, join>>

PluginShape ==
  /\ caller \in [Conns -> {"idle", "direct", "racing", "resolved", "rejected"}]
  /\ path \in [Conns \X Paths ->
              {"idle", "start", "acquire", "create", "dial", "claim", "won", "over"}]
  /\ claimed \in [Conns -> Paths \cup {"none"}]
  /\ winner \in [Conns -> Paths \cup {"none"}]
  /\ open \subseteq Conns \X Paths
  /\ asked \subseteq Conns /\ forgotten \subseteq Conns
  /\ entry \in [Conns -> {"none", "in", "out"}]
  /\ reader \in [Conns -> {"none", "reading", "telling", "leaving", "over"}]
  /\ told \subseteq Conns /\ closed \subseteq Conns
  /\ joinCallback \in {0} \cup Joins /\ bound \in {0} \cup Joins
  /\ held \subseteq Joins /\ granted \subseteq Joins /\ overtaken \subseteq Joins
  /\ joinCall \in [Joins -> {"none", "pending", "settled"}]
  /\ method \in [does : {"none", "joinWifi", "leaveWifi"}, releases : {0} \cup Joins]
  /\ available \in [pc : {"none", "bind", "settle"}, of : {0} \cup Joins]
  /\ method.does = "none" => method.releases = 0
  /\ available.pc = "none" <=> available.of = 0

(* The types, and that `sockets` holds exactly what connect has returned.   *)
PluginTypeOK ==
  /\ PluginShape
  /\ \A c \in Conns : entry[c] = "none" <=> caller[c] # "resolved"

PluginInit ==
  /\ caller = [c \in Conns |-> "idle"]
  /\ path = [cp \in Conns \X Paths |-> "idle"]
  /\ claimed = [c \in Conns |-> "none"] /\ winner = [c \in Conns |-> "none"]
  /\ open = {} /\ asked = {} /\ forgotten = {}
  /\ entry = [c \in Conns |-> "none"] /\ reader = [c \in Conns |-> "none"]
  /\ told = {} /\ closed = {}
  /\ joinCallback = 0 /\ held = {} /\ bound = 0 /\ granted = {} /\ overtaken = {}
  /\ joinCall = [j \in Joins |-> "none"]
  /\ method = [does |-> "none", releases |-> 0]
  /\ available = [pc |-> "none", of |-> 0]

-----------------------------------------------------------------------------
(* connect, raceWifiAndDefault, acquireWifiNetwork *)

Goes(c, p, from, to) == path[<<c, p>>] = from /\ path' = [path EXCEPT ![<<c, p>>] = to]

ConnectBound(c) ==
  /\ caller[c] = "idle" /\ caller' = [caller EXCEPT ![c] = "racing"]
  /\ path' = [path EXCEPT ![<<c, "wifi">>] = "start", ![<<c, "plain">>] = "dial"]
  /\ UNCHANGED <<claimed, winner, open, asked, forgotten, life, join>>

ConnectPlain(c) ==
  /\ caller[c] = "idle" /\ caller' = [caller EXCEPT ![c] = "direct"]
  /\ UNCHANGED <<path, claimed, winner, open, asked, forgotten, life, join>>

(* sockets[socketId] = Conn(...), call.resolve, readLoop *)
Install(c) ==
  /\ caller' = [caller EXCEPT ![c] = "resolved"]
  /\ entry' = [entry EXCEPT ![c] = "in"]
  /\ reader' = [reader EXCEPT ![c] = "reading"]
  /\ UNCHANGED <<told, closed>>

DirectEnds(c) ==
  /\ caller[c] = "direct"
  /\ \/ /\ Install(c)
        /\ open' = open \cup {<<c, "plain">>} /\ winner' = [winner EXCEPT ![c] = "plain"]
     \/ /\ caller' = [caller EXCEPT ![c] = "rejected"]
        /\ UNCHANGED <<open, winner, life>>
  /\ UNCHANGED <<path, claimed, asked, forgotten, join>>

(* requestNetwork, which may throw. *)
RequestWifi(c) ==
  /\ \/ Goes(c, "wifi", "start", "acquire") /\ asked' = asked \cup {c}
     \/ Goes(c, "wifi", "start", "over") /\ UNCHANGED asked
  /\ UNCHANGED <<caller, claimed, winner, open, forgotten, life, join>>

Acquire(c) ==
  /\ \/ Goes(c, "wifi", "acquire", "create") /\ UNCHANGED asked
     \/ Goes(c, "wifi", "acquire", "over") /\ asked' = asked \ {c}
  /\ UNCHANGED <<caller, claimed, winner, open, forgotten, life, join>>

(* createSocket throws when the network is gone, past the catch that        *)
(* unregisters the callback.                                                *)
CreateSocket(c) ==
  /\ \/ Goes(c, "wifi", "create", "dial") /\ UNCHANGED forgotten
     \/ Goes(c, "wifi", "create", "over") /\ forgotten' = forgotten \cup {c}
  /\ UNCHANGED <<caller, claimed, winner, open, asked, life, join>>

\* Mutant of DialFails: the catch forgets the callback of the Wi-Fi network.
DialFailsSloppy(c, p) ==
  /\ Goes(c, p, "dial", "over")
  /\ UNCHANGED <<caller, claimed, winner, open, asked, forgotten, life, join>>

DialFails(c, p) ==
  /\ Goes(c, p, "dial", "over")
  /\ asked' = IF p = "wifi" THEN asked \ {c} ELSE asked
  /\ UNCHANGED <<caller, claimed, winner, open, forgotten, life, join>>

Dials(c, p) ==
  /\ Goes(c, p, "dial", "claim") /\ open' = open \cup {<<c, p>>}
  /\ UNCHANGED <<caller, claimed, winner, asked, forgotten, life, join>>

TryClaim(c, p) ==
  /\ \/ /\ claimed[c] = "none" /\ claimed' = [claimed EXCEPT ![c] = p]
        /\ Goes(c, p, "claim", "won")
        /\ UNCHANGED <<open, asked>>
     \/ /\ claimed[c] # "none" /\ Goes(c, p, "claim", "over")
        /\ open' = open \ {<<c, p>>}
        /\ asked' = IF p = "wifi" THEN asked \ {c} ELSE asked
        /\ UNCHANGED claimed
  /\ UNCHANGED <<caller, winner, forgotten, life, join>>

Publish(c, p) ==
  /\ Goes(c, p, "won", "over") /\ winner' = [winner EXCEPT ![c] = p]
  /\ UNCHANGED <<caller, claimed, open, asked, forgotten, life, join>>

Return(c) ==
  /\ caller[c] = "racing" /\ winner[c] # "none" /\ Install(c)
  /\ UNCHANGED <<path, claimed, winner, open, asked, forgotten, join>>

(* Both paths have failed, or the deadline, by the wall clock, has passed. *)
GiveUp(c) ==
  /\ caller[c] = "racing" /\ winner[c] = "none"
  /\ caller' = [caller EXCEPT ![c] = "rejected"]
  /\ UNCHANGED <<path, claimed, winner, open, asked, forgotten, life, join>>

-----------------------------------------------------------------------------
(* readLoop, close, cleanup *)

Cleanup(c) ==
  /\ IF entry[c] # "in" THEN UNCHANGED <<entry, open, asked>>
     ELSE /\ entry' = [entry EXCEPT ![c] = "out"]
          /\ open' = open \ {<<c, winner[c]>>}
          /\ asked' = IF winner[c] = "wifi" THEN asked \ {c} ELSE asked
  /\ UNCHANGED <<caller, path, claimed, winner, forgotten>>

Close(c) ==
  /\ caller[c] = "resolved" /\ c \notin closed /\ closed' = closed \cup {c}
  /\ Cleanup(c)
  /\ UNCHANGED <<reader, told, join>>

(* The end of the stream, or isClosed: emitClosed. *)
StreamEnds(c) ==
  /\ reader[c] = "reading" /\ reader' = [reader EXCEPT ![c] = "leaving"]
  /\ told' = told \cup {c}
  /\ UNCHANGED <<race, entry, closed, join>>

\* Mutant of ReadFails: every error is taken for one that close has caused.
ReadFailsQuietly(c) ==
  /\ reader[c] = "reading" /\ reader' = [reader EXCEPT ![c] = "leaving"]
  /\ UNCHANGED <<race, entry, told, closed, join>>

(* read throws; close may have removed the entry, or may do so now. *)
ReadFails(c) ==
  /\ reader[c] = "reading"
  /\ reader' = [reader EXCEPT ![c] = IF entry[c] = "in" THEN "telling" ELSE "leaving"]
  /\ UNCHANGED <<race, entry, told, closed, join>>

TellError(c) ==
  /\ reader[c] = "telling" /\ reader' = [reader EXCEPT ![c] = "leaving"]
  /\ told' = told \cup {c}
  /\ UNCHANGED <<race, entry, closed, join>>

ReaderLeaves(c) ==
  /\ reader[c] = "leaving" /\ reader' = [reader EXCEPT ![c] = "over"]
  /\ Cleanup(c)
  /\ UNCHANGED <<told, closed, join>>

-----------------------------------------------------------------------------
(* joinWifi, leaveWifi, releaseJoin.  The application asks for one join at a *)
(* time (joiningWifi), and leaves whenever it disconnects.                   *)

Pending == {j \in Joins : joinCall[j] = "pending"}

(* The first half of releaseJoin. *)
Release(what) ==
  /\ method.does = "none"
  /\ method' = [does |-> what, releases |-> joinCallback]
  /\ joinCallback' = 0 /\ bound' = 0
  /\ UNCHANGED <<race, life, held, granted, available, overtaken>>

JoinWifi(j) ==
  /\ joinCall[j] = "none" /\ Pending = {}
  /\ \A i \in Joins : i < j => joinCall[i] # "none"
  /\ joinCall' = [joinCall EXCEPT ![j] = "pending"]
  /\ Release("joinWifi")

LeaveWifi == Release("leaveWifi") /\ UNCHANGED joinCall

Left ==
  /\ method.does = "leaveWifi" /\ method' = [does |-> "none", releases |-> 0]
  /\ held' = held \ {method.releases}
  /\ UNCHANGED <<race, life, joinCallback, bound, granted, joinCall, available, overtaken>>

\* Mutant of Requests: the previous request is not unregistered.
RequestsOnTop(j) ==
  /\ method.does = "joinWifi" /\ j \in Pending
  /\ method' = [does |-> "none", releases |-> 0]
  /\ \/ joinCallback' = j /\ held' = held \cup {j} /\ UNCHANGED joinCall
     \/ /\ joinCallback' = 0 /\ UNCHANGED held
        /\ joinCall' = [joinCall EXCEPT ![j] = "settled"]
  /\ UNCHANGED <<race, life, bound, granted, available, overtaken>>

(* The rest of joinWifi: requestNetwork, which may throw. *)
Requests(j) ==
  /\ method.does = "joinWifi" /\ j \in Pending
  /\ method' = [does |-> "none", releases |-> 0]
  /\ \/ /\ joinCallback' = j /\ held' = (held \ {method.releases}) \cup {j}
        /\ UNCHANGED joinCall
     \/ /\ joinCallback' = 0 /\ held' = held \ {method.releases}
        /\ joinCall' = [joinCall EXCEPT ![j] = "settled"]
  /\ UNCHANGED <<race, life, bound, granted, available, overtaken>>

(* ConnectivityManager calls back, again whenever the network returns.  A   *)
(* callback at work is not stopped by unregistering it.                     *)
OnAvailable(j) ==
  /\ j \in held /\ available.pc = "none"
  /\ granted' = granted \cup {j} /\ available' = [pc |-> "bind", of |-> j]
  /\ UNCHANGED <<race, life, joinCallback, held, bound, joinCall, method, overtaken>>

Bind ==
  /\ available.pc = "bind" /\ available' = [available EXCEPT !.pc = "settle"]
  /\ bound' \in {bound, available.of}  \* bindProcessToNetwork may fail
  /\ overtaken' = IF available.of \in held \ {method.releases} THEN overtaken
                  ELSE overtaken \cup {available.of}
  /\ UNCHANGED <<race, life, joinCallback, held, granted, joinCall, method>>

SettleJoin ==
  /\ available.pc = "settle" /\ available' = [pc |-> "none", of |-> 0]
  /\ joinCall' = [joinCall EXCEPT ![available.of] = "settled"]
  /\ UNCHANGED <<race, life, joinCallback, held, bound, granted, method, overtaken>>

(* After 30 s, or when the user declines; the system drops the request. *)
OnUnavailable(j) ==
  /\ j \in held \ granted /\ available.pc = "none" /\ held' = held \ {j}
  /\ joinCall' = [joinCall EXCEPT ![j] = "settled"]
  /\ UNCHANGED <<race, life, joinCallback, bound, granted, method, available, overtaken>>

-----------------------------------------------------------------------------
PathSteps(c, p) == DialFails(c, p) \/ Dials(c, p) \/ TryClaim(c, p) \/ Publish(c, p)
CallSteps(c)    == \/ ConnectBound(c) \/ ConnectPlain(c) \/ DirectEnds(c) \/ Return(c) \/ GiveUp(c)
                   \/ RequestWifi(c) \/ Acquire(c) \/ CreateSocket(c)
LifeSteps(c)    == \/ Close(c) \/ StreamEnds(c) \/ ReadFails(c) \/ TellError(c) \/ ReaderLeaves(c)
JoinSteps(j)    == JoinWifi(j) \/ Requests(j) \/ OnAvailable(j) \/ OnUnavailable(j)

PluginNext ==
  \/ \E c \in Conns : CallSteps(c) \/ LifeSteps(c) \/ \E p \in Paths : PathSteps(c, p)
  \/ LeaveWifi \/ Left \/ Bind \/ SettleJoin
  \/ \E j \in Joins : JoinSteps(j)

PluginSpec == PluginInit /\ [][PluginNext]_pluginVars

-----------------------------------------------------------------------------
(* Who answers for what connection c has opened on path p. *)
Late(c, p) == winner[c] = p /\ caller[c] = "rejected"
Kept(c, p) == winner[c] = p /\ (caller[c] = "racing" \/ entry[c] = "in")

(* Each connected socket and each registered network request belongs to a   *)
(* thread that will release it or to an entry of `sockets`, wherever the    *)
(* race, close and the reader meet; but for a path that wins after the      *)
(* caller gave up, and for a Wi-Fi socket that could not be created.        *)
NothingHeld ==
  \A c \in Conns :
    /\ \A p \in Paths : <<c, p>> \in open =>
         path[<<c, p>>] \in {"claim", "won"} \/ Kept(c, p) \/ Late(c, p)
    /\ c \in asked =>
         \/ path[<<c, "wifi">>] \in {"acquire", "create", "dial", "claim", "won"}
         \/ Kept(c, "wifi") \/ Late(c, "wifi") \/ c \in forgotten

(* A connection the application did not close never disappears from         *)
(* `sockets` without an event.                                              *)
LossIsTold == \A c \in Conns : entry[c] = "out" => c \in told \cup closed

(* leaveWifi and the next joinWifi can undo a join: a registered request is *)
(* the stored one or the one being released, and the process is bound to    *)
(* the network of a registered request, unless onAvailable was overtaken.   *)
JoinIsReleasable ==
  /\ held \subseteq {joinCallback, method.releases}
  /\ bound # 0 => bound \in held \cup overtaken
=============================================================================
