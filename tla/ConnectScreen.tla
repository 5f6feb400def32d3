--------------------------- MODULE ConnectScreen ---------------------------
(***************************************************************************)
(* The connect screen of the terminal interface: searching for cameras,    *)
(* the picker, connecting, and what is remembered of a connection          *)
(* (internal/frontend/model.go, messages.go, picker.go), with the parts of *)
(* camera.Camera and camera.DetectAll that run in its commands.            *)
(*                                                                         *)
(* Addresses are given to whoever joins a network: every Nikon that hosts  *)
(* its own calls itself 192.168.1.1.  So any body may answer at any        *)
(* address, and another one the next time.                                 *)
(***************************************************************************)
EXTENDS Naturals, Sequences, FiniteSets, Discovery

CONSTANTS
  Addrs,        \* the spellings of addresses a user may type
  Default,      \* the address of the configuration and of D5300Profile
  Hosts,        \* the host addresses of the local subnets, in sorted order
  Bodies,       \* the cameras, each by its serial number; one may have none
  Nobody, None, \* no body; no address
  MaxDetects,   \* bound: detectCmd goroutines at the same time
  MaxConnects   \* bound: connectCmd goroutines at the same time

ASSUME ConnectScreenAssumption ==
  /\ Addrs = DOMAIN Canonical /\ Default \in Addrs /\ Hosts \in Seq(Addrs)
  /\ IsFiniteSet(Addrs) /\ Nobody \notin Bodies /\ None \notin Addrs
  /\ MaxDetects \in Nat /\ MaxConnects \in Nat

VARIABLES
  link, info, \* Camera: the body at the other end of the client's connection,
              \* and the body the last DeviceInfo was of
  screen, detecting, connecting, picker, items,
              \* fields of Model
  cameras,    \* cfg.Cameras, newest first; cfg.LastConnected is its first address
  detects,    \* detectCmd goroutines, each with the candidates it was given
  dials,      \* connectCmd goroutines and the reconnect loop: with the address of
              \* the message and the DeviceInfo at hand; body is history: who
              \* answered, unless another connect got in between
  dropped     \* history: a result was dropped since the search was shown

model == <<screen, detecting, connecting, picker, items>>
vars  == <<link, info, model, cameras, detects, dials, dropped>>

DSlots == 1..MaxDetects
Slots  == 1..MaxConnects
Redial   == 0
NoDial == [st |-> "none", addr |-> None, di |-> Nobody, body |-> Nobody]

TypeOK ==
  /\ link \in Bodies \cup {Nobody} /\ info \in Bodies \cup {Nobody}
  /\ screen \in {"connect", "browser"}
  /\ detecting \in BOOLEAN /\ connecting \in BOOLEAN /\ picker \in BOOLEAN
  /\ items \in Seq([addr : Addrs, serial : Bodies \cup {NoSerial}, saved : BOOLEAN, found : BOOLEAN])
  /\ cameras \in Seq([ip : Addrs, serial : Bodies])
  /\ detects \in [DSlots -> Seq(Addrs)]
  /\ dials \in [{Redial} \cup Slots -> [st   : {"none", "dial", "info", "told", "ok", "failed"},
                                     addr : Addrs \cup {None},
                                     di   : Bodies \cup {Nobody},
                                     body : Bodies \cup {Nobody}]]
  /\ dropped \in BOOLEAN

\* detectCandidates: what a new detectCmd probes beside the gateways
DetectCmd(s) ==
  /\ detects[s] = <<>>
  /\ detects' = [detects EXCEPT ![s] =
                   MergeAddrs(<<Default>> \o [i \in DOMAIN cameras |-> cameras[i].ip])]

\* A new connectCmd
ConnectCmd(a) ==
  \E s \in Slots : /\ dials[s] = NoDial /\ \A t \in 1..s - 1 : dials[t] # NoDial
                   /\ dials' = [dials EXCEPT ![s] = [NoDial EXCEPT !.st = "dial", !.addr = a]]

\* Init searches at once; it marks that in a copy of the model.
Init ==
  /\ link = Nobody /\ info = Nobody
  /\ screen = "connect" /\ detecting = FALSE /\ connecting = FALSE
  /\ picker = FALSE /\ items = <<>> /\ cameras = <<>>
  /\ detects = [s \in DSlots |-> IF s = 1 THEN MergeAddrs(<<Default>>) ELSE <<>>]
  /\ dials = [s \in {Redial} \cup Slots |-> NoDial] /\ dropped = FALSE

-----------------------------------------------------------------------------
(* The user *)

\* enter in the address field, whatever is under way
Type(a) ==
  /\ screen = "connect" /\ ~picker /\ ConnectCmd(a)
  /\ connecting' = TRUE
  /\ UNCHANGED <<link, info, screen, detecting, picker, items, cameras, detects, dropped>>

\* pickerConnect, by enter or by a click: any item, also one that is offline
Choose(i) ==
  /\ screen = "connect" /\ picker /\ ConnectCmd(items[i].addr)
  /\ picker' = FALSE /\ items' = <<>> /\ connecting' = TRUE
  /\ UNCHANGED <<link, info, screen, detecting, cameras, detects, dropped>>

\* esc in the picker. Its items, which nobody looks at any more, are forgotten here.
LeavePicker ==
  /\ screen = "connect" /\ picker /\ picker' = FALSE /\ items' = <<>>
  /\ UNCHANGED <<link, info, screen, detecting, connecting, cameras, detects, dials, dropped>>

\* d, with the picker shown or not: startDetect
Detect ==
  /\ screen = "connect" /\ picker' = FALSE /\ items' = <<>> /\ detecting' = TRUE
  /\ \E s \in DSlots : DetectCmd(s)
  /\ dropped' = FALSE
  /\ UNCHANGED <<link, info, screen, connecting, cameras, dials>>

\* switchCamera: the link is closed, and the connect screen searches at once.
SwitchCamera ==
  /\ screen = "browser" /\ screen' = "connect" /\ link' = Nobody
  /\ detecting' = TRUE /\ \E s \in DSlots : DetectCmd(s)
  /\ dropped' = FALSE
  /\ UNCHANGED <<info, connecting, picker, items, cameras, dials>>

-----------------------------------------------------------------------------
(* The network *)

\* The link is lost, or closed by the reconnect loop.
LoseLink ==
  /\ link # Nobody /\ link' = Nobody
  /\ UNCHANGED <<info, model, cameras, detects, dials, dropped>>

\* refreshMsg with an error when no link is there: back to the connect screen.
\* The reconnecting flag, which Lifecycle follows, is not kept here.
RefreshFails ==
  /\ screen = "browser" /\ link = Nobody /\ screen' = "connect"
  /\ UNCHANGED <<link, info, detecting, connecting, picker, items, cameras, detects, dials, dropped>>

-----------------------------------------------------------------------------
(* The goroutines *)

\* The other goroutines that are at a point lose what they relied on.
Overtakes(s, point) ==
  [t \in {Redial} \cup Slots |->
     IF t # s /\ dials[t].st = point THEN [dials[t] EXCEPT !.body = Nobody] ELSE dials[t]]

\* Camera.Connect begins: a connectCmd was sent, or the reconnect loop, which runs on on
\* the connect screen, dials the address of the last connection.
Dialing(s) == IF s = Redial THEN dials[Redial] = NoDial /\ info # Nobody ELSE dials[s].st = "dial"

\* Client.Connect: the sockets become those of the client, whatever it had.
Connects(s, b) ==
  /\ Dialing(s) /\ link' = b
  /\ dials' = [Overtakes(s, "info") EXCEPT ![s].st = "info", ![s].body = b]
  /\ UNCHANGED <<info, model, cameras, detects, dropped>>

\* GetDeviceInfo asks over the connection that the client has by now.
AsksInfo(s) ==
  /\ dials[s].st = "info" /\ link # Nobody
  /\ dials' = [dials EXCEPT ![s].st = "told", ![s].di = link]
  /\ UNCHANGED <<link, info, model, cameras, detects, dropped>>

\* Mutant of StoresInfo: what is known of a camera is not replaced.
StoresInfoOnce(s) ==
  /\ dials[s].st = "told" /\ info' = IF info = Nobody THEN dials[s].di ELSE info
  /\ dials' = [Overtakes(s, "ok") EXCEPT
                 ![s] = IF s = Redial THEN NoDial ELSE [@ EXCEPT !.st = "ok", !.di = Nobody]]
  /\ UNCHANGED <<link, model, cameras, detects, dropped>>

\* The answer becomes the DeviceInfo of the camera object, whoever is connected by now.
StoresInfo(s) ==
  /\ dials[s].st = "told" /\ info' = dials[s].di
  /\ dials' = [Overtakes(s, "ok") EXCEPT
                 ![s] = IF s = Redial THEN NoDial ELSE [@ EXCEPT !.st = "ok", !.di = Nobody]]
  /\ UNCHANGED <<link, model, cameras, detects, dropped>>

\* No answer at the address, or no DeviceInfo, which closes the client.
ConnectFails(s) ==
  /\ dials[s].st \in {"dial", "info"}
  /\ dials' = [dials EXCEPT ![s] = IF s = Redial THEN NoDial ELSE [NoDial EXCEPT !.st = "failed"]]
  /\ link' = IF dials[s].st = "info" THEN Nobody ELSE link
  /\ UNCHANGED <<info, model, cameras, detects, dropped>>

-----------------------------------------------------------------------------
(* Their messages: updateConnect; the browser drops them. *)

\* The addresses that answer: gateways, candidates and hosts of the subnets are
\* probed, and an answer may come too late to count.
Answers(candidates) ==
  LET Answering == SUBSET {Canonical[a] : a \in Addrs}
  IN  {Responders(MergeAddrs(gateways \o candidates), answered,
                  Kept(Hosts, {i \in DOMAIN Hosts : Canonical[Hosts[i]] \in scanned})) :
         gateways \in {<<>>} \cup {<<Hosts[i]>> : i \in DOMAIN Hosts},
         answered \in Answering, scanned \in Answering}

\* Identify: when several answer each is asked who it is. A body in use by
\* somebody, as by this program, may refuse and remain without a serial.
Serials(n) ==
  IF n <= 1 THEN [1..n -> {NoSerial}]
  ELSE {f \in [1..n -> Bodies \cup {NoSerial}] :
          \A i, j \in 1..n : f[i] = f[j] /\ i # j => f[i] = NoSerial}

\* What detectCandidates may return, and what DetectAll may return for each of these
Candidates ==
  {MergeAddrs(<<Default>> \o ips) : ips \in UNION {[1..n -> Addrs] : n \in 0..Cardinality(Addrs)}}

DetectAll ==
  [candidates \in Candidates |->
     UNION {{[i \in DOMAIN list |-> [addr |-> list[i], serial |-> serial[i]]] :
               serial \in Serials(Len(list))} : list \in Answers(candidates)}]

\* Nothing was found, or one camera, which is connected at once, or several,
\* which are offered, also while a connect is under way.
Offer(list) ==
  \/ list = <<>> /\ UNCHANGED <<connecting, picker, items, dials>>
  \/ /\ Len(list) = 1 /\ connecting' = TRUE /\ ConnectCmd(list[1].addr)
     /\ UNCHANGED <<picker, items>>
  \/ /\ Len(list) > 1 /\ picker' = TRUE /\ items' = BuildPicker(cameras, list)
     /\ UNCHANGED <<connecting, dials>>

\* Mutant of TakeDiscovered: only a search with a result resets the flag.
TakeDiscoveredLate(s) ==
  /\ detects[s] # <<>> /\ detects' = [detects EXCEPT ![s] = <<>>]
  /\ IF screen # "connect"
     THEN dropped' = detecting /\ UNCHANGED <<detecting, connecting, picker, items, dials>>
     ELSE \E list \in DetectAll[detects[s]] :
            detecting' = (detecting /\ list = <<>>) /\ dropped' = FALSE /\ Offer(list)
  /\ UNCHANGED <<link, info, screen, cameras>>

\* discoveredMsg: what the search returns does not depend on this program's state
\* once it has its candidates, so that it may be chosen here.
TakeDiscovered(s) ==
  /\ detects[s] # <<>> /\ detects' = [detects EXCEPT ![s] = <<>>]
  /\ IF screen # "connect"
     THEN dropped' = detecting /\ UNCHANGED <<detecting, connecting, picker, items, dials>>
     ELSE \E list \in DetectAll[detects[s]] :
            detecting' = FALSE /\ dropped' = FALSE /\ Offer(list)
  /\ UNCHANGED <<link, info, screen, cameras>>

\* What is remembered of a connection: the address of the message, and the body
\* of the camera object.
Remember(s) == cameras' = UpsertCamera(cameras, [ip |-> dials[s].addr, serial |-> info])

\* Mutant of TakeConnected: the error of the message is not looked at.
TakeConnectedBlind(s) ==
  /\ dials[s].st \in {"ok", "failed"} /\ dials' = [dials EXCEPT ![s] = NoDial]
  /\ IF screen # "connect" THEN UNCHANGED <<model, cameras>>
     ELSE /\ connecting' = FALSE /\ UNCHANGED detecting
          /\ Remember(s) /\ screen' = "browser" /\ picker' = FALSE /\ items' = <<>>
  /\ UNCHANGED <<link, info, detects, dropped>>

\* connectedMsg
TakeConnected(s) ==
  /\ dials[s].st \in {"ok", "failed"} /\ dials' = [dials EXCEPT ![s] = NoDial]
  /\ IF screen # "connect" THEN UNCHANGED <<model, cameras>>
     ELSE /\ connecting' = FALSE /\ UNCHANGED detecting
          /\ IF dials[s].st = "failed" THEN UNCHANGED <<screen, picker, items, cameras>>
             ELSE Remember(s) /\ screen' = "browser" /\ picker' = FALSE /\ items' = <<>>
  /\ UNCHANGED <<link, info, detects, dropped>>

-----------------------------------------------------------------------------
User ==
  \/ \E a \in Addrs : Type(a)
  \/ \E i \in DOMAIN items : Choose(i)
  \/ LeavePicker \/ Detect \/ SwitchCamera

System ==
  \/ LoseLink \/ RefreshFails
  \/ \E s \in DSlots : TakeDiscovered(s)
  \/ \E s \in {Redial} \cup Slots : \/ \E b \in Bodies : Connects(s, b)
                                 \/ AsksInfo(s) \/ StoresInfo(s) \/ ConnectFails(s)
  \/ \E s \in Slots : TakeConnected(s)

Next == User \/ System

Spec == Init /\ [][Next]_vars

-----------------------------------------------------------------------------
(* Properties *)

\* A camera is remembered at the address where it answered, unless another connect got
\* the client before this one asked for the DeviceInfo, or stored its own before the
\* message was handled: connectedMsg carries the address, and updateConnect asks the
\* camera object for the body.
SavedPairIsTrue ==
  [][\A s \in Slots :
       /\ cameras' # cameras /\ dials[s].body # Nobody /\ dials'[s] = NoDial
       => cameras'[1] = [ip |-> dials[s].addr, serial |-> dials[s].body]]_vars

\* Two items are known to be the same body.
SameBody(i, j) == items[i].serial = items[j].serial /\ items[i].serial # NoSerial

\* While the picker is shown it has each place once among what answers, and every
\* remembered camera once and in its order; and a remembered camera that was identified is
\* offered a second time, as a new one, only when something else answers at the place where
\* it was remembered (UpsertCamera, buildPicker).
PickerIsExact ==
  picker =>
    /\ \A i, j \in DOMAIN items : i # j =>
         /\ items[i].found /\ items[j].found => ~SameAddr(items[i].addr, items[j].addr)
         /\ items[i].saved /\ items[j].saved => ~SameBody(i, j)
         /\ items[i].saved /\ ~items[j].saved /\ SameBody(i, j) =>
              items[i].found /\ SameAddr(items[i].addr, cameras[i].ip)
    /\ {i \in DOMAIN items : items[i].saved} = DOMAIN cameras
    /\ \A i \in DOMAIN cameras : items[i].serial = cameras[i].serial

\* "A saved entry matches a scan result by serial number first and address second"
\* (picker.go 25-26): a remembered camera that was identified is not offered once more as
\* a new one. TLC finds otherwise, with two bodies that have serials; no run lists it:
\* buildPicker takes the first result that matches in either way.
SerialFirst ==
  picker => \A i, j \in DOMAIN items : items[i].saved /\ ~items[j].saved => ~SameBody(i, j)

\* Whatever searches and connects overlap, the screen shows that it searches, or that it
\* connects, only while a command is under way whose message will reset that. The exception
\* is a result that came while the browser was shown, which drops it: then the screen says
\* that it searches until the next search ends (startDetect, updateConnect).
SpinnersHaveCause ==
  /\ detecting => dropped \/ \E s \in DSlots : detects[s] # <<>>
  /\ connecting => \E s \in Slots : dials[s].st # "none"
=============================================================================
