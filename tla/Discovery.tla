----------------------------- MODULE Discovery -----------------------------
(***************************************************************************)
(* The lists behind the connect screen: which addresses are probed and     *)
(* which found (internal/camera/scan.go), what the picker offers           *)
(* (internal/frontend/picker.go) and which cameras are remembered          *)
(* (internal/config/config.go).                                            *)
(***************************************************************************)
EXTENDS Naturals, Sequences, FiniteSets

CONSTANTS
  Canonical,   \* CanonicalAddr: the host and port an address stands for
  NoSerial     \* the empty serial: the body was not identified

SameAddr(a, b) == Canonical[a] = Canonical[b]

\* The members of a set of numbers in ascending order
Ascending(S) ==
  [k \in 1..Cardinality(S) |-> CHOOSE i \in S : Cardinality({j \in S : j <= i}) = k]

\* The entries of a list at the given places, in their order
Kept(list, places) == [k \in 1..Cardinality(places) |-> list[Ascending(places)[k]]]

\* mergeAddrs, and the deduplication of probeCandidates and dedupIPs: the first
\* spelling of an address wins.
MergeAddrs(addrs) ==
  Kept(addrs, {i \in DOMAIN addrs : \A j \in 1..i - 1 : ~SameAddr(addrs[i], addrs[j])})

\* probeCandidates and mergeAddrs of DetectAll: the candidates that answered,
\* in their order, then what the scan of the subnets adds.
Responders(candidates, answered, scanned) ==
  MergeAddrs(Kept(candidates, {i \in DOMAIN candidates : Canonical[candidates[i]] \in answered})
             \o scanned)

\* UpsertCamera: the new entry comes first, those of its serial or its address
\* go. Addresses are compared as they are spelt.
UpsertCamera(cameras, entry) ==
  <<entry>> \o Kept(cameras, {i \in DOMAIN cameras :
                 /\ entry.serial = NoSerial \/ cameras[i].serial # entry.serial
                 /\ cameras[i].ip # entry.ip})

\* A saved camera and a scan result are taken for the same.
Matches(sc, d) == \/ sc.serial # NoSerial /\ d.serial = sc.serial
                  \/ SameAddr(sc.ip, d.addr)

\* The first of some places, or 0
FirstOf(places) == IF places = {} THEN 0 ELSE CHOOSE i \in places : \A j \in places : i <= j

\* Mutant of Claims: a scan result may be taken twice.
ClaimsShared(saved, found) ==
  [k \in DOMAIN saved |-> FirstOf({i \in DOMAIN found : Matches(saved[k], found[i])})]

\* The scan result each saved camera takes: the first that matches and that no
\* camera before it took, or 0.
Claims(saved, found) ==
  CHOOSE c \in [DOMAIN saved -> 0..Len(found)] :
    \A k \in DOMAIN saved :
      c[k] = FirstOf({i \in DOMAIN found : /\ Matches(saved[k], found[i])
                                          /\ \A j \in 1..k - 1 : c[j] # i})

\* buildPicker: the saved cameras, then what was found beside them.
BuildPicker(saved, found) ==
  LET claims == Claims(saved, found)
      Known(k) == [addr   |-> IF claims[k] = 0 THEN saved[k].ip ELSE found[claims[k]].addr,
                   serial |-> saved[k].serial, saved |-> TRUE, found |-> claims[k] # 0]
      New(d) == [addr |-> d.addr, serial |-> d.serial, saved |-> FALSE, found |-> TRUE]
      rest == Kept(found, {i \in DOMAIN found : \A k \in DOMAIN saved : claims[k] # i})
  IN  [k \in DOMAIN saved |-> Known(k)] \o [j \in DOMAIN rest |-> New(rest[j])]
=============================================================================
