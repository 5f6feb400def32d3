-------------------------- MODULE InterfaceProofs --------------------------
(***************************************************************************)
(* Proofs about the terminal interface. ConnectScreen, with the lists of   *)
(* Discovery, for any addresses, spellings and bodies and any number of    *)
(* searches and connects at a time: what the picker offers once and what   *)
(* it may offer again, and that a camera is remembered where it answered.  *)
(* UpdateLoop, for any number of links, goroutines and messages: a loss is *)
(* told before anybody fails on it, and a cancelled import sends no more.  *)
(*                                                                         *)
(* The modules share no variable; each theorem is about one of them.       *)
(***************************************************************************)
EXTENDS ConnectScreen, UpdateLoop, FiniteSetTheorems, SequenceTheorems, WellFoundedInduction,
        TLAPS

-----------------------------------------------------------------------------
(* Discovery: the lists of the connect screen *)

\* A set of numbers has a smallest one.
LEMMA Smallest == ASSUME NEW T, T \subseteq Nat, T # {}
  PROVE \E m \in T : \A n \in T : m <= n
<1>1. PICK m \in T : \A n \in T : ~(<<n, m>> \in OpToRel(<, Nat))
  BY WFMin, NatLessThanWellFounded
<1>2. ASSUME NEW n \in T PROVE m <= n
  <2>1. ~(n < m)  BY <1>1 DEF OpToRel
  <2>2. QED  BY <2>1
<1>3. QED  BY <1>2

\* The members of a set of places are listed, each once.
LEMMA AscendingLists ==
  ASSUME NEW n \in Nat, NEW S, S \subseteq 1..n
  PROVE  /\ Cardinality(S) \in Nat
         /\ \A k \in 1..Cardinality(S) : Ascending(S)[k] \in S
         /\ \A j, k \in 1..Cardinality(S) : Ascending(S)[j] = Ascending(S)[k] => j = k
         /\ \A i \in S : \E k \in 1..Cardinality(S) : Ascending(S)[k] = i
<1> DEFINE below(i) == {j \in S : j <= i}
           rank == [i \in S |-> Cardinality(below(i))]
           c == Cardinality(S)
<1>1. IsFiniteSet(S)
  <2>1. IsFiniteSet(1..n)  BY FS_Interval
  <2>2. QED  BY <2>1, FS_Subset
<1>2. c \in Nat  BY <1>1, FS_CardinalityType
<1>3. ASSUME NEW i \in S PROVE IsFiniteSet(below(i)) /\ Cardinality(below(i)) \in 1..c
  <2>1. below(i) \in SUBSET S /\ i \in below(i)  OBVIOUS
  <2>2. IsFiniteSet(below(i)) /\ Cardinality(below(i)) <= c  BY <1>1, <2>1, FS_Subset
  <2>3. Cardinality(below(i)) \in Nat  BY <2>2, FS_CardinalityType
  <2>4. Cardinality(below(i)) # 0
    <3>1. below(i) # {}  BY <2>1
    <3>2. QED  BY <3>1, <2>2, FS_EmptySet
  <2>5. QED  BY <1>2, <2>2, <2>3, <2>4
<1>4. ASSUME NEW i \in S, NEW k \in S, i < k PROVE Cardinality(below(i)) # Cardinality(below(k))
  <2>1. \A j \in S : j <= i => j <= k  BY <1>4
  <2>2. k \in below(k) /\ k \notin below(i)  BY <1>4
  <2>3. below(i) \in SUBSET below(k)  BY <2>1
  <2>4. IsFiniteSet(below(k))  BY <1>3
  <2> HIDE DEF below
  <2>5. QED  BY <2>2, <2>3, <2>4, FS_Subset
<1>5. rank \in Injection(S, 1..c)
  <2>1. rank \in [S -> 1..c]  BY <1>3
  <2>2. ASSUME NEW i \in S, NEW k \in S, rank[i] = rank[k] PROVE i = k
    <3>1. Cardinality(below(i)) = Cardinality(below(k))  BY <2>2
    <3>2. ~(i < k) /\ ~(k < i)  BY <3>1, <1>4
    <3>3. QED  BY <3>2
  <2>3. QED  BY <2>1, <2>2 DEF Injection, IsInjective
<1>6. rank \in Surjection(S, 1..c)
  <2>1. IsFiniteSet(1..c) /\ Cardinality(1..c) = c  BY <1>2, FS_Interval
  <2> HIDE DEF rank
  <2>2. QED  BY <2>1, <1>5, FS_Injection
<1>7. ASSUME NEW k \in 1..c PROVE \E i \in S : Cardinality(below(i)) = k
  BY <1>6 DEF Surjection
<1>8. ASSUME NEW k \in 1..c PROVE Ascending(S)[k] \in S /\ Cardinality(below(Ascending(S)[k])) = k
  <2>1. Ascending(S)[k] = CHOOSE i \in S : Cardinality(below(i)) = k
    BY DEF Ascending
  <2> HIDE DEF below
  <2>2. QED  BY <2>1, <1>7
<1>9. \A j, k \in 1..c : Ascending(S)[j] = Ascending(S)[k] => j = k
  <2> HIDE DEF below
  <2>1. QED  BY <1>8
<1>10. ASSUME NEW i \in S PROVE \E k \in 1..c : Ascending(S)[k] = i
  <2> DEFINE k == Cardinality(below(i))
  <2>1. k \in 1..c  BY <1>3
  <2>2. Ascending(S)[k] \in S /\ Cardinality(below(Ascending(S)[k])) = k  BY <1>8, <2>1
  <2>3. ~(i < Ascending(S)[k]) /\ ~(Ascending(S)[k] < i)  BY <1>4, <2>2
  <2>4. i \in Nat /\ Ascending(S)[k] \in Nat
    <3>1. \A j \in S : j \in Nat  OBVIOUS
    <3> HIDE DEF k
    <3>2. QED  BY <2>2, <3>1
  <2>5. Ascending(S)[k] = i
    <3> HIDE DEF k
    <3>1. QED  BY <2>3, <2>4
  <2>6. QED  BY <2>1, <2>5
<1>11. QED  BY <1>2, <1>8, <1>9, <1>10

\* A list of which some places are kept: its entries are entries of the list, from
\* different places.
LEMMA KeptIs ==
  ASSUME NEW T, NEW list \in Seq(T), NEW places, places \subseteq DOMAIN list
  PROVE  /\ Kept(list, places) \in Seq(T)
         /\ Len(Kept(list, places)) = Cardinality(places)
         /\ \A k \in DOMAIN Kept(list, places) :
              /\ Ascending(places)[k] \in places
              /\ Kept(list, places)[k] = list[Ascending(places)[k]]
         /\ \A j, k \in DOMAIN Kept(list, places) :
              Ascending(places)[j] = Ascending(places)[k] => j = k
         /\ \A i \in places : \E k \in DOMAIN Kept(list, places) : Ascending(places)[k] = i
<1> DEFINE c == Cardinality(places)
<1>1. Len(list) \in Nat /\ DOMAIN list = 1..Len(list) /\ list \in [DOMAIN list -> T]
  OBVIOUS
<1>2. /\ c \in Nat
      /\ \A k \in 1..c : Ascending(places)[k] \in places
      /\ \A j, k \in 1..c : Ascending(places)[j] = Ascending(places)[k] => j = k
      /\ \A i \in places : \E k \in 1..c : Ascending(places)[k] = i
  <2>1. places \subseteq 1..Len(list)  BY <1>1
  <2>2. QED  BY <1>1, <2>1, AscendingLists
<1>3. Kept(list, places) = [k \in 1..c |-> list[Ascending(places)[k]]]
  BY DEF Kept
<1>4. \A k \in 1..c : list[Ascending(places)[k]] \in T
  BY <1>1, <1>2
<1>5. Kept(list, places) \in [1..c -> T]
  BY <1>3, <1>4
<1> HIDE DEF c
<1>6. Kept(list, places) \in Seq(T) /\ Len(Kept(list, places)) = c /\ DOMAIN Kept(list, places) = 1..c
  BY <1>2, <1>5
<1>7. QED  BY <1>2, <1>3, <1>6 DEF c

\* No two addresses of a list stand for the same place.
Unlike(addrs) == \A i, j \in DOMAIN addrs : i # j => ~SameAddr(addrs[i], addrs[j])

\* mergeAddrs keeps one spelling of each address.
LEMMA MergeAddrsIs ==
  ASSUME NEW list \in Seq(Addrs)
  PROVE  MergeAddrs(list) \in Seq(Addrs) /\ Unlike(MergeAddrs(list))
<1> DEFINE first == {i \in DOMAIN list : \A j \in 1..i - 1 : ~SameAddr(list[i], list[j])}
           kept == MergeAddrs(list)
<1>1. kept = Kept(list, first)  BY DEF MergeAddrs
<1>2. first \subseteq DOMAIN list  OBVIOUS
<1>3. \A i, j \in first : i # j => ~SameAddr(list[i], list[j])
  <2> SUFFICES ASSUME NEW i \in first, NEW j \in first, i < j PROVE ~SameAddr(list[i], list[j])
    BY DEF SameAddr
  <2>1. i \in 1..j - 1  OBVIOUS
  <2>2. QED  BY <2>1 DEF SameAddr
<1> HIDE DEF first, kept
<1>4. QED  BY <1>1, <1>2, <1>3, KeptIs DEF Unlike, kept

\* Whatever was named or answered, the merged list has its place: only further spellings
\* of a place are dropped (mergeAddrs).
THEOREM MergeLosesNoPlace ==
  ASSUME NEW list \in Seq(Addrs), NEW i \in DOMAIN list
  PROVE  \E k \in DOMAIN MergeAddrs(list) : SameAddr(MergeAddrs(list)[k], list[i])
<1> DEFINE first == {j \in DOMAIN list : \A m \in 1..j - 1 : ~SameAddr(list[j], list[m])}
           same == {j \in DOMAIN list : SameAddr(list[j], list[i])}
<1>1. Len(list) \in Nat /\ DOMAIN list = 1..Len(list)  OBVIOUS
<1>2. PICK j \in same : \A m \in same : j <= m
  <2>1. same \subseteq Nat  BY <1>1
  <2>2. same # {}  BY DEF SameAddr
  <2> HIDE DEF same
  <2>3. QED  BY <2>1, <2>2, Smallest
<1>3. j \in first
  <2> SUFFICES ASSUME NEW m \in 1..j - 1, SameAddr(list[j], list[m]) PROVE FALSE
    BY <1>2
  <2>1. m \in DOMAIN list /\ m < j  BY <1>1, <1>2
  <2>2. m \in same  BY <1>2, <2>1 DEF SameAddr
  <2>3. QED  BY <1>1, <1>2, <2>1, <2>2
<1>4. MergeAddrs(list) = Kept(list, first)  BY DEF MergeAddrs
<1>5. SameAddr(list[j], list[i])  BY <1>2
<1>6. first \subseteq DOMAIN list  OBVIOUS
<1> HIDE DEF first
<1>7. PICK k \in DOMAIN Kept(list, first) : Ascending(first)[k] = j  BY <1>3, <1>6, KeptIs
<1>8. Kept(list, first)[k] = list[j]  BY <1>6, <1>7, KeptIs
<1>9. QED  BY <1>4, <1>5, <1>7, <1>8

\* The first of some places is one of them.
LEMMA FirstOfIs ==
  ASSUME NEW n \in Nat, NEW places, places \subseteq 1..n
  PROVE  /\ FirstOf(places) \in 0..n /\ (FirstOf(places) # 0 => FirstOf(places) \in places)
         /\ places # {} => FirstOf(places) # 0
<1>1. CASE places = {}
  BY <1>1 DEF FirstOf
<1>2. CASE places # {}
  <2> DEFINE Least(i) == \A j \in places : i <= j
  <2>1. \E i \in places : Least(i)
    <3>1. places \subseteq Nat  OBVIOUS
    <3>2. QED  BY <1>2, <3>1, Smallest
  <2>2. FirstOf(places) = CHOOSE i \in places : Least(i)
    BY <1>2 DEF FirstOf
  <2> HIDE DEF Least
  <2>3. FirstOf(places) \in places  BY <2>1, <2>2
  <2>4. FirstOf(places) \in 1..n  BY <2>3
  <2>5. QED  BY <2>3, <2>4
<1>3. QED  BY <1>1, <1>2

\* What is left for the k-th saved camera when those before it have taken theirs
Left(saved, found, c, k) ==
  {i \in DOMAIN found : Matches(saved[k], found[i]) /\ \A j \in 1..k - 1 : c[j] # i}

\* Every saved camera has the first scan result that is left.
InOrder(saved, found, c) == \A k \in DOMAIN saved : c[k] = FirstOf(Left(saved, found, c, k))

\* There is an assignment in which every saved camera takes the first that is left.
LEMMA ClaimsExist ==
  ASSUME NEW T, NEW U, NEW saved \in Seq(T), NEW found \in Seq(U)
  PROVE  \E c \in [DOMAIN saved -> 0..Len(found)] : InOrder(saved, found, c)
<1> DEFINE Good(n, c) == \A k \in 1..n : c[k] = FirstOf(Left(saved, found, c, k))
           stuck == {n \in 0..Len(saved) : ~\E c \in [1..n -> 0..Len(found)] : Good(n, c)}
<1>1. /\ Len(saved) \in Nat /\ DOMAIN saved = 1..Len(saved)
      /\ Len(found) \in Nat /\ DOMAIN found = 1..Len(found)
  OBVIOUS
<1>2. ASSUME NEW n \in 1..Len(saved), NEW c \in [1..n - 1 -> 0..Len(found)], Good(n - 1, c)
      PROVE  \E d \in [1..n -> 0..Len(found)] : Good(n, d)
  <2> DEFINE next == FirstOf(Left(saved, found, c, n))
             d == [k \in 1..n |-> IF k = n THEN next ELSE c[k]]
  <2>1. next \in 0..Len(found)
    <3>1. Left(saved, found, c, n) \subseteq 1..Len(found)  BY <1>1 DEF Left
    <3>2. QED  BY <1>1, <3>1, FirstOfIs
  <2>2. d \in [1..n -> 0..Len(found)]  BY <2>1
  <2>3. ASSUME NEW k \in 1..n PROVE Left(saved, found, d, k) = Left(saved, found, c, k)
    <3>1. \A j \in 1..k - 1 : d[j] = c[j]  OBVIOUS
    <3> HIDE DEF d
    <3>2. QED  BY <3>1 DEF Left
  <2>4. Good(n, d)
    <3> SUFFICES ASSUME NEW k \in 1..n PROVE d[k] = FirstOf(Left(saved, found, c, k))
      BY <2>3
    <3>1. CASE k = n  BY <3>1
    <3>2. CASE k # n  BY <3>2, <1>2
    <3>3. QED  BY <3>1, <3>2
  <2>5. QED  BY <2>2, <2>4
<1>3. 0 \notin stuck
  <2> DEFINE c == [k \in 1..0 |-> 0]
  <2>1. c \in [1..0 -> 0..Len(found)] /\ Good(0, c)  BY <1>1
  <2> HIDE DEF c, Good
  <2>2. QED  BY <2>1
<1> HIDE DEF Good
<1>4. stuck = {}
  <2> SUFFICES ASSUME stuck # {} PROVE FALSE  OBVIOUS
  <2>1. stuck \subseteq Nat  BY <1>1
  <2>2. PICK n \in stuck : \A m \in stuck : n <= m
    <3> HIDE DEF stuck
    <3>1. QED  BY <2>1, Smallest
  <2>3. n \in 1..Len(saved) /\ n - 1 \in 0..Len(saved) /\ n - 1 \notin stuck
    <3>1. n # 0  BY <1>3
    <3>2. n - 1 \notin stuck
      <4> HIDE DEF stuck
      <4>1. QED  BY <2>1, <2>2
    <3>3. QED  BY <1>1, <3>1, <3>2
  <2>4. QED  BY <2>2, <2>3, <1>2
<1>5. PICK c \in [1..Len(saved) -> 0..Len(found)] : Good(Len(saved), c)
  BY <1>1, <1>4
<1>6. QED  BY <1>1, <1>5 DEF Good, InOrder

\* buildPicker: no two saved cameras take the same scan result; each takes one that
\* matches it, and goes without only when none that matches is left.
LEMMA ClaimsAre ==
  ASSUME NEW T, NEW U, NEW saved \in Seq(T), NEW found \in Seq(U)
  PROVE  /\ Claims(saved, found) \in [DOMAIN saved -> 0..Len(found)]
         /\ \A j, k \in DOMAIN saved :
              Claims(saved, found)[j] = Claims(saved, found)[k] /\ j # k => Claims(saved, found)[k] = 0
         /\ \A k \in DOMAIN saved : Claims(saved, found)[k] # 0 =>
              Matches(saved[k], found[Claims(saved, found)[k]])
         /\ \A k \in DOMAIN saved, i \in DOMAIN found :
              Matches(saved[k], found[i]) /\ (\A j \in DOMAIN saved : Claims(saved, found)[j] # i)
              => Claims(saved, found)[k] # 0
<1> DEFINE c == Claims(saved, found)
<1>1. /\ Len(saved) \in Nat /\ DOMAIN saved = 1..Len(saved)
      /\ Len(found) \in Nat /\ DOMAIN found = 1..Len(found)
  OBVIOUS
<1>2. /\ c \in [DOMAIN saved -> 0..Len(found)]
      /\ \A k \in DOMAIN saved : c[k] = FirstOf(Left(saved, found, c, k))
  <2>1. c = CHOOSE d \in [DOMAIN saved -> 0..Len(found)] : InOrder(saved, found, d)
    BY Zenon DEF Claims, Left, InOrder
  <2>2. \E d \in [DOMAIN saved -> 0..Len(found)] : InOrder(saved, found, d)
    BY ClaimsExist
  <2>3. c \in [DOMAIN saved -> 0..Len(found)] /\ InOrder(saved, found, c)
    <3> HIDE DEF c
    <3>1. QED  BY <2>1, <2>2
  <2>4. QED  BY <2>3 DEF InOrder
<1> HIDE DEF c
<1>3. ASSUME NEW j \in DOMAIN saved, NEW k \in DOMAIN saved, j < k, c[k] # 0 PROVE c[j] # c[k]
  <2>1. Left(saved, found, c, k) \subseteq 1..Len(found)  BY <1>1 DEF Left
  <2>2. c[k] \in Left(saved, found, c, k)  BY <1>1, <1>2, <1>3, <2>1, FirstOfIs
  <2>3. j \in 1..k - 1  BY <1>1, <1>3
  <2>4. QED  BY <2>2, <2>3 DEF Left
<1>4. QED
  <2>1. \A j, k \in DOMAIN saved : c[j] = c[k] /\ j # k => c[k] = 0
    <3> SUFFICES ASSUME NEW j \in DOMAIN saved, NEW k \in DOMAIN saved, c[j] = c[k], j # k, c[k] # 0
                 PROVE  FALSE
      OBVIOUS
    <3>1. j < k \/ k < j  BY <1>1
    <3>2. QED  BY <3>1, <1>3
  <2>2. ASSUME NEW k \in DOMAIN saved, c[k] # 0 PROVE Matches(saved[k], found[c[k]])
    <3>1. Left(saved, found, c, k) \subseteq 1..Len(found)  BY <1>1 DEF Left
    <3>2. c[k] \in Left(saved, found, c, k)  BY <1>1, <1>2, <2>2, <3>1, FirstOfIs
    <3>3. QED  BY <3>2 DEF Left
  <2>3. ASSUME NEW k \in DOMAIN saved, NEW i \in DOMAIN found, Matches(saved[k], found[i]),
               \A j \in DOMAIN saved : c[j] # i
        PROVE  c[k] # 0
    <3>1. 1..k - 1 \subseteq DOMAIN saved  BY <1>1
    <3>2. i \in Left(saved, found, c, k)  BY <2>3, <3>1 DEF Left
    <3>3. Left(saved, found, c, k) \subseteq 1..Len(found)  BY <1>1 DEF Left
    <3>4. QED  BY <1>1, <1>2, <3>2, <3>3, FirstOfIs
  <2>4. QED  BY <1>2, <2>1, <2>2, <2>3 DEF c

\* Two lists, one after the other: its entries are theirs.
LEMMA Joined ==
  ASSUME NEW T, NEW list \in Seq(T), NEW more \in Seq(T)
  PROVE  /\ list \o more \in Seq(T) /\ Len(list \o more) = Len(list) + Len(more)
         /\ DOMAIN (list \o more) = 1..Len(list) + Len(more)
         /\ \A i \in 1..Len(list) : (list \o more)[i] = list[i]
         /\ \A i \in Len(list) + 1..Len(list) + Len(more) :
              i - Len(list) \in 1..Len(more) /\ (list \o more)[i] = more[i - Len(list)]
  BY ConcatProperties

SavedCamera == [ip : Addrs, serial : Bodies]
Found == [addr : Addrs, serial : Bodies \cup {NoSerial}]
Item == [addr : Addrs, serial : Bodies \cup {NoSerial}, saved : BOOLEAN, found : BOOLEAN]

\* No address, as it is spelt, is remembered twice, and no body that has a serial.
RememberedOnce(list) ==
  \A i, j \in DOMAIN list : i # j =>
    /\ list[i].ip # list[j].ip
    /\ list[i].serial = list[j].serial => list[i].serial = NoSerial

\* UpsertCamera puts the entry first and leaves no other of its serial or address.
LEMMA UpsertIs ==
  ASSUME NEW list \in Seq(SavedCamera), RememberedOnce(list), NEW entry \in SavedCamera
  PROVE  /\ UpsertCamera(list, entry) \in Seq(SavedCamera)
         /\ RememberedOnce(UpsertCamera(list, entry))
         /\ UpsertCamera(list, entry)[1] = entry
<1> DEFINE places == {i \in DOMAIN list : /\ entry.serial = NoSerial \/ list[i].serial # entry.serial
                                          /\ list[i].ip # entry.ip}
           Other(x) == /\ entry.serial = NoSerial \/ x.serial # entry.serial
                       /\ x.ip # entry.ip
           rest == Kept(list, places)
           all == UpsertCamera(list, entry)
<1>1. all = <<entry>> \o rest  BY DEF UpsertCamera
<1>3. \A i \in places : i \in DOMAIN list /\ Other(list[i])  OBVIOUS
<1>4. places \subseteq DOMAIN list  OBVIOUS
<1> HIDE DEF places, all, Other
<1>5. /\ rest \in Seq(SavedCamera)
      /\ \A k \in DOMAIN rest : Ascending(places)[k] \in places /\ rest[k] = list[Ascending(places)[k]]
      /\ \A j, k \in DOMAIN rest : Ascending(places)[j] = Ascending(places)[k] => j = k
  BY <1>4, KeptIs
<1> HIDE DEF rest
<1>6. /\ \A k \in DOMAIN rest : Other(rest[k])
      /\ RememberedOnce(rest)
  BY <1>3, <1>5 DEF RememberedOnce
<1>7. <<entry>> \in Seq(SavedCamera) /\ Len(<<entry>>) = 1 /\ <<entry>>[1] = entry
  OBVIOUS
<1>8. /\ all \in Seq(SavedCamera) /\ DOMAIN all = 1..1 + Len(rest)
      /\ all[1] = entry
      /\ \A i \in 2..1 + Len(rest) : i - 1 \in 1..Len(rest) /\ all[i] = rest[i - 1]
  <2>1. 1 + 1 = 2 /\ 1 \in 1..1  OBVIOUS
  <2>2. QED  BY <1>1, <1>5, <1>7, <2>1, Joined
<1>9. Len(rest) \in Nat /\ DOMAIN rest = 1..Len(rest)  BY <1>5
<1>10. ASSUME NEW i \in DOMAIN all, NEW j \in DOMAIN all, i # j
       PROVE  /\ all[i].ip # all[j].ip
              /\ all[i].serial = all[j].serial => all[i].serial = NoSerial
  <2>1. CASE i = 1
    <3>1. j \in 2..1 + Len(rest)  BY <1>8, <1>9, <1>10, <2>1
    <3>2. QED  BY <2>1, <3>1, <1>6, <1>8, <1>9 DEF Other
  <2>2. CASE j = 1
    <3>1. i \in 2..1 + Len(rest)  BY <1>8, <1>9, <1>10, <2>2
    <3>2. QED  BY <2>2, <3>1, <1>6, <1>8, <1>9 DEF Other
  <2>3. CASE i # 1 /\ j # 1
    <3>1. i \in 2..1 + Len(rest) /\ j \in 2..1 + Len(rest) /\ i - 1 # j - 1
      BY <1>8, <1>9, <1>10, <2>3
    <3>2. QED  BY <3>1, <1>6, <1>8, <1>9 DEF RememberedOnce
  <2>4. QED  BY <2>1, <2>2, <2>3
<1>11. QED  BY <1>8, <1>10 DEF RememberedOnce, all

\* The candidates of a search are addresses.
LEMMA CandidatesAre ==
  ASSUME NEW candidates \in Candidates
  PROVE  candidates \in Seq(Addrs)
<1>1. PICK ips \in UNION {[1..n -> Addrs] : n \in 0..Cardinality(Addrs)} :
        candidates = MergeAddrs(<<Default>> \o ips)
  BY DEF Candidates
<1>2. PICK n \in 0..Cardinality(Addrs) : ips \in [1..n -> Addrs]
  OBVIOUS
<1>3. ips \in Seq(Addrs)
  <2>1. n \in Nat  BY ConnectScreenAssumption, FS_CardinalityType
  <2>2. QED  BY <1>2, <2>1
<1>4. <<Default>> \in Seq(Addrs)  BY ConnectScreenAssumption
<1>5. <<Default>> \o ips \in Seq(Addrs)  BY <1>3, <1>4, Joined
<1>6. QED  BY <1>1, <1>5, MergeAddrsIs

\* No place is found twice by one search, and no body is identified at two places.
FoundOnce(list) ==
  \A i, j \in DOMAIN list : i # j =>
    /\ ~SameAddr(list[i].addr, list[j].addr)
    /\ list[i].serial = list[j].serial => list[i].serial = NoSerial

\* DetectAll finds each address once.
LEMMA DetectAllIs ==
  ASSUME NEW candidates \in Candidates, NEW list \in DetectAll[candidates]
  PROVE  list \in Seq(Found) /\ FoundOnce(list)
<1>1. PICK addrs \in Answers(candidates) : \E serial \in Serials(Len(addrs)) :
        list = [i \in DOMAIN addrs |-> [addr |-> addrs[i], serial |-> serial[i]]]
  BY DEF DetectAll
<1>2. addrs \in Seq(Addrs) /\ Unlike(addrs)
  <2> DEFINE Gateways == {<<>>} \cup {<<Hosts[i]>> : i \in DOMAIN Hosts}
             Answering == SUBSET {Canonical[a] : a \in Addrs}
             Answer(gateways, answered, scanned) ==
               Responders(MergeAddrs(gateways \o candidates), answered,
                 Kept(Hosts, {i \in DOMAIN Hosts : Canonical[Hosts[i]] \in scanned}))
  <2>0. Answers(candidates) = {Answer(gateways, answered, scanned) :
           gateways \in Gateways, answered \in Answering, scanned \in Answering}
    BY DEF Answers
  <2>1. PICK gateways \in Gateways, answered \in Answering, scanned \in Answering :
          addrs = Answer(gateways, answered, scanned)
    <3> HIDE DEF Gateways, Answering, Answer
    <3>1. QED  BY <2>0
  <2> DEFINE probed == MergeAddrs(gateways \o candidates)
             hosts == Kept(Hosts, {i \in DOMAIN Hosts : Canonical[Hosts[i]] \in scanned})
             places == {i \in DOMAIN probed : Canonical[probed[i]] \in answered}
  <2>2. probed \in Seq(Addrs)
    <3>1. gateways \in Seq(Addrs)
      <4>1. CASE gateways = <<>>  BY <4>1
      <4>2. CASE \E i \in DOMAIN Hosts : gateways = <<Hosts[i]>>
        <5>1. PICK i \in DOMAIN Hosts : gateways = <<Hosts[i]>>  BY <4>2
        <5>2. Hosts[i] \in Addrs  BY ConnectScreenAssumption
        <5>3. QED  BY <5>1, <5>2
      <4>3. QED  BY <2>1, <4>1, <4>2
    <3>2. gateways \o candidates \in Seq(Addrs)  BY <3>1, CandidatesAre, Joined
    <3>3. QED  BY <3>2, MergeAddrsIs
  <2>3. hosts \in Seq(Addrs)  BY ConnectScreenAssumption, KeptIs
  <2>4. places \subseteq DOMAIN probed  OBVIOUS
  <2>5. addrs = MergeAddrs(Kept(probed, places) \o hosts)  BY <2>1 DEF Responders
  <2> HIDE DEF probed, hosts, places
  <2>6. Kept(probed, places) \in Seq(Addrs)  BY <2>2, <2>4, KeptIs
  <2>7. Kept(probed, places) \o hosts \in Seq(Addrs)  BY <2>3, <2>6, Joined
  <2>8. QED  BY <2>5, <2>7, MergeAddrsIs
<1>3. Len(addrs) \in Nat /\ DOMAIN addrs = 1..Len(addrs) /\ \A i \in DOMAIN addrs : addrs[i] \in Addrs
  BY <1>2
<1>4. PICK serial \in Serials(Len(addrs)) :
        list = [i \in DOMAIN addrs |-> [addr |-> addrs[i], serial |-> serial[i]]]
  BY <1>1
<1>5. serial \in [1..Len(addrs) -> Bodies \cup {NoSerial}]
  BY DEF Serials
<1>6. /\ DOMAIN list = 1..Len(addrs)
      /\ \A i \in 1..Len(addrs) : /\ list[i] \in Found
                                  /\ list[i].addr = addrs[i] /\ list[i].serial = serial[i]
  BY <1>3, <1>4, <1>5 DEF Found
<1>7. list \in [1..Len(addrs) -> Found]
  <2>1. list = [i \in 1..Len(addrs) |-> list[i]]  BY <1>3, <1>4
  <2>2. QED  BY <1>6, <2>1
<1>8. list \in Seq(Found)  BY <1>3, <1>7
<1>9. \A i, j \in 1..Len(addrs) : i # j /\ serial[i] = serial[j] => serial[i] = NoSerial
  <2>1. CASE Len(addrs) <= 1  BY <1>3, <2>1
  <2>2. CASE ~(Len(addrs) <= 1)
    <3>1. \A i, j \in 1..Len(addrs) : serial[i] = serial[j] /\ i # j => serial[i] = NoSerial
      BY <2>2 DEF Serials
    <3>2. QED  BY <3>1
  <2>3. QED  BY <2>1, <2>2
<1>10. QED  BY <1>2, <1>3, <1>6, <1>8, <1>9 DEF FoundOnce, Unlike

\* What PickerIsExact says of the items of a picker
Exact(list, saved) ==
  /\ \A i, j \in DOMAIN list : i # j =>
       /\ list[i].found /\ list[j].found => ~SameAddr(list[i].addr, list[j].addr)
       /\ list[i].saved /\ list[j].saved /\ list[i].serial = list[j].serial =>
            list[i].serial = NoSerial
       /\ list[i].saved /\ ~list[j].saved /\ list[i].serial = list[j].serial =>
            \/ list[i].serial = NoSerial
            \/ list[i].found /\ SameAddr(list[i].addr, saved[i].ip)
  /\ {i \in DOMAIN list : list[i].saved} = DOMAIN saved
  /\ \A i \in DOMAIN saved : list[i].serial = saved[i].serial

\* buildPicker lists every saved camera, and every place that answered once; a saved camera
\* that was identified is new elsewhere only if another was found where it was saved.
LEMMA BuildPickerIs ==
  ASSUME NEW saved \in Seq(SavedCamera), RememberedOnce(saved), NEW found \in Seq(Found), FoundOnce(found)
  PROVE  BuildPicker(saved, found) \in Seq(Item) /\ Exact(BuildPicker(saved, found), saved)
<1> DEFINE claims == Claims(saved, found)
           Known(k) == [addr   |-> IF claims[k] = 0 THEN saved[k].ip ELSE found[claims[k]].addr,
                        serial |-> saved[k].serial, saved |-> TRUE, found |-> claims[k] # 0]
           New(d) == [addr |-> d.addr, serial |-> d.serial, saved |-> FALSE, found |-> TRUE]
           places == {i \in DOMAIN found : \A k \in DOMAIN saved : claims[k] # i}
           rest == Kept(found, places)
           known == [k \in DOMAIN saved |-> Known(k)]
           new == [j \in DOMAIN rest |-> New(rest[j])]
           all == BuildPicker(saved, found)
           n == Len(saved)
           m == Len(rest)
<1>1. all = known \o new  BY DEF BuildPicker
<1>2. /\ n \in Nat /\ DOMAIN saved = 1..n
      /\ \A k \in 1..n : saved[k] \in SavedCamera
      /\ Len(found) \in Nat /\ DOMAIN found = 1..Len(found)
      /\ \A i \in 1..Len(found) : found[i] \in Found
  OBVIOUS
<1>3. /\ claims \in [1..n -> 0..Len(found)]
      /\ \A j, k \in 1..n : claims[j] = claims[k] /\ j # k => claims[k] = 0
      /\ \A k \in 1..n : claims[k] # 0 => Matches(saved[k], found[claims[k]])
      /\ \A k \in 1..n, i \in DOMAIN found :
           Matches(saved[k], found[i]) /\ (\A j \in 1..n : claims[j] # i) => claims[k] # 0
  <2>1. DOMAIN saved = 1..n  BY <1>2
  <2>2. /\ claims \in [DOMAIN saved -> 0..Len(found)]
        /\ \A j, k \in DOMAIN saved : claims[j] = claims[k] /\ j # k => claims[k] = 0
        /\ \A k \in DOMAIN saved : claims[k] # 0 => Matches(saved[k], found[claims[k]])
        /\ \A k \in DOMAIN saved, i \in DOMAIN found :
             Matches(saved[k], found[i]) /\ (\A j \in DOMAIN saved : claims[j] # i) => claims[k] # 0
    BY ClaimsAre
  <2> HIDE DEF claims, n
  <2>3. QED  BY <2>1, <2>2
<1> HIDE DEF claims
<1>4. places \subseteq DOMAIN found /\ \A i \in places, k \in 1..n : claims[k] # i
  BY <1>2
<1> HIDE DEF places
<1>5. /\ rest \in Seq(Found)
      /\ \A k \in DOMAIN rest : Ascending(places)[k] \in places /\ rest[k] = found[Ascending(places)[k]]
      /\ \A j, k \in DOMAIN rest : Ascending(places)[j] = Ascending(places)[k] => j = k
  BY <1>4, KeptIs
<1> HIDE DEF rest
<1>6. m \in Nat /\ DOMAIN rest = 1..m /\ \A j \in 1..m : rest[j] \in Found
  BY <1>5
<1>7. \A k \in 1..n : known[k] = Known(k) /\ Known(k) \in Item
  <2> SUFFICES ASSUME NEW k \in 1..n PROVE known[k] = Known(k) /\ Known(k) \in Item
    OBVIOUS
  <2>1. saved[k] \in SavedCamera  BY <1>2
  <2>2. claims[k] # 0 => found[claims[k]] \in Found  BY <1>2, <1>3
  <2>3. (IF claims[k] = 0 THEN saved[k].ip ELSE found[claims[k]].addr) \in Addrs
    BY <2>1, <2>2 DEF SavedCamera, Found
  <2>4. QED  BY <1>2, <2>1, <2>3 DEF SavedCamera, Item
<1>8. \A j \in 1..m : new[j] = New(rest[j]) /\ New(rest[j]) \in Item
  BY <1>6 DEF Found, Item
<1>9. known \in Seq(Item) /\ Len(known) = n /\ new \in Seq(Item) /\ Len(new) = m
  <2>1. known \in [1..n -> Item]  BY <1>2, <1>7
  <2>2. new \in [1..m -> Item]  BY <1>6, <1>8
  <2> HIDE DEF known, new, n, m
  <2>3. QED  BY <1>2, <1>6, <2>1, <2>2
<1>10. /\ all \in Seq(Item) /\ DOMAIN all = 1..n + m
       /\ \A i \in 1..n : all[i] = Known(i)
       /\ \A i \in n + 1..n + m : i - n \in 1..m /\ all[i] = New(rest[i - n])
  <2> HIDE DEF known, new, all, Known, New, n, m
  <2>1. /\ all \in Seq(Item) /\ DOMAIN all = 1..n + m
        /\ \A i \in 1..n : all[i] = known[i]
        /\ \A i \in n + 1..n + m : i - n \in 1..m /\ all[i] = new[i - n]
    BY <1>1, <1>9, Joined
  <2>2. QED  BY <1>7, <1>8, <2>1
<1> HIDE DEF all, n, m
<1>11. ASSUME NEW i \in 1..n
       PROVE  /\ all[i].saved = TRUE /\ all[i].serial = saved[i].serial
              /\ all[i].found = (claims[i] # 0)
              /\ claims[i] # 0 => all[i].addr = found[claims[i]].addr
  <2>1. all[i] = Known(i)  BY <1>10
  <2>2. QED  BY <2>1
<1>12. ASSUME NEW i \in n + 1..n + m
       PROVE  /\ i - n \in 1..m /\ all[i].saved = FALSE
              /\ all[i].addr = rest[i - n].addr /\ all[i].serial = rest[i - n].serial
  <2>1. i - n \in 1..m /\ all[i] = New(rest[i - n])  BY <1>10
  <2>2. QED  BY <2>1
<1> HIDE DEF Known, New
<1>13. ASSUME NEW i \in 1..n, NEW j \in 1..n, i # j, claims[i] # 0, claims[j] # 0
       PROVE  ~SameAddr(found[claims[i]].addr, found[claims[j]].addr)
  <2>1. claims[i] # claims[j]  BY <1>3, <1>13
  <2>2. claims[i] \in DOMAIN found /\ claims[j] \in DOMAIN found  BY <1>2, <1>3, <1>13
  <2>3. QED  BY <2>1, <2>2 DEF FoundOnce
<1>14. ASSUME NEW i \in 1..n, NEW j \in 1..m, claims[i] # 0
       PROVE  /\ ~SameAddr(found[claims[i]].addr, rest[j].addr)
              /\ ~SameAddr(rest[j].addr, found[claims[i]].addr)
  <2>1. Ascending(places)[j] \in places /\ rest[j] = found[Ascending(places)[j]]  BY <1>5, <1>6
  <2>2. claims[i] \in DOMAIN found /\ claims[i] # Ascending(places)[j]  BY <1>2, <1>3, <1>4, <1>14, <2>1
  <2>3. QED  BY <1>4, <2>1, <2>2 DEF FoundOnce
<1>15. ASSUME NEW i \in 1..m, NEW j \in 1..m, i # j PROVE ~SameAddr(rest[i].addr, rest[j].addr)
  <2>1. /\ Ascending(places)[i] \in places /\ rest[i] = found[Ascending(places)[i]]
        /\ Ascending(places)[j] \in places /\ rest[j] = found[Ascending(places)[j]]
        /\ Ascending(places)[i] # Ascending(places)[j]
    BY <1>5, <1>6, <1>15
  <2>2. QED  BY <1>4, <2>1 DEF FoundOnce
<1>16. \A i \in 1..n + m : i \in 1..n \/ i \in n + 1..n + m
  BY <1>2, <1>6
<1>17. ASSUME NEW i \in DOMAIN all, NEW j \in DOMAIN all, i # j, all[i].found, all[j].found
       PROVE  ~SameAddr(all[i].addr, all[j].addr)
  <2>1. CASE i \in 1..n /\ j \in 1..n  BY <2>1, <1>11, <1>13, <1>17
  <2>2. CASE i \in 1..n /\ j \in n + 1..n + m  BY <2>2, <1>11, <1>12, <1>14, <1>17
  <2>3. CASE i \in n + 1..n + m /\ j \in 1..n  BY <2>3, <1>11, <1>12, <1>14, <1>17
  <2>4. CASE i \in n + 1..n + m /\ j \in n + 1..n + m
    <3>1. i - n # j - n  BY <1>2, <1>17, <2>4
    <3>2. QED  BY <2>4, <3>1, <1>12, <1>15
  <2>5. QED  BY <1>10, <1>16, <2>1, <2>2, <2>3, <2>4
<1>18. \A i \in DOMAIN all : all[i].saved <=> i \in 1..n
  <2>1. n \in Nat /\ m \in Nat  BY <1>2, <1>6
  <2>2. \A i \in n + 1..n + m : i \notin 1..n  BY <2>1
  <2>3. QED  BY <1>10, <1>16, <1>11, <1>12, <2>2
<1>19. \A i \in 1..n : i \in DOMAIN all /\ all[i].serial = saved[i].serial
  <2>1. n \in Nat /\ m \in Nat  BY <1>2, <1>6
  <2>2. \A i \in 1..n : i \in 1..n + m  BY <2>1
  <2>3. QED  BY <1>10, <1>11, <2>2
<1>20. ASSUME NEW i \in 1..n, NEW j \in 1..m,
              saved[i].serial = rest[j].serial, saved[i].serial # NoSerial
       PROVE  claims[i] # 0 /\ SameAddr(found[claims[i]].addr, saved[i].ip)
  <2> DEFINE q == Ascending(places)[j]
  <2>1. q \in places /\ rest[j] = found[q]  BY <1>5, <1>6
  <2> HIDE DEF q
  <2>2. q \in DOMAIN found /\ \A k \in 1..n : claims[k] # q  BY <1>4, <2>1
  <2>3. Matches(saved[i], found[q])  BY <1>20, <2>1 DEF Matches
  <2>4. claims[i] # 0 /\ claims[i] # q  BY <1>3, <2>2, <2>3
  <2>5. claims[i] \in DOMAIN found  BY <1>2, <1>3, <2>4
  <2>6. found[claims[i]].serial # saved[i].serial
    BY <1>20, <2>1, <2>2, <2>4, <2>5 DEF FoundOnce
  <2>7. Matches(saved[i], found[claims[i]])  BY <1>3, <2>4
  <2>8. SameAddr(saved[i].ip, found[claims[i]].addr)  BY <2>6, <2>7 DEF Matches
  <2>9. QED  BY <2>4, <2>8 DEF SameAddr
<1>21. ASSUME NEW i \in DOMAIN all, NEW j \in DOMAIN all, all[i].saved, ~all[j].saved,
              all[i].serial = all[j].serial, all[i].serial # NoSerial
       PROVE  all[i].found /\ SameAddr(all[i].addr, saved[i].ip)
  <2>1. i \in 1..n /\ j \in n + 1..n + m  BY <1>10, <1>16, <1>18, <1>21
  <2>2. all[i].serial = saved[i].serial /\ all[i].found = (claims[i] # 0)
        /\ (claims[i] # 0 => all[i].addr = found[claims[i]].addr)
    BY <1>11, <2>1
  <2>3. j - n \in 1..m /\ all[j].serial = rest[j - n].serial  BY <1>12, <2>1
  <2>4. QED  BY <1>20, <1>21, <2>1, <2>2, <2>3
<1>22. Exact(all, saved)
  BY <1>2, <1>17, <1>18, <1>19, <1>21 DEF Exact, RememberedOnce
<1>23. QED  BY <1>10, <1>22 DEF all

\* Everything that answered is in the picker, at the address where it answered, as a camera
\* of its own or as the saved one that took it (buildPicker).
THEOREM PickerShowsAllFound ==
  ASSUME NEW saved \in Seq(SavedCamera), NEW found \in Seq(Found), NEW i \in DOMAIN found
  PROVE  \E k \in DOMAIN BuildPicker(saved, found) :
           /\ BuildPicker(saved, found)[k].found = TRUE
           /\ BuildPicker(saved, found)[k].addr = found[i].addr
<1> DEFINE claims == Claims(saved, found)
           Known(k) == [addr   |-> IF claims[k] = 0 THEN saved[k].ip ELSE found[claims[k]].addr,
                        serial |-> saved[k].serial, saved |-> TRUE, found |-> claims[k] # 0]
           New(d) == [addr |-> d.addr, serial |-> d.serial, saved |-> FALSE, found |-> TRUE]
           places == {j \in DOMAIN found : \A k \in DOMAIN saved : claims[k] # j}
           rest == Kept(found, places)
           known == [k \in DOMAIN saved |-> Known(k)]
           new == [j \in DOMAIN rest |-> New(rest[j])]
           all == BuildPicker(saved, found)
           n == Len(saved)
           m == Len(rest)
<1>1. all = known \o new  BY DEF BuildPicker
<1>2. n \in Nat /\ DOMAIN saved = 1..n /\ DOMAIN found = 1..Len(found) /\ Len(found) \in Nat
  OBVIOUS
<1>3. places \subseteq DOMAIN found /\ (i \in places \/ \E k \in 1..n : claims[k] = i)
  BY <1>2
<1> HIDE DEF claims, places
<1>4. /\ rest \in Seq(Found)
      /\ \A k \in DOMAIN rest : rest[k] = found[Ascending(places)[k]]
      /\ \A j \in places : \E k \in DOMAIN rest : Ascending(places)[k] = j
  BY <1>3, KeptIs
<1> HIDE DEF rest
<1>5. m \in Nat /\ DOMAIN rest = 1..m  BY <1>4
<1> DEFINE Any == {known[k] : k \in 1..n} \cup {new[j] : j \in 1..m}
<1>6. known \in Seq(Any) /\ Len(known) = n /\ new \in Seq(Any) /\ Len(new) = m
  <2>1. known \in [1..n -> Any]  BY <1>2
  <2>2. new \in [1..m -> Any]  BY <1>5
  <2> HIDE DEF known, new, n, m, Any
  <2>3. QED  BY <1>2, <1>5, <2>1, <2>2
<1>7. /\ DOMAIN all = 1..n + m
      /\ \A k \in 1..n : all[k] = known[k]
      /\ \A k \in n + 1..n + m : all[k] = new[k - n]
  <2> HIDE DEF known, new, n, m, Any, all
  <2>1. QED  BY <1>1, <1>6, Joined
<1> HIDE DEF all, Any
<1>8. CASE i \in places
  <2>1. PICK j \in 1..m : rest[j] = found[i]  BY <1>4, <1>5, <1>8
  <2>2. new[j] = New(found[i])  BY <1>5, <2>1
  <2> HIDE DEF n, m, new
  <2>3. j + n \in n + 1..n + m /\ j + n \in 1..n + m /\ (j + n) - n = j  BY <1>2, <1>5
  <2>4. all[j + n] = New(found[i])  BY <1>7, <2>2, <2>3
  <2>5. j + n \in DOMAIN all /\ all[j + n].found = TRUE /\ all[j + n].addr = found[i].addr
    BY <1>7, <2>3, <2>4
  <2>6. QED  BY <2>5 DEF all
<1>9. CASE \E k \in 1..n : claims[k] = i
  <2>1. PICK k \in 1..n : claims[k] = i  BY <1>9
  <2>2. i # 0  BY <1>2
  <2>3. known[k] = Known(k)  BY <1>2
  <2>4. Known(k).found = TRUE /\ Known(k).addr = found[i].addr  BY <2>1, <2>2
  <2> HIDE DEF n, m, known, Known
  <2>5. k \in DOMAIN all /\ all[k] = Known(k)  BY <1>2, <1>5, <1>7, <2>3
  <2>6. k \in DOMAIN all /\ all[k].found = TRUE /\ all[k].addr = found[i].addr  BY <2>4, <2>5
  <2>7. QED  BY <2>6 DEF all
<1>10. QED  BY <1>3, <1>8, <1>9

\* detectCandidates: what a search is started with is one of the lists Candidates names.
LEMMA SearchIsCandidate ==
  ASSUME NEW list \in Seq(SavedCamera), RememberedOnce(list)
  PROVE  MergeAddrs(<<Default>> \o [i \in DOMAIN list |-> list[i].ip]) \in Candidates
<1> DEFINE n == Len(list)
           ips == [i \in 1..n |-> list[i].ip]
<1>1. n \in Nat /\ DOMAIN list = 1..n /\ \A i \in 1..n : list[i] \in SavedCamera
  OBVIOUS
<1>2. ips \in [1..n -> Addrs] /\ ips = [i \in DOMAIN list |-> list[i].ip]
  BY <1>1 DEF SavedCamera
<1>3. ips \in Injection(1..n, Addrs)
  <2>1. \A i, j \in 1..n : ips[i] = ips[j] => i = j  BY <1>1 DEF RememberedOnce
  <2> HIDE DEF ips
  <2>2. QED  BY <1>2, <2>1 DEF Injection, IsInjective
<1> HIDE DEF n, ips
<1>4. n \in 0..Cardinality(Addrs)
  <2>1. IsFiniteSet(1..n) /\ Cardinality(1..n) = n  BY <1>1, FS_Interval
  <2>2. Cardinality(1..n) <= Cardinality(Addrs)
    BY <1>3, <2>1, ConnectScreenAssumption, FS_Injection
  <2>3. Cardinality(Addrs) \in Nat  BY ConnectScreenAssumption, FS_CardinalityType
  <2>4. QED  BY <1>1, <2>1, <2>2, <2>3
<1>5. ips \in UNION {[1..k -> Addrs] : k \in 0..Cardinality(Addrs)}  BY <1>2, <1>4
<1>6. QED  BY <1>2, <1>5 DEF Candidates

\* The search at the start is one of them.
LEMMA FirstSearch == MergeAddrs(<<Default>>) \in Candidates
<1> DEFINE none == <<>>
<1>1. none \in Seq(SavedCamera) /\ RememberedOnce(none)  BY DEF RememberedOnce
<1>2. [i \in DOMAIN none |-> none[i].ip] = <<>>  OBVIOUS
<1>3. <<Default>> \o <<>> = <<Default>>  BY ConnectScreenAssumption, ConcatEmptySeq
<1>4. QED  BY <1>1, <1>2, <1>3, SearchIsCandidate

-----------------------------------------------------------------------------
(* ConnectScreen: the connects *)

Dialers == {Redial} \cup Slots
Dial == [st   : {"none", "dial", "info", "told", "ok", "failed"},
         addr : Addrs \cup {None},
         di   : Bodies \cup {Nobody},
         body : Bodies \cup {Nobody}]

DialTypes ==
  /\ link \in Bodies \cup {Nobody} /\ info \in Bodies \cup {Nobody}
  /\ dials \in [Dialers -> Dial]

\* A connectCmd under way has an address; an answer at hand is of some body, and once it is
\* stored the camera object knows one.
Dialled ==
  /\ \A s \in Slots : dials[s].st \in {"dial", "info", "told", "ok"} => dials[s].addr \in Addrs
  /\ \A s \in Dialers : /\ dials[s].st = "told" => dials[s].di \in Bodies
                        /\ dials[s].st = "ok" => info \in Bodies

\* A connect that nothing got in between of: until it asks, the link, while there is one,
\* is to its body; its answer is of that body; and so is, once stored, what the camera
\* object knows.
Held ==
  \A s \in Dialers : dials[s].body # Nobody =>
    /\ dials[s].st \in {"info", "told", "ok"}
    /\ dials[s].st = "info" => link \in {Nobody, dials[s].body}
    /\ dials[s].st = "told" => dials[s].di = dials[s].body
    /\ dials[s].st = "ok" => info = dials[s].body

DialInv == DialTypes /\ Dialled /\ Held

\* A new connectCmd takes a slot that nobody uses.
LEMMA ConnectCmdDials ==
  ASSUME DialInv, NEW a \in Addrs, ConnectCmd(a), UNCHANGED <<link, info>>
  PROVE  DialInv'
<1>1. PICK s \in Slots : dials' = [dials EXCEPT ![s] = [NoDial EXCEPT !.st = "dial", !.addr = a]]
  BY DEF ConnectCmd
<1> DEFINE new == [NoDial EXCEPT !.st = "dial", !.addr = a]
<1>2. new \in Dial /\ new.st = "dial" /\ new.addr = a /\ new.body = Nobody
  BY DEF NoDial, Dial
<1> HIDE DEF new
<1>3. dials' = [dials EXCEPT ![s] = new]  BY <1>1 DEF new
<1>4. s \in Dialers /\ \A t \in Dialers : dials'[t] = IF t = s THEN new ELSE dials[t]
  BY <1>3 DEF DialInv, DialTypes, Dialers
<1>5. dials' \in [Dialers -> Dial]  BY <1>2, <1>3 DEF DialInv, DialTypes
<1>6. Slots \subseteq Dialers  BY DEF Dialers
<1>7. QED  BY <1>2, <1>4, <1>5, <1>6 DEF DialInv, DialTypes, Dialled, Held

\* Connects that another overtakes are as they were otherwise.
LEMMA OvertakesIs ==
  ASSUME DialTypes, NEW s \in Dialers, NEW point
  PROVE  /\ Overtakes(s, point) \in [Dialers -> Dial]
         /\ Overtakes(s, point)[s] = dials[s]
         /\ \A t \in Dialers : LET o == Overtakes(s, point)[t]
                               IN  /\ o.st = dials[t].st /\ o.addr = dials[t].addr
                                   /\ o.di = dials[t].di
                                   /\ o.body \in {Nobody, dials[t].body}
                                   /\ t # s /\ o.st = point => o.body = Nobody
<1> DEFINE over == Overtakes(s, point)
<1>1. ASSUME NEW t \in Dialers
      PROVE  /\ over[t] \in Dial /\ over[t].st = dials[t].st /\ over[t].addr = dials[t].addr
             /\ over[t].di = dials[t].di /\ over[t].body \in {Nobody, dials[t].body}
             /\ t # s /\ over[t].st = point => over[t].body = Nobody
             /\ t = s => over[t] = dials[t]
  <2>1. dials[t] \in Dial  BY DEF DialTypes
  <2>2. over[t] = IF t # s /\ dials[t].st = point THEN [dials[t] EXCEPT !.body = Nobody] ELSE dials[t]
    BY DEF Overtakes, Dialers
  <2>3. [dials[t] EXCEPT !.body = Nobody] =
        [st |-> dials[t].st, addr |-> dials[t].addr, di |-> dials[t].di, body |-> Nobody]
    BY <2>1 DEF Dial
  <2> HIDE DEF over
  <2>4. QED  BY <2>1, <2>2, <2>3 DEF Dial
<1>2. over = [t \in Dialers |-> over[t]]  BY DEF Overtakes, Dialers
<1> HIDE DEF over
<1>3. over \in [Dialers -> Dial]  BY <1>1, <1>2
<1>4. QED  BY <1>1, <1>3 DEF over

\* The fields of a dial, one by one
LEMMA DialFields ==
  ASSUME NEW d \in Dial, NEW st \in {"none", "dial", "info", "told", "ok", "failed"},
         NEW b \in Bodies \cup {Nobody}
  PROVE  /\ [[d EXCEPT !.st = st] EXCEPT !.body = b] =
              [st |-> st, addr |-> d.addr, di |-> d.di, body |-> b]
         /\ [[d EXCEPT !.st = st] EXCEPT !.di = b] =
              [st |-> st, addr |-> d.addr, di |-> b, body |-> d.body]
         /\ [st |-> st, addr |-> d.addr, di |-> d.di, body |-> b] \in Dial
         /\ [st |-> st, addr |-> d.addr, di |-> b, body |-> d.body] \in Dial
<1>2. d.addr \in Addrs \cup {None} /\ d.di \in Bodies \cup {Nobody} /\ d.body \in Bodies \cup {Nobody}
  BY DEF Dial
<1>3. [st |-> st, addr |-> d.addr, di |-> d.di, body |-> b] \in Dial  BY <1>2 DEF Dial
<1>4. [st |-> st, addr |-> d.addr, di |-> b, body |-> d.body] \in Dial  BY <1>2 DEF Dial
<1>5. /\ [[d EXCEPT !.st = st] EXCEPT !.body = b] =
           [st |-> st, addr |-> d.addr, di |-> d.di, body |-> b]
      /\ [[d EXCEPT !.st = st] EXCEPT !.di = b] =
           [st |-> st, addr |-> d.addr, di |-> b, body |-> d.body]
  <2>1. [d EXCEPT !.st = st] = [st |-> st, addr |-> d.addr, di |-> d.di, body |-> d.body]
    BY DEF Dial
  <2> DEFINE e == [st |-> st, addr |-> d.addr, di |-> d.di, body |-> d.body]
  <2>2. [e EXCEPT !.body = b] = [st |-> st, addr |-> d.addr, di |-> d.di, body |-> b]
    OBVIOUS
  <2>3. [e EXCEPT !.di = b] = [st |-> st, addr |-> d.addr, di |-> b, body |-> d.body]
    OBVIOUS
  <2>4. QED  BY <2>1, <2>2, <2>3
<1>6. QED  BY <1>3, <1>4, <1>5

\* What one step does to the dialer that takes it
LEMMA DialStep ==
  ASSUME DialTypes, NEW s \in Dialers, NEW f \in [Dialers -> Dial], NEW d \in Dial,
         dials' = [f EXCEPT ![s] = d]
  PROVE  /\ dials' \in [Dialers -> Dial] /\ dials'[s] = d
         /\ \A t \in Dialers : t # s => dials'[t] = f[t]
OBVIOUS

LEMMA NoDialIs == NoDial \in Dial /\ NoDial.st = "none" /\ NoDial.body = Nobody
BY DEF NoDial, Dial

\* A connect that ends leaves the others as they are.
LEMMA EndsDials ==
  ASSUME DialInv, NEW s \in Dialers, NEW d \in {NoDial, [NoDial EXCEPT !.st = "failed"]},
         dials' = [dials EXCEPT ![s] = d], link' \in {Nobody, link}, UNCHANGED info
  PROVE  DialInv'
<1>1. d \in Dial /\ d.st \in {"none", "failed"} /\ d.body = Nobody
  BY DEF NoDial, Dial
<1>2. /\ dials' \in [Dialers -> Dial] /\ dials'[s] = d
      /\ \A t \in Dialers : t # s => dials'[t] = dials[t]
  BY <1>1, DialStep DEF DialInv, DialTypes
<1>3. Slots \subseteq Dialers  BY DEF Dialers
<1>4. QED  BY <1>1, <1>2, <1>3 DEF DialInv, DialTypes, Dialled, Held

\* Every step keeps what is known of the connects: whoever connects overtakes those that
\* have not asked yet, whoever stores an answer those that have stored one.
LEMMA NextDials ==
  ASSUME TypeOK, DialInv, [Next]_vars,
         \A s \in DSlots : detects[s] \in Candidates \cup {<<>>}
  PROVE  DialInv'
<1> USE ConnectScreenAssumption
<1>0. Slots \subseteq Dialers /\ Redial \in Dialers /\ Redial \notin Slots
  BY DEF Dialers, Slots, Redial
<1>1. CASE UNCHANGED <<link, info, dials>>
  BY <1>1 DEF DialInv, DialTypes, Dialled, Held
<1>2. CASE UNCHANGED <<info, dials>> /\ link' = Nobody
  BY <1>2 DEF DialInv, DialTypes, Dialled, Held
<1>3. ASSUME NEW a \in Addrs, Type(a) PROVE DialInv'
  BY <1>3, ConnectCmdDials DEF Type
<1>4. ASSUME NEW i \in DOMAIN items, Choose(i) PROVE DialInv'
  <2>1. items[i].addr \in Addrs
    <3>1. items \in Seq(Item)  BY DEF TypeOK, Item
    <3>2. items[i] \in Item  BY <3>1
    <3>3. QED  BY <3>2 DEF Item
  <2>2. QED  BY <1>4, <2>1, ConnectCmdDials DEF Choose
<1>5. ASSUME NEW s \in DSlots, TakeDiscovered(s) PROVE DialInv'
  <2>1. CASE UNCHANGED dials  BY <1>1, <1>5, <2>1 DEF TakeDiscovered
  <2>2. CASE screen = "connect" /\ ~UNCHANGED dials
    <3>1. detects[s] \in Candidates  BY <1>5 DEF TakeDiscovered
    <3>2. PICK list \in DetectAll[detects[s]] : Offer(list)  BY <1>5, <2>2 DEF TakeDiscovered
    <3>3. Len(list) = 1 /\ ConnectCmd(list[1].addr)  BY <2>2, <3>2 DEF Offer
    <3>4. list \in Seq(Found)  BY <3>1, DetectAllIs
    <3>5. list[1].addr \in Addrs
      <4>1. 1 \in DOMAIN list  BY <3>3, <3>4
      <4>2. list[1] \in Found  BY <3>4, <4>1, ElementOfSeq
      <4>3. QED  BY <4>2 DEF Found
    <3>6. UNCHANGED <<link, info>>  BY <1>5 DEF TakeDiscovered
    <3>7. QED  BY <3>3, <3>5, <3>6, ConnectCmdDials
  <2>3. QED  BY <1>5, <2>1, <2>2 DEF TakeDiscovered
<1>6. ASSUME NEW s \in Dialers, NEW b \in Bodies, Connects(s, b) PROVE DialInv'
  <2> DEFINE over == Overtakes(s, "info")
             d == [st |-> "info", addr |-> dials[s].addr, di |-> dials[s].di, body |-> b]
  <2>1. DialTypes /\ dials[s] \in Dial  BY DEF DialInv, DialTypes
  <2>2. d \in Dial /\ [[dials[s] EXCEPT !.st = "info"] EXCEPT !.body = b] = d
    BY <2>1, DialFields
  <2>3. over \in [Dialers -> Dial] /\ over[s] = dials[s]  BY <2>1, OvertakesIs
  <2>4. dials' = [over EXCEPT ![s] = [[dials[s] EXCEPT !.st = "info"] EXCEPT !.body = b]]
    BY <1>6, <2>3 DEF Connects
  <2>6. dials' = [over EXCEPT ![s] = d]  BY <2>2, <2>4
  <2>7. /\ dials' \in [Dialers -> Dial] /\ dials'[s] = d
        /\ \A t \in Dialers : t # s => dials'[t] = over[t]
    <3> HIDE DEF over, d
    <3>1. QED  BY <2>1, <2>2, <2>3, <2>6, DialStep
  <2>8. d.st = "info" /\ d.addr = dials[s].addr /\ d.body = b /\ b # Nobody  OBVIOUS
  <2>9. \A t \in Dialers : /\ over[t].st = dials[t].st /\ over[t].addr = dials[t].addr
                           /\ over[t].di = dials[t].di /\ over[t].body \in {Nobody, dials[t].body}
                           /\ t # s /\ over[t].st = "info" => over[t].body = Nobody
    BY <2>1, OvertakesIs
  <2>10. link' = b /\ UNCHANGED info /\ (s \in Slots => dials[s].st = "dial")
    BY <1>0, <1>6 DEF Connects, Dialing
  <2>11. \A t \in Dialers : t # s => /\ dials'[t].st = dials[t].st /\ dials'[t].addr = dials[t].addr
                                     /\ dials'[t].di = dials[t].di
                                     /\ dials'[t].body \in {Nobody, dials[t].body}
                                     /\ dials'[t].st = "info" => dials'[t].body = Nobody
    BY <2>7, <2>9
  <2> HIDE DEF over, d
  <2>12. DialTypes'  BY <2>1, <2>7, <2>10 DEF DialTypes
  <2>13. Dialled'  BY <1>0, <2>7, <2>8, <2>10, <2>11 DEF DialInv, Dialled
  <2>14. Held'  BY <2>7, <2>8, <2>10, <2>11 DEF DialInv, Held
  <2>15. QED  BY <2>12, <2>13, <2>14 DEF DialInv
<1>7. ASSUME NEW s \in Dialers, AsksInfo(s) PROVE DialInv'
  <2> DEFINE d == [st |-> "told", addr |-> dials[s].addr, di |-> link, body |-> dials[s].body]
  <2>1. DialTypes /\ dials[s] \in Dial /\ dials[s].st = "info" /\ link \in Bodies
    BY <1>7 DEF AsksInfo, DialInv, DialTypes
  <2>2. d \in Dial  BY <2>1, DialFields
  <2>3. [[dials[s] EXCEPT !.st = "told"] EXCEPT !.di = link] = d  BY <2>1, DialFields
  <2>4. dials' = [dials EXCEPT ![s] = [[dials[s] EXCEPT !.st = "told"] EXCEPT !.di = link]]
    BY <1>7, <2>1 DEF AsksInfo, DialTypes
  <2>5. /\ dials' \in [Dialers -> Dial] /\ dials'[s] = d
        /\ \A t \in Dialers : t # s => dials'[t] = dials[t]
    BY <2>1, <2>2, <2>3, <2>4, DialStep DEF DialTypes
  <2>6. UNCHANGED <<link, info>>  BY <1>7 DEF AsksInfo
  <2>7. d.st = "told" /\ d.di = link /\ d.body = dials[s].body /\ d.addr = dials[s].addr  OBVIOUS
  <2> HIDE DEF d
  <2>8. QED  BY <1>0, <2>1, <2>5, <2>6, <2>7 DEF DialInv, DialTypes, Dialled, Held
<1>8. ASSUME NEW s \in Dialers, StoresInfo(s) PROVE DialInv'
  <2> DEFINE over == Overtakes(s, "ok")
             done == [st |-> "ok", addr |-> dials[s].addr, di |-> Nobody, body |-> dials[s].body]
             d == IF s = Redial THEN NoDial ELSE done
  <2>1. DialTypes /\ dials[s] \in Dial /\ dials[s].st = "told" /\ dials[s].di \in Bodies
    BY <1>8 DEF StoresInfo, DialInv, DialTypes, Dialled
  <2>2. over \in [Dialers -> Dial] /\ over[s] = dials[s]  BY <2>1, OvertakesIs
  <2>3. [[dials[s] EXCEPT !.st = "ok"] EXCEPT !.di = Nobody] = done /\ done \in Dial
    BY <2>1, DialFields
  <2>4. dials' = [over EXCEPT ![s] = IF s = Redial THEN NoDial
                                    ELSE [[dials[s] EXCEPT !.st = "ok"] EXCEPT !.di = Nobody]]
    BY <1>8, <2>2 DEF StoresInfo
  <2>5. dials' = [over EXCEPT ![s] = d] /\ d \in Dial  BY <2>3, <2>4, NoDialIs
  <2>6. /\ dials' \in [Dialers -> Dial] /\ dials'[s] = d
        /\ \A t \in Dialers : t # s => dials'[t] = over[t]
    <3> HIDE DEF over, d
    <3>1. QED  BY <2>1, <2>2, <2>5, DialStep
  <2>7. \/ d.st = "none" /\ d.body = Nobody /\ s = Redial
        \/ d.st = "ok" /\ d.body = dials[s].body /\ d.addr = dials[s].addr
    BY NoDialIs
  <2>8. \A t \in Dialers : /\ over[t].st = dials[t].st /\ over[t].addr = dials[t].addr
                           /\ over[t].di = dials[t].di /\ over[t].body \in {Nobody, dials[t].body}
                           /\ t # s /\ over[t].st = "ok" => over[t].body = Nobody
    BY <2>1, OvertakesIs
  <2>9. link' = link /\ info' = dials[s].di /\ info' \in Bodies  BY <1>8, <2>1 DEF StoresInfo
  <2>10. \A t \in Dialers : t # s => /\ dials'[t].st = dials[t].st /\ dials'[t].addr = dials[t].addr
                                     /\ dials'[t].di = dials[t].di
                                     /\ dials'[t].body \in {Nobody, dials[t].body}
                                     /\ dials'[t].st = "ok" => dials'[t].body = Nobody
    BY <2>6, <2>8
  <2> HIDE DEF over, d, done
  <2>11. DialTypes'  BY <2>1, <2>6, <2>9 DEF DialTypes
  <2>12. Dialled'  BY <1>0, <2>1, <2>6, <2>7, <2>9, <2>10 DEF DialInv, Dialled
  <2>13. Held'  BY <2>1, <2>6, <2>7, <2>9, <2>10 DEF DialInv, Held
  <2>14. QED  BY <2>11, <2>12, <2>13 DEF DialInv
<1>9. ASSUME NEW s \in Dialers, ConnectFails(s) PROVE DialInv'
  <2>1. PICK d \in {NoDial, [NoDial EXCEPT !.st = "failed"]} : dials' = [dials EXCEPT ![s] = d]
    BY <1>9 DEF ConnectFails
  <2>2. link' \in {Nobody, link} /\ UNCHANGED info  BY <1>9 DEF ConnectFails
  <2>3. QED  BY <2>1, <2>2, EndsDials
<1>10. ASSUME NEW s \in Slots, TakeConnected(s) PROVE DialInv'
  <2>1. dials' = [dials EXCEPT ![s] = NoDial] /\ UNCHANGED <<link, info>>
    BY <1>10 DEF TakeConnected
  <2>2. QED  BY <1>0, <2>1, EndsDials
<1>11. CASE UNCHANGED vars  BY <1>1, <1>11 DEF vars
<1>12. CASE LeavePicker \/ Detect \/ RefreshFails
  BY <1>1, <1>12 DEF LeavePicker, Detect, RefreshFails
<1>13. CASE SwitchCamera \/ LoseLink
  BY <1>2, <1>13 DEF SwitchCamera, LoseLink
<1>14. QED
  BY <1>3, <1>4, <1>5, <1>6, <1>7, <1>8, <1>9, <1>10, <1>11, <1>12, <1>13
  DEF Next, User, System, Dialers

-----------------------------------------------------------------------------
(* ConnectScreen: the screen, the searches and what is remembered *)

ScreenTypes ==
  /\ screen \in {"connect", "browser"}
  /\ detecting \in BOOLEAN /\ connecting \in BOOLEAN /\ picker \in BOOLEAN
  /\ items \in Seq(Item) /\ cameras \in Seq(SavedCamera) /\ dropped \in BOOLEAN

\* The inductive invariant. A picker can only be exact when no body is remembered
\* twice, and a search only finds each address once when it is given addresses.
ScreenInv ==
  /\ ScreenTypes /\ DialInv
  /\ \A s \in DSlots : detects[s] \in Candidates \cup {<<>>}
  /\ detects \in [DSlots -> Seq(Addrs)]
  /\ RememberedOnce(cameras) /\ PickerIsExact

\* It contains the type invariant of the module.
LEMMA TypesOfInv == ScreenInv => TypeOK
  BY DEF ScreenInv, DialInv, ScreenTypes, DialTypes, TypeOK, Item, SavedCamera, Dialers, Dial

\* It holds at the start.
LEMMA InitScreen == Init => ScreenInv
<1> SUFFICES ASSUME Init PROVE ScreenInv  OBVIOUS
<1> USE DEF Init
<1>1. ScreenTypes
  <2>1. items \in Seq(Item) /\ cameras \in Seq(SavedCamera)  OBVIOUS
  <2>2. QED  BY <2>1, Zenon DEF ScreenTypes
<1>2. DialInv
  <2>1. \A s \in Dialers : dials[s] = NoDial  BY DEF Dialers
  <2>2. dials \in [Dialers -> Dial]  BY NoDialIs DEF Dialers
  <2>3. Slots \subseteq Dialers  BY DEF Dialers
  <2> HIDE DEF Init
  <2>4. link = Nobody /\ info = Nobody  BY DEF Init
  <2>5. QED  BY <2>1, <2>2, <2>3, <2>4, NoDialIs DEF DialInv, DialTypes, Dialled, Held
<1>3. MergeAddrs(<<Default>>) \in Candidates /\ MergeAddrs(<<Default>>) \in Seq(Addrs)
  BY FirstSearch, CandidatesAre
<1>4. \A s \in DSlots : detects[s] \in Candidates \cup {<<>>}  BY <1>3
<1>5. detects \in [DSlots -> Seq(Addrs)]  BY <1>3
<1>6. RememberedOnce(cameras)  BY DEF RememberedOnce
<1>7. PickerIsExact  BY DEF PickerIsExact
<1>8. QED  BY <1>1, <1>2, <1>4, <1>5, <1>6, <1>7 DEF ScreenInv

\* The searches under way are started with lists of addresses.
LEMMA SearchesAre ==
  ASSUME ScreenInv, \/ UNCHANGED detects
                    \/ \E s \in DSlots : DetectCmd(s)
                    \/ \E s \in DSlots : detects' = [detects EXCEPT ![s] = <<>>]
  PROVE  /\ \A s \in DSlots : detects'[s] \in Candidates \cup {<<>>}
         /\ detects' \in [DSlots -> Seq(Addrs)]
<1> DEFINE new == MergeAddrs(<<Default>> \o [i \in DOMAIN cameras |-> cameras[i].ip])
<1>1. new \in Candidates /\ new \in Seq(Addrs)
  BY SearchIsCandidate, CandidatesAre DEF ScreenInv, ScreenTypes
<1>2. \A s \in DSlots : DetectCmd(s) => detects' = [detects EXCEPT ![s] = new]
  BY DEF DetectCmd
<1> HIDE DEF new
<1>3. <<>> \in Seq(Addrs)  OBVIOUS
<1>4. QED  BY <1>1, <1>2, <1>3 DEF ScreenInv

\* A picker that stays as it is, is as exact as it was.
LEMMA PickerStays ==
  ASSUME ScreenInv, UNCHANGED <<picker, items, cameras>>
  PROVE  /\ items' \in Seq(Item) /\ picker' \in BOOLEAN /\ cameras' \in Seq(SavedCamera)
         /\ RememberedOnce(cameras)' /\ PickerIsExact'
  BY DEF ScreenInv, ScreenTypes, RememberedOnce, PickerIsExact, SameBody

\* So is one that is left.
LEMMA PickerLeft ==
  ASSUME ScreenInv, UNCHANGED cameras, items' = <<>>, picker' = FALSE
  PROVE  /\ items' \in Seq(Item) /\ picker' \in BOOLEAN /\ cameras' \in Seq(SavedCamera)
         /\ RememberedOnce(cameras)' /\ PickerIsExact'
<1>1. cameras' \in Seq(SavedCamera) /\ RememberedOnce(cameras)'
  BY DEF ScreenInv, ScreenTypes, RememberedOnce
<1>2. PickerIsExact' /\ items' \in Seq(Item)  BY DEF PickerIsExact
<1>3. picker' \in BOOLEAN  BY Zenon
<1>4. QED  BY <1>1, <1>2, <1>3

\* Each action, for what it does to the screen, the searches and what is remembered
LEMMA NextScreen == ScreenInv /\ [Next]_vars => ScreenInv'
<1> SUFFICES ASSUME ScreenInv, [Next]_vars PROVE ScreenInv'
  OBVIOUS
<1>1. DialInv'
  BY TypesOfInv, NextDials DEF ScreenInv
<1> DEFINE Searching == \/ UNCHANGED detects
                        \/ \E s \in DSlots : DetectCmd(s)
                        \/ \E s \in DSlots : detects' = [detects EXCEPT ![s] = <<>>]
           Flags == /\ screen' \in {"connect", "browser"} /\ detecting' \in BOOLEAN
                    /\ connecting' \in BOOLEAN /\ dropped' \in BOOLEAN
           Listed == /\ items' \in Seq(Item) /\ picker' \in BOOLEAN /\ cameras' \in Seq(SavedCamera)
                     /\ RememberedOnce(cameras)' /\ PickerIsExact'
<1>2. ASSUME Searching, Flags, Listed PROVE ScreenInv'
  <2>1. ScreenTypes'  BY <1>2, Zenon DEF ScreenTypes
  <2>2. /\ \A s \in DSlots : detects'[s] \in Candidates \cup {<<>>}
        /\ detects' \in [DSlots -> Seq(Addrs)]
    <3>1. Searching  BY <1>2
    <3> HIDE DEF Listed, Flags
    <3>2. QED  BY <3>1, SearchesAre
  <2>3. RememberedOnce(cameras)' /\ PickerIsExact'  BY <1>2
  <2>4. QED  BY <1>1, <2>1, <2>2, <2>3, Zenon DEF ScreenInv
<1>3. ASSUME Searching, Flags, UNCHANGED <<picker, items, cameras>> PROVE ScreenInv'
  <2>1. Listed  BY <1>3, PickerStays
  <2> HIDE DEF Searching, Flags, Listed
  <2>2. QED  BY <1>2, <1>3, <2>1
<1>4. ASSUME Searching, Flags, UNCHANGED cameras, items' = <<>>, picker' = FALSE PROVE ScreenInv'
  <2>1. Listed  BY <1>4, PickerLeft
  <2> HIDE DEF Searching, Flags, Listed
  <2>2. QED  BY <1>2, <1>4, <2>1
<1>5. /\ screen \in {"connect", "browser"} /\ detecting \in BOOLEAN /\ connecting \in BOOLEAN
      /\ dropped \in BOOLEAN
  BY DEF ScreenInv, ScreenTypes
<1> HIDE DEF Flags, Searching
<1>6. ASSUME UNCHANGED <<model, cameras, detects, dropped>> PROVE ScreenInv'
  <2>1. Flags  BY <1>5, <1>6, Zenon DEF model, Flags
  <2>2. Searching /\ UNCHANGED <<picker, items, cameras>>  BY <1>6 DEF model, Searching
  <2>3. QED  BY <1>3, <2>1, <2>2
<1>7. ASSUME NEW a \in Addrs, Type(a) PROVE ScreenInv'
  <2>1. Flags  BY <1>5, <1>7, Zenon DEF Type, Flags
  <2>2. Searching /\ UNCHANGED <<picker, items, cameras>>  BY <1>7 DEF Type, Searching
  <2>3. QED  BY <1>3, <2>1, <2>2
<1>8. ASSUME NEW i \in DOMAIN items, Choose(i) PROVE ScreenInv'
  <2>1. Flags  BY <1>5, <1>8, Zenon DEF Choose, Flags
  <2>2. Searching /\ UNCHANGED cameras /\ items' = <<>> /\ picker' = FALSE  BY <1>8 DEF Choose, Searching
  <2>3. QED  BY <1>4, <2>1, <2>2
<1>9. ASSUME LeavePicker PROVE ScreenInv'
  <2>1. Flags  BY <1>5, <1>9, Zenon DEF LeavePicker, Flags
  <2>2. Searching /\ UNCHANGED cameras /\ items' = <<>> /\ picker' = FALSE  BY <1>9 DEF LeavePicker, Searching
  <2>3. QED  BY <1>4, <2>1, <2>2
<1>10. ASSUME Detect PROVE ScreenInv'
  <2>1. Flags  BY <1>5, <1>10, Zenon DEF Detect, Flags
  <2>2. Searching /\ UNCHANGED cameras /\ items' = <<>> /\ picker' = FALSE  BY <1>10 DEF Detect, Searching
  <2>3. QED  BY <1>4, <2>1, <2>2
<1>11. ASSUME SwitchCamera PROVE ScreenInv'
  <2>1. Flags
    <3>1. screen' = "connect"  BY <1>11 DEF SwitchCamera
    <3>2. screen' \in {"connect", "browser"}  BY <3>1
    <3>3. QED  BY <1>5, <1>11, <3>2, Zenon DEF SwitchCamera, Flags
  <2>2. Searching /\ UNCHANGED <<picker, items, cameras>>  BY <1>11 DEF SwitchCamera, Searching
  <2>3. QED  BY <1>3, <2>1, <2>2
<1>12. ASSUME RefreshFails PROVE ScreenInv'
  <2>1. Flags
    <3>1. screen' = "connect"  BY <1>12 DEF RefreshFails
    <3>2. screen' \in {"connect", "browser"}  BY <3>1
    <3>3. QED  BY <1>5, <1>12, <3>2, Zenon DEF RefreshFails, Flags
  <2>2. Searching /\ UNCHANGED <<picker, items, cameras>>  BY <1>12 DEF RefreshFails, Searching
  <2>3. QED  BY <1>3, <2>1, <2>2
<1>13. ASSUME NEW s \in DSlots, TakeDiscovered(s) PROVE ScreenInv'
  <2>1. Searching /\ UNCHANGED <<screen, cameras>> /\ detects[s] \in Candidates
    BY <1>13 DEF TakeDiscovered, Searching, ScreenInv
  <2>2. CASE screen # "connect"
    <3>1. UNCHANGED <<detecting, connecting, picker, items>> /\ dropped' = detecting
      BY <1>13, <2>2 DEF TakeDiscovered
    <3>2. screen' \in {"connect", "browser"}  BY <1>5, <2>1
    <3>s. Flags  BY <1>5, <3>1, <3>2, Zenon DEF Flags
    <3>3. QED  BY <1>3, <2>1, <3>1, <3>s
  <2>3. CASE screen = "connect"
    <3>1. PICK list \in DetectAll[detects[s]] : detecting' = FALSE /\ dropped' = FALSE /\ Offer(list)
      BY <1>13, <2>3, Zenon DEF TakeDiscovered
    <3>2. Flags  BY <1>5, <2>1, <3>1, Zenon DEF Offer, Flags
    <3>3. CASE UNCHANGED <<picker, items>>
      BY <1>3, <2>1, <3>2, <3>3
    <3>4. CASE picker' = TRUE /\ items' = BuildPicker(cameras, list)
      <4>1. list \in Seq(Found) /\ FoundOnce(list)  BY <2>1, DetectAllIs
      <4>2. cameras \in Seq(SavedCamera) /\ RememberedOnce(cameras)  BY DEF ScreenInv, ScreenTypes
      <4>3. items' \in Seq(Item) /\ Exact(items', cameras)  BY <3>4, <4>1, <4>2, BuildPickerIs
      <4>4. PickerIsExact'  BY <2>1, <4>3 DEF PickerIsExact, Exact, SameBody
      <4>5. RememberedOnce(cameras)' /\ cameras' \in Seq(SavedCamera)
        BY <2>1, <4>2 DEF RememberedOnce
      <4>6. picker' \in BOOLEAN  BY <3>4, Zenon
      <4>7. Listed  BY <4>3, <4>4, <4>5, <4>6, Zenon
      <4> HIDE DEF Listed
      <4>8. QED  BY <1>2, <2>1, <3>2, <4>7
    <3>5. QED  BY <3>1, <3>3, <3>4, Zenon DEF Offer
  <2>4. QED  BY <2>2, <2>3
<1>14. ASSUME NEW s \in Slots, TakeConnected(s) PROVE ScreenInv'
  <2>1. Searching  BY <1>14 DEF TakeConnected, Searching
  <2>2. CASE screen # "connect"  BY <1>6, <1>14, <2>2, Zenon DEF TakeConnected
  <2>3. CASE screen = "connect" /\ dials[s].st = "failed"
    <3>1. /\ UNCHANGED <<screen, picker, items, cameras, dropped>>
          /\ UNCHANGED detecting /\ connecting' = FALSE
      BY <1>14, <2>3 DEF TakeConnected
    <3>2. screen' \in {"connect", "browser"}  BY <1>5, <3>1
    <3>3. Flags  BY <1>5, <3>1, <3>2, Zenon DEF Flags
    <3>4. QED  BY <1>3, <2>1, <3>1, <3>3
  <2>4. CASE screen = "connect" /\ dials[s].st # "failed"
    <3>1. /\ dials[s].st = "ok" /\ Remember(s) /\ screen' = "browser" /\ picker' = FALSE /\ items' = <<>>
          /\ UNCHANGED <<detecting, dropped>> /\ connecting' = FALSE
      BY <1>14, <2>4 DEF TakeConnected
    <3>2. Flags
      <4>1. screen' \in {"connect", "browser"}  BY <3>1
      <4>2. QED  BY <1>5, <3>1, <4>1, Zenon DEF Flags
    <3>3. [ip |-> dials[s].addr, serial |-> info] \in SavedCamera
      BY <3>1 DEF ScreenInv, DialInv, Dialled, SavedCamera, Dialers
    <3>4. cameras' \in Seq(SavedCamera) /\ RememberedOnce(cameras')
      BY <3>1, <3>3, UpsertIs DEF Remember, ScreenInv, ScreenTypes
    <3>5. RememberedOnce(cameras)'  BY <3>4 DEF RememberedOnce
    <3>6. PickerIsExact'  BY <3>1 DEF PickerIsExact
    <3>7. items' \in Seq(Item)  BY <3>1
    <3>8. picker' \in BOOLEAN  BY <3>1, Zenon
    <3>9. Listed  BY <3>4, <3>5, <3>6, <3>7, <3>8, Zenon
    <3> HIDE DEF Listed
    <3>10. QED  BY <1>2, <2>1, <3>2, <3>9
  <2>5. QED  BY <2>2, <2>3, <2>4
<1>15. CASE LoseLink \/ UNCHANGED vars
  BY <1>6, <1>15 DEF LoseLink, vars
<1>16. CASE \E s \in Dialers : \/ \E b \in Bodies : Connects(s, b)
                              \/ AsksInfo(s) \/ StoresInfo(s) \/ ConnectFails(s)
  BY <1>6, <1>16 DEF Connects, AsksInfo, StoresInfo, ConnectFails
<1>17. QED
  BY <1>7, <1>8, <1>9, <1>10, <1>11, <1>12, <1>13, <1>14, <1>15, <1>16
  DEF Next, User, System, Dialers

\* It holds always.
LEMMA AlwaysScreen == Spec => []ScreenInv
<1>1. Init => ScreenInv  BY InitScreen
<1>2. ScreenInv /\ [Next]_vars => ScreenInv'  BY NextScreen
<1>3. QED  BY <1>1, <1>2, PTL DEF Spec

\* The fields of the model, the goroutines' results and what is remembered have their
\* types: an item of the picker has an address, also one that answered no search
\* (model.go, picker.go).
THEOREM ConnectScreenTypes == Spec => []TypeOK
<1>1. ScreenInv => TypeOK  BY TypesOfInv
<1>2. QED  BY <1>1, AlwaysScreen, PTL

\* Whatever is saved and whatever answers, the picker offers each place that answers once
\* and each saved camera once among the saved; and one that was identified is offered again
\* as new only if something else answers where it was saved (buildPicker, UpsertCamera,
\* DetectAll).
THEOREM PickerIsAlwaysExact == Spec => []PickerIsExact
<1>1. ScreenInv => PickerIsExact  BY DEF ScreenInv
<1>2. QED  BY <1>1, AlwaysScreen, PTL

\* A search that was started is under way: it has an address to ask, its own at least.
LEMMA SearchRuns ==
  ASSUME ScreenInv, NEW s \in DSlots, DetectCmd(s)
  PROVE  detects'[s] # <<>>
<1> DEFINE ips == [i \in DOMAIN cameras |-> cameras[i].ip]
           list == <<Default>> \o ips
<1>1. ips \in Seq(Addrs)
  <2>1. cameras \in Seq(SavedCamera)  BY DEF ScreenInv, ScreenTypes
  <2>2. /\ Len(cameras) \in Nat /\ DOMAIN cameras = 1..Len(cameras)
        /\ \A i \in 1..Len(cameras) : cameras[i] \in SavedCamera
    BY <2>1
  <2>3. ips \in [1..Len(cameras) -> Addrs]  BY <2>2 DEF SavedCamera
  <2> HIDE DEF ips
  <2>4. QED  BY <2>2, <2>3
<1>2. list \in Seq(Addrs) /\ 1 \in DOMAIN list
  <2> HIDE DEF ips
  <2>1. QED  BY <1>1, ConnectScreenAssumption
<1>3. detects'[s] = MergeAddrs(list)  BY DEF DetectCmd, ScreenInv
<1> HIDE DEF list
<1>4. DOMAIN MergeAddrs(list) # {}  BY <1>2, MergeLosesNoPlace
<1>5. QED  BY <1>3, <1>4

\* A connect shows on its own screen only.
OnScreen == connecting => screen = "connect"

\* While the screen says that it searches or connects a command is under way that will
\* reset this, but for a result that the browser dropped (startDetect, updateConnect).
THEOREM SpinnersAreCaused == Spec => []SpinnersHaveCause
<1> DEFINE Spins == SpinnersHaveCause /\ OnScreen
<1>1. Init => Spins  BY DEF Init, SpinnersHaveCause, OnScreen
<1>2. ASSUME ScreenInv, Spins, [Next]_vars PROVE Spins'
  <2> USE <1>2
  <2>t. dials \in [Dialers -> Dial] /\ Slots \subseteq Dialers
    BY DEF ScreenInv, DialInv, DialTypes, Dialers
  <2> DEFINE Searching == detecting' => dropped' \/ \E s \in DSlots : detects'[s] # <<>>
             Dialling  == /\ connecting' => \E s \in Slots : dials'[s].st # "none"
                          /\ connecting' => screen' = "connect"
  <2>1. ASSUME UNCHANGED <<detecting, dropped, detects>> PROVE Searching
    BY <2>1 DEF SpinnersHaveCause
  <2>2. ASSUME NEW s \in DSlots, DetectCmd(s) PROVE Searching
    BY <2>2, SearchRuns
  <2>3. ASSUME UNCHANGED <<connecting, dials>>, connecting => screen' = "connect" PROVE Dialling
    BY <2>3 DEF SpinnersHaveCause
  <2>4. ASSUME NEW a \in Addrs, ConnectCmd(a), screen' = "connect" PROVE Dialling
    BY <2>4, <2>t DEF ConnectCmd, NoDial
  <2>5. ASSUME UNCHANGED <<connecting, screen>>, \A t \in Slots : dials[t].st # "none" => dials'[t].st # "none"
        PROVE  Dialling
    BY <2>5 DEF SpinnersHaveCause, OnScreen
  <2>6. ASSUME NEW a \in Addrs, Type(a) PROVE Searching /\ Dialling
    <3>1. screen' = "connect" /\ ConnectCmd(a) /\ UNCHANGED <<detecting, dropped, detects>>
      BY <2>6 DEF Type
    <3> HIDE DEF Searching, Dialling
    <3>2. QED  BY <2>1, <2>4, <3>1
  <2>7. ASSUME NEW i \in DOMAIN items, Choose(i) PROVE Searching /\ Dialling
    <3>1. screen' = "connect" /\ ConnectCmd(items[i].addr) /\ UNCHANGED <<detecting, dropped, detects>>
      BY <2>7 DEF Choose
    <3>2. items[i].addr \in Addrs
      <4>1. items \in Seq(Item)  BY DEF ScreenInv, ScreenTypes
      <4>2. items[i] \in Item  BY <4>1
      <4>3. QED  BY <4>2 DEF Item
    <3> HIDE DEF Searching, Dialling
    <3>3. QED  BY <2>1, <2>4, <3>1, <3>2
  <2>8. ASSUME LeavePicker \/ RefreshFails \/ LoseLink \/ UNCHANGED vars PROVE Searching /\ Dialling
    <3>1. UNCHANGED <<detecting, dropped, detects>> /\ UNCHANGED <<connecting, dials>>
      BY <2>8 DEF LeavePicker, RefreshFails, LoseLink, vars, model
    <3>2. connecting => screen' = "connect"
      BY <2>8 DEF LeavePicker, RefreshFails, LoseLink, vars, model, OnScreen
    <3> HIDE DEF Searching, Dialling
    <3>3. QED  BY <2>1, <2>3, <3>1, <3>2
  <2>9. ASSUME Detect \/ SwitchCamera PROVE Searching /\ Dialling
    <3>1. PICK s \in DSlots : DetectCmd(s)  BY <2>9 DEF Detect, SwitchCamera
    <3>2. UNCHANGED <<connecting, dials>> /\ (connecting => screen' = "connect")
      BY <2>9 DEF Detect, SwitchCamera, OnScreen
    <3> HIDE DEF Searching, Dialling
    <3>3. QED  BY <2>2, <2>3, <3>1, <3>2
  <2>10. ASSUME NEW s \in DSlots, TakeDiscovered(s) PROVE Searching /\ Dialling
    <3>1. CASE screen # "connect"
      <4>1. dropped' = detecting /\ UNCHANGED <<detecting, connecting, dials, screen>>
        BY <2>10, <3>1 DEF TakeDiscovered
      <4>2. Searching  BY <4>1
      <4>3. Dialling  BY <2>3, <4>1 DEF OnScreen
      <4>4. QED  BY <4>2, <4>3
    <3>2. CASE screen = "connect"
      <4>1. PICK list \in DetectAll[detects[s]] : detecting' = FALSE /\ Offer(list)
        BY <2>10, <3>2, Zenon DEF TakeDiscovered
      <4>2. screen' = "connect"  BY <2>10, <3>2 DEF TakeDiscovered
      <4>3. detects[s] \in Candidates  BY <2>10 DEF TakeDiscovered, ScreenInv
      <4>4. list \in Seq(Found)  BY <4>3, DetectAllIs
      <4>5. Dialling
        <5>1. CASE UNCHANGED <<connecting, dials>>  BY <2>3, <4>2, <5>1
        <5>2. CASE Len(list) = 1 /\ ConnectCmd(list[1].addr)
          <6>1. list[1] \in Found  BY <4>4, <5>2
          <6>2. list[1].addr \in Addrs  BY <6>1 DEF Found
          <6> HIDE DEF Dialling
          <6>3. QED  BY <2>4, <4>2, <5>2, <6>2
        <5>3. QED  BY <4>1, <5>1, <5>2 DEF Offer
      <4>6. QED  BY <4>1, <4>5
    <3>3. QED  BY <3>1, <3>2
  <2>11. ASSUME NEW s \in Slots, TakeConnected(s) PROVE Searching /\ Dialling
    <3>1. UNCHANGED <<detecting, dropped, detects>>  BY <2>11 DEF TakeConnected, model
    <3>2. Dialling
      <4>1. CASE screen # "connect"  BY <2>11, <4>1 DEF TakeConnected, model, OnScreen
      <4>2. CASE screen = "connect"  BY <2>11, <4>2 DEF TakeConnected
      <4>3. QED  BY <4>1, <4>2
    <3>3. QED  BY <2>1, <3>1, <3>2
  <2>12. ASSUME NEW s \in Dialers, (\E b \in Bodies : Connects(s, b)) \/ AsksInfo(s) \/ StoresInfo(s) \/ ConnectFails(s)
         PROVE  Searching /\ Dialling
    <3>1. UNCHANGED <<detecting, dropped, detects, connecting, screen>>
      BY <2>12 DEF Connects, AsksInfo, StoresInfo, ConnectFails, model
    <3>2. \A t \in Slots : dials[t].st # "none" => dials'[t].st # "none"
      <4> SUFFICES ASSUME NEW t \in Slots, dials[t].st # "none" PROVE dials'[t].st # "none"
        OBVIOUS
      <4>1. t \in Dialers /\ t # Redial  BY DEF Dialers, Slots, Redial, ConnectScreenAssumption
      <4>2. dials[t] \in Dial  BY <2>t, <4>1
      <4>3. ASSUME NEW b \in Bodies, Connects(s, b) PROVE dials'[t].st # "none"
        BY <4>1, <4>2, <4>3, <2>t DEF Connects, Overtakes, Dialers, Dial
      <4>4. CASE AsksInfo(s)  BY <4>1, <4>2, <4>4, <2>t DEF AsksInfo, Dial
      <4>5. CASE StoresInfo(s)
        BY <4>1, <4>2, <4>5, <2>t DEF StoresInfo, Overtakes, Dialers, Dial
      <4>6. CASE ConnectFails(s)  BY <4>1, <4>2, <4>6, <2>t DEF ConnectFails, NoDial, Dial
      <4>7. QED  BY <2>12, <4>3, <4>4, <4>5, <4>6
    <3> HIDE DEF Searching, Dialling
    <3>3. QED  BY <2>1, <2>5, <3>1, <3>2
  <2> HIDE DEF Searching, Dialling
  <2>13. Searching /\ Dialling
    BY <2>6, <2>7, <2>8, <2>9, <2>10, <2>11, <2>12 DEF Next, User, System, Dialers
  <2>14. QED  BY <2>13 DEF Searching, Dialling, SpinnersHaveCause, OnScreen
<1>3. Spins => SpinnersHaveCause  OBVIOUS
<1> HIDE DEF Spins
<1>4. QED  BY <1>1, <1>2, <1>3, AlwaysScreen, PTL DEF Spec

\* A connect that no other got in between of, before its question or after its store, is
\* remembered with the body that answered it (Connect, updateConnect).
THEOREM RemembersWhoAnswered == Spec => SavedPairIsTrue
<1> DEFINE True == \A s \in Slots :
             /\ cameras' # cameras /\ dials[s].body # Nobody /\ dials'[s] = NoDial
             => cameras'[1] = [ip |-> dials[s].addr, serial |-> dials[s].body]
<1>1. ASSUME ScreenInv, [Next]_vars PROVE [True]_vars
  <2> SUFFICES ASSUME NEW s \in Slots, cameras' # cameras, dials[s].body # Nobody, dials'[s] = NoDial
               PROVE  cameras'[1] = [ip |-> dials[s].addr, serial |-> dials[s].body]
    OBVIOUS
  <2>1. PICK t \in Slots : TakeConnected(t)
    BY <1>1 DEF Next, User, System, vars, Type, Choose, LeavePicker, Detect, SwitchCamera, LoseLink,
                RefreshFails, TakeDiscovered, Connects, AsksInfo, StoresInfo, ConnectFails
  <2>2. t = s
    <3>1. dials' = [dials EXCEPT ![t] = NoDial]  BY <2>1 DEF TakeConnected
    <3>2. dials[s] # NoDial  BY DEF NoDial
    <3>3. s # t => dials'[s] = dials[s]  BY <1>1, <3>1 DEF ScreenInv, DialInv, DialTypes, Dialers
    <3>4. QED  BY <3>2, <3>3
  <2>3. dials[s].st = "ok" /\ info = dials[s].body /\ dials[s].addr \in Addrs
    BY <1>1, <2>1, <2>2 DEF TakeConnected, ScreenInv, DialInv, Held, Dialled, Dialers
  <2>4. Remember(s)  BY <2>1, <2>2, <2>3 DEF TakeConnected, model
  <2>5. [ip |-> dials[s].addr, serial |-> info] \in SavedCamera
    BY <1>1, <2>1, <2>2, <2>3 DEF ScreenInv, DialInv, Dialled, SavedCamera, Dialers
  <2>6. cameras'[1] = [ip |-> dials[s].addr, serial |-> info]
    BY <1>1, <2>4, <2>5, UpsertIs DEF Remember, ScreenInv, ScreenTypes
  <2>7. QED  BY <2>3, <2>6
<1>2. Spec => [][True]_vars
  <2>1. ScreenInv /\ [Next]_vars => [True]_vars  BY <1>1
  <2>2. QED  BY <2>1, AlwaysScreen, PTL DEF Spec
<1>3. QED  BY <1>2 DEF SavedPairIsTrue

-----------------------------------------------------------------------------
(* UpdateLoop *)

PcState == {"idle", "lock", "txn", "ok", "error", "report", "firing", "waiting", "over",
            "between", "emit", "closed", "closing", "dialing", "arming", "reading", "failed"}

UpdateTypeOK ==
  /\ mu \in {0} \cup Procs /\ links \in Links /\ conn \in {0, links} /\ sick \subseteq Links
  /\ latch \in 1..links /\ once \in [Links -> {"new", "running", "done"}]
  /\ pc \in [Procs -> PcState]
  /\ runs \in [Procs -> 0..MaxLinks] /\ mine \in [Procs -> 0..links]
  /\ ready \subseteq 1..links
  /\ \A i \in Loops : pc[i] = "arming" => mine[i] # 0

Reporting == {"report", "firing", "waiting"}

\* A transaction, and for a worker the report of its loss, run under mu.
UnderMu ==
  \A p \in Procs : /\ pc[p] = "txn" => mu = p
                   /\ p \in Workers /\ pc[p] \in Reporting \cup {"emit"} => mu = p

\* A worker that found a link dead names one that the client no longer has.
Gone ==
  \A g \in Workers :
    /\ pc[g] \in Reporting \cup {"error"} => mine[g] # conn \/ mine[g] = 0
    /\ pc[g] \notin Reporting \cup {"error", "closed"} => mine[g] = 0
    /\ pc[g] = "report" /\ mine[g] # 0 => mine[g] = links

\* The loss of a ready link is reported through the latch of that link.
OwnLatch ==
  /\ conn \in ready => latch = conn
  /\ \A g \in Workers : mine[g] \in ready =>
       /\ pc[g] = "report" => latch = mine[g]
       /\ pc[g] \in {"firing", "waiting"} => runs[g] = mine[g]

\* The inductive invariant: that the latch of a lost link was told is known when the
\* report ends, because report, latch and mutex were of one link all along.
LossInv == UpdateTypeOK /\ UnderMu /\ Gone /\ OwnLatch /\ ToldBeforeError

\* The goroutines are different ones.
LEMMA Apart ==
  /\ MaxLinks \in Nat /\ Links = 1..MaxLinks /\ Links \subseteq Nat /\ 1 \in Links /\ Readers = Links
  /\ Workers \cap (Readers \cup Loops) = {} /\ Readers \cap Loops = {} /\ 0 \notin Procs
  /\ Loops \subseteq Procs /\ Readers \subseteq Procs /\ Workers \subseteq Procs
  /\ Cmds \subseteq Workers /\ Importer \in Workers /\ Importer \in Procs /\ Importer \notin Cmds
  BY UpdateLoopAssumption DEF Workers, Readers, Loops, Links, Procs

\* It holds at the start.
LEMMA InitLoss == UpdateInit => LossInv
  BY Apart, UpdateLoopAssumption
  DEF UpdateInit, LossInv, UpdateTypeOK, UnderMu, Gone, OwnLatch, ToldBeforeError, PcState, Reporting, Links

\* One goroutine moves and touches neither the client nor the latches.
LEMMA MovesLoss ==
  ASSUME LossInv, UNCHANGED <<mu, socks, latch, once, runs, mine, ready>>,
         NEW p \in Procs, NEW to \in PcState, pc' = [pc EXCEPT ![p] = to],
         to \notin Reporting \cup {"txn", "arming"},
         p \in Workers => \/ to = "emit" /\ mu = p /\ mine[p] = 0
                          \/ to \in {"closed"}
                          \/ to # "emit" /\ mine[p] = 0
                          \/ to = "error" /\ mine[p] # conn /\ (mine[p] \in ready => once[mine[p]] = "done")
  PROVE  LossInv'
<1> USE Apart DEF LossInv, socks
<1>1. UpdateTypeOK'  BY DEF UpdateTypeOK
<1>2. UnderMu'  BY DEF UpdateTypeOK, UnderMu, Reporting
<1>3. Gone'  BY DEF UpdateTypeOK, Gone, Reporting
<1>4. OwnLatch'  BY DEF UpdateTypeOK, OwnLatch, Reporting
<1>5. ToldBeforeError'  BY DEF UpdateTypeOK, ToldBeforeError
<1>6. QED  BY <1>1, <1>2, <1>3, <1>4, <1>5

\* Steps of the update loop that leave every goroutine where it is.
LEMMA StaysLoss ==
  ASSUME LossInv, UNCHANGED <<mu, socks, latch, once, runs, mine, ready, pc>>
  PROVE  LossInv'
BY DEF LossInv, UpdateTypeOK, UnderMu, Gone, OwnLatch, ToldBeforeError, socks

\* Where a goroutine goes on once its report is over.
LEMMA OverOf ==
  \A p \in Procs : /\ Over(p) \in {"over", "error"}
                   /\ p \in Workers => Over(p) = "error"
                   /\ p \notin Readers => Over(p) = "error"
  BY Apart DEF Over

\* The steps of a transaction and of the report of a loss.
LEMMA TransactLoss ==
  ASSUME LossInv, NEW p \in Procs, Transact(p)
  PROVE  LossInv'
<1>t. /\ pc \in [Procs -> PcState] /\ mine \in [Procs -> 0..links] /\ runs \in [Procs -> 0..MaxLinks]
      /\ once \in [Links -> {"new", "running", "done"}] /\ ready \subseteq 1..links /\ latch \in 1..links
      /\ links \in Links /\ conn \in {0, links} /\ mu \in {0} \cup Procs
  BY DEF LossInv, UpdateTypeOK
<1>l. latch \in Links /\ latch \in 0..MaxLinks /\ 1..links \subseteq Links  BY <1>t, Apart
<1>g. /\ p \in Workers /\ pc[p] \notin Reporting \cup {"error", "closed"} => mine[p] = 0
      /\ p \in Workers /\ pc[p] \in Reporting => mu = p /\ (mine[p] # conn \/ mine[p] = 0)
      /\ pc[p] = "txn" => mu = p
  BY DEF LossInv, Gone, UnderMu
<1>1. CASE CmdStarts(p)
  <2>1. p \in Workers /\ pc[p] = "idle" /\ pc' = [pc EXCEPT ![p] = "lock"]
    BY <1>1, Apart DEF CmdStarts, Step
  <2>2. UNCHANGED <<mu, socks, latch, once, runs, mine, ready>>  BY <1>1 DEF CmdStarts
  <2>3. QED  BY <2>1, <2>2, <1>g, Apart, MovesLoss DEF Reporting, PcState
<1>2. CASE Lock(p)
  <2>1. /\ mu = 0 /\ mu' = p /\ pc[p] = "lock" /\ pc' = [pc EXCEPT ![p] = "txn"]
        /\ UNCHANGED <<socks, latch, once, runs, mine, ready>>
    BY <1>2 DEF Lock, Step
  <2>2. UpdateTypeOK' /\ UnderMu' /\ Gone' /\ OwnLatch' /\ ToldBeforeError'
    BY <2>1, <1>t, Apart
    DEF LossInv, UpdateTypeOK, UnderMu, Gone, OwnLatch, ToldBeforeError, Reporting, socks, PcState
  <2>3. QED  BY <2>2 DEF LossInv
<1>3. CASE Refused(p)
  <2>1. pc[p] = "lock" /\ pc' = [pc EXCEPT ![p] = "error"]
    BY <1>3 DEF Refused, Step
  <2>2. UNCHANGED <<mu, socks, latch, once, runs, mine, ready>>  BY <1>3 DEF Refused
  <2>3. QED  BY <2>1, <2>2, <1>g, Apart, MovesLoss DEF Reporting, PcState
<1>4. CASE Answered(p)
  <2>1. /\ mu = p /\ mu' = 0 /\ pc[p] = "txn"
        /\ pc' = [pc EXCEPT ![p] = IF p = Importer THEN "between" ELSE "ok"]
        /\ UNCHANGED <<socks, latch, once, runs, mine>>
    BY <1>4, <1>g DEF Answered, Step
  <2>2. ready' \subseteq ready \cup {conn} /\ (conn \in ready' => latch = conn \/ conn \in ready)
        /\ ready' \subseteq 1..links
    BY <1>4, <1>t, Apart DEF Answered, UpdateTypeOK
  <2>3. UpdateTypeOK'  BY <2>1, <2>2, <1>t, <1>l, Apart DEF LossInv, UpdateTypeOK, socks, PcState
  <2>4. UnderMu'  BY <2>1, <1>t, Apart DEF LossInv, UnderMu, Reporting
  <2>5. Gone'  BY <2>1, <1>t, <1>g, Apart DEF LossInv, Gone, Reporting, socks
  <2>6. OwnLatch'  BY <2>1, <2>2, <1>t, Apart DEF LossInv, OwnLatch, Gone, Reporting, socks
  <2>7. ToldBeforeError'  BY <2>1, <2>2, <1>t, Apart DEF LossInv, ToldBeforeError, Gone, Reporting
  <2>8. QED  BY <2>3, <2>4, <2>5, <2>6, <2>7 DEF LossInv
<1>5. CASE Drops(p)
  <2>1. /\ mu = p /\ pc[p] = "txn" /\ pc' = [pc EXCEPT ![p] = "report"] /\ conn' = 0
        /\ mine' = IF p \in Workers THEN [mine EXCEPT ![p] = conn] ELSE mine
        /\ UNCHANGED <<mu, sick, links, latch, once, runs, ready>>
    BY <1>5, <1>g DEF Drops, Step
  <2>3. UpdateTypeOK'  BY <2>1, <1>t, Apart DEF LossInv, UpdateTypeOK, PcState
  <2>4. UnderMu'  BY <2>1, <1>t, Apart DEF LossInv, UnderMu, Reporting
  <2>5. Gone'  BY <2>1, <1>t, <1>g, Apart DEF LossInv, Gone, Reporting
  <2>6. OwnLatch'  BY <2>1, <1>t, Apart DEF LossInv, OwnLatch
  <2>7. ToldBeforeError'  BY <2>1, <1>t, Apart DEF LossInv, ToldBeforeError
  <2>8. QED  BY <2>3, <2>4, <2>5, <2>6, <2>7 DEF LossInv
<1>6. CASE Fires(p)
  <2>1. /\ pc[p] = "report" /\ runs' = [runs EXCEPT ![p] = latch]
        /\ UNCHANGED <<socks, latch, mine, ready>>
    BY <1>6 DEF Fires
  <2>2. CASE once[latch] \in {"new", "running"}
    <3>1. /\ \/ pc' = [pc EXCEPT ![p] = "firing"] \/ pc' = [pc EXCEPT ![p] = "waiting"]
          /\ once' \in {once, [once EXCEPT ![latch] = "running"]} /\ mu' = mu
      BY <1>6, <2>2 DEF Fires, Step
    <3>2. /\ once' \in [Links -> {"new", "running", "done"}]
          /\ \A l \in Links : once[l] = "done" => once'[l] = "done"
      <4>1. CASE once' = once  BY <4>1, <1>t
      <4>2. CASE once' = [once EXCEPT ![latch] = "running"]  BY <4>2, <2>2, <1>t, <1>l
      <4>3. QED  BY <3>1, <4>1, <4>2
    <3>3. UpdateTypeOK'
      <4>1. runs' \in [Procs -> 0..MaxLinks]  BY <2>1, <1>t, <1>l
      <4>2. pc' \in [Procs -> PcState]  BY <3>1, <3>2, <1>t DEF PcState
      <4>3. \A i \in Loops : pc'[i] = "arming" => pc[i] = "arming"  BY <3>1, <3>2, <1>t, Apart
      <4>4. mu' \in {0} \cup Procs /\ once' \in [Links -> {"new", "running", "done"}]
        BY <3>1, <3>2, <1>t
      <4>5. QED  BY <2>1, <4>1, <4>2, <4>3, <4>4 DEF LossInv, UpdateTypeOK, socks
    <3>4. UnderMu'  BY <2>1, <3>1, <3>2, <1>t, Apart DEF LossInv, UnderMu, Reporting
    <3>5. Gone'  BY <2>1, <3>1, <3>2, <1>t, <1>g, Apart DEF LossInv, Gone, Reporting, socks
    <3>6. OwnLatch'
      <4>1. \A g \in Workers : mine[g] \in ready /\ pc[g] = "report" => latch = mine[g]
        BY DEF LossInv, OwnLatch
      <4>2. \A g \in Workers \ {p} : pc'[g] = pc[g] /\ runs'[g] = runs[g]
        BY <2>1, <3>1, <1>t, Apart
      <4>3. p \in Workers => runs'[p] = latch /\ pc'[p] # "report"
        BY <2>1, <3>1, <1>t, Apart
      <4>4. QED  BY <2>1, <4>1, <4>2, <4>3 DEF LossInv, OwnLatch, socks
    <3>7. ToldBeforeError'  BY <2>1, <3>1, <3>2, <1>t, Apart DEF LossInv, ToldBeforeError
    <3>8. QED  BY <3>3, <3>4, <3>5, <3>6, <3>7 DEF LossInv
  <2>3. CASE once[latch] = "done"
    <3>1. pc' = [pc EXCEPT ![p] = Over(p)] /\ once' = once /\ mu' \in {0, mu} /\ (mu # p => mu' = mu)
      BY <1>6, <2>3 DEF Fires, Step, Release
    <3>2. Over(p) \in {"over", "error"} /\ (p \in Workers => Over(p) = "error")  BY OverOf
    <3>3. UpdateTypeOK'
      <4>1. runs' \in [Procs -> 0..MaxLinks]  BY <2>1, <1>t, <1>l
      <4>2. pc' \in [Procs -> PcState]  BY <3>1, <3>2, <1>t DEF PcState
      <4>3. \A i \in Loops : pc'[i] = "arming" => pc[i] = "arming"  BY <3>1, <3>2, <1>t, Apart
      <4>4. mu' \in {0} \cup Procs /\ once' \in [Links -> {"new", "running", "done"}]
        BY <3>1, <3>2, <1>t
      <4>5. QED  BY <2>1, <4>1, <4>2, <4>3, <4>4 DEF LossInv, UpdateTypeOK, socks
    <3>4. UnderMu'  BY <2>1, <3>1, <3>2, <1>t, Apart DEF LossInv, UnderMu, Reporting
    <3>5. Gone'  BY <2>1, <3>1, <3>2, <1>t, <1>g, Apart DEF LossInv, Gone, Reporting, socks
    <3>6. OwnLatch'  BY <2>1, <3>1, <3>2, <1>t, Apart DEF LossInv, OwnLatch, socks
    <3>7. ToldBeforeError'  BY <2>1, <2>3, <3>1, <3>2, <1>t, Apart DEF LossInv, ToldBeforeError, OwnLatch
    <3>8. QED  BY <3>3, <3>4, <3>5, <3>6, <3>7 DEF LossInv
  <2>4. QED  BY <2>2, <2>3, <1>t, <1>l
<1>7. CASE OnceDone(p)
  <2>1. /\ pc[p] = "waiting" /\ pc' = [pc EXCEPT ![p] = Over(p)] /\ once[runs[p]] = "done"
        /\ mu' \in {0, mu} /\ (mu # p => mu' = mu)
        /\ UNCHANGED <<socks, latch, once, runs, mine, ready>>
    BY <1>7 DEF OnceDone, Step, Release
  <2>2. Over(p) \in {"over", "error"} /\ (p \in Workers => Over(p) = "error")  BY OverOf
  <2>3. UpdateTypeOK'  BY <2>1, <2>2, <1>t, <1>l, Apart DEF LossInv, UpdateTypeOK, PcState, socks
  <2>4. UnderMu'  BY <2>1, <2>2, <1>t, Apart DEF LossInv, UnderMu, Reporting
  <2>5. Gone'  BY <2>1, <2>2, <1>t, <1>g, Apart DEF LossInv, Gone, Reporting, socks
  <2>6. OwnLatch'  BY <2>1, <2>2, <1>t, Apart DEF LossInv, OwnLatch, socks
  <2>7. ToldBeforeError'  BY <2>1, <2>2, <1>t, Apart DEF LossInv, ToldBeforeError, OwnLatch
  <2>8. QED  BY <2>3, <2>4, <2>5, <2>6, <2>7 DEF LossInv
<1>8. QED  BY <1>1, <1>2, <1>3, <1>4, <1>5, <1>6, <1>7 DEF Transact

\* The steps of a reconnect loop: no worker is a loop.
LEMMA LoopLoss ==
  ASSUME LossInv, NEW i \in Loops, Loop(i)
  PROVE  LossInv'
<1>t. /\ pc \in [Procs -> PcState] /\ mine \in [Procs -> 0..links] /\ runs \in [Procs -> 0..MaxLinks]
      /\ once \in [Links -> {"new", "running", "done"}] /\ ready \subseteq 1..links /\ latch \in 1..links
      /\ links \in Links /\ conn \in {0, links} /\ mu \in {0} \cup Procs
  BY DEF LossInv, UpdateTypeOK
<1>p. i \in Procs /\ i \notin Workers  BY Apart
<1>1. CASE LoopCloses(i)
  <2>1. /\ pc' = [pc EXCEPT ![i] = "dialing"] /\ conn' = 0
        /\ UNCHANGED <<mu, sick, links, latch, once, runs, mine, ready>>
    BY <1>1 DEF LoopCloses, Step
  <2>2. UpdateTypeOK'  BY <2>1, <1>t, <1>p DEF LossInv, UpdateTypeOK, PcState
  <2>3. UnderMu'  BY <2>1, <1>t, <1>p DEF LossInv, UnderMu, Reporting
  <2>4. Gone'  BY <2>1, <1>t, <1>p DEF LossInv, Gone, Reporting
  <2>5. OwnLatch' /\ ToldBeforeError'
    BY <2>1, <1>t, <1>p DEF LossInv, OwnLatch, ToldBeforeError
  <2>6. QED  BY <2>2, <2>3, <2>4, <2>5 DEF LossInv
<1>2. CASE LoopInstalls(i)
  <2>1. /\ mu = 0 /\ links' = links + 1 /\ links' \in Links /\ conn' = links'
        /\ pc' = [pc EXCEPT ![i] = "arming"] /\ mine' = [mine EXCEPT ![i] = links']
        /\ UNCHANGED <<mu, sick, latch, once, runs, ready>>
    BY <1>2, <1>t, Apart DEF LoopInstalls, Step
  <2>2. 1..links \subseteq 1..links' /\ links + 1 \notin 1..links /\ links + 1 # 0
        /\ 0..links \subseteq 0..links' /\ links' \in 0..links' /\ links + 1 \notin 0..links
    BY <2>1, <1>t, Apart
  <2>3. UpdateTypeOK'
    <3>1. mine' \in [Procs -> 0..links']  BY <2>1, <2>2, <1>t
    <3>2. pc' \in [Procs -> PcState]  BY <2>1, <1>t DEF PcState
    <3>3. \A j \in Loops : pc'[j] = "arming" => mine'[j] # 0
      BY <2>1, <2>2, <1>t, Apart DEF LossInv, UpdateTypeOK
    <3>4. QED  BY <2>1, <2>2, <3>1, <3>2, <3>3, <1>t DEF LossInv, UpdateTypeOK
  <2>4. UnderMu'  BY <2>1, <1>t, <1>p DEF LossInv, UnderMu, Reporting
  <2>5. \A g \in Workers : pc'[g] = pc[g] /\ mine'[g] = mine[g] /\ mine[g] \in 0..links
                          /\ pc[g] \notin Reporting
    BY <2>1, <1>t, <1>p, Apart DEF LossInv, UnderMu
  <2>6. Gone'  BY <2>1, <2>2, <2>5 DEF LossInv, Gone, Reporting
  <2>7. OwnLatch'  BY <2>1, <2>2, <2>5, <1>t DEF LossInv, OwnLatch, Reporting
  <2>8. ToldBeforeError'  BY <2>1, <2>5 DEF LossInv, ToldBeforeError
  <2>9. QED  BY <2>3, <2>4, <2>6, <2>7, <2>8 DEF LossInv
<1>3. CASE LoopArms(i)
  <2>1. /\ pc' = [pc EXCEPT ![i] = "lock", ![mine[i]] = "reading"] /\ pc[i] = "arming"
        /\ latch' = mine[i] /\ ready' = {l \in ready : l < mine[i]}
        /\ UNCHANGED <<mu, socks, once, runs, mine>>
    BY <1>3 DEF LoopArms
  <2>2. mine[i] \in 1..links  BY <2>1, <1>t, <1>p, Apart DEF LossInv, UpdateTypeOK
  <2>3. UpdateTypeOK'
    <3>1. pc' \in [Procs -> PcState]  BY <2>1, <1>t DEF PcState
    <3>2. \A j \in Loops : pc'[j] = "arming" => pc[j] = "arming"  BY <2>1, <1>t, Apart
    <3>3. QED  BY <2>1, <2>2, <3>1, <3>2, <1>t DEF LossInv, UpdateTypeOK, socks
  <2>4. UnderMu'  BY <2>1, <1>t, <1>p, Apart DEF LossInv, UnderMu, Reporting
  <2>5. \A g \in Workers : pc'[g] = pc[g] /\ mine[g] \in 0..links
    BY <2>1, <2>2, <1>t, <1>p, Apart
  <2>6. Gone'  BY <2>1, <2>5 DEF LossInv, Gone, socks
  <2>7. OwnLatch'
    <3>1. \A l \in ready' : l \in ready /\ l < mine[i] /\ l # links /\ l # 0
      BY <2>1, <2>2, <1>t, Apart
    <3>2. conn' \notin ready'  BY <2>1, <3>1, <1>t DEF socks
    <3>3. \A g \in Workers : pc[g] = "report" => mine[g] \notin ready'
      BY <3>1 DEF LossInv, Gone
    <3>4. QED  BY <2>1, <2>5, <3>1, <3>2, <3>3 DEF LossInv, OwnLatch
  <2>8. ToldBeforeError'  BY <2>1, <2>5 DEF LossInv, ToldBeforeError
  <2>9. QED  BY <2>3, <2>4, <2>6, <2>7, <2>8 DEF LossInv
<1>4. CASE LoopFails(i)
  <2>1. \E to \in {"closing", "over"} : pc' = [pc EXCEPT ![i] = to]
    BY <1>4 DEF LoopFails, Step
  <2>2. UNCHANGED <<mu, socks, latch, once, runs, mine, ready>>  BY <1>4 DEF LoopFails
  <2>3. QED  BY <2>1, <2>2, <1>p, MovesLoss DEF Reporting, PcState
<1>5. QED  BY <1>1, <1>2, <1>3, <1>4 DEF Loop

\* The event readers, the import and its channel.
LEMMA OtherLoss ==
  ASSUME LossInv, (\E l \in Readers : ReadEvents(l)) \/ LinkDies \/ Import
  PROVE  LossInv'
<1>t. /\ pc \in [Procs -> PcState] /\ mine \in [Procs -> 0..links] /\ runs \in [Procs -> 0..MaxLinks]
      /\ once \in [Links -> {"new", "running", "done"}] /\ ready \subseteq 1..links /\ latch \in 1..links
      /\ links \in Links /\ conn \in {0, links} /\ mu \in {0} \cup Procs
  BY DEF LossInv, UpdateTypeOK
<1>1. ASSUME NEW l \in Readers, ReaderFails(l) PROVE LossInv'
  <2>1. pc' = [pc EXCEPT ![l] = "failed"] /\ UNCHANGED <<mu, socks, latch, once, runs, mine, ready>>
    BY <1>1 DEF ReaderFails, Step
  <2>2. QED  BY <2>1, Apart, MovesLoss DEF Reporting, PcState
<1>2. ASSUME NEW l \in Readers, Deliberate(l) PROVE LossInv'
  <2>1. \E to \in {"over", "report"} : pc' = [pc EXCEPT ![l] = to]
    BY <1>2 DEF Deliberate, Step
  <2>2. UNCHANGED <<mu, socks, latch, once, runs, mine, ready>>  BY <1>2 DEF Deliberate
  <2>3. l \in Procs /\ l \notin Workers /\ l \notin Loops  BY Apart
  <2>4. UpdateTypeOK'  BY <2>1, <2>2, <2>3, <1>t DEF LossInv, UpdateTypeOK, PcState, socks
  <2>5. UnderMu'  BY <2>1, <2>2, <2>3, <1>t DEF LossInv, UnderMu, Reporting
  <2>6. Gone' /\ OwnLatch' /\ ToldBeforeError'
    BY <2>1, <2>2, <2>3, <1>t DEF LossInv, Gone, OwnLatch, ToldBeforeError, socks
  <2>7. QED  BY <2>4, <2>5, <2>6 DEF LossInv
<1>3. CASE LinkDies
  <2>1. UNCHANGED <<mu, conn, links, latch, once, runs, mine, ready, pc>> /\ sick' \subseteq Links
    BY <1>3, <1>t, Apart DEF LossInv, UpdateTypeOK, LinkDies
  <2>2. QED
    BY <2>1 DEF LossInv, UpdateTypeOK, UnderMu, Gone, OwnLatch, ToldBeforeError
<1>4. CASE Import
  <2>i. /\ Importer \in Procs /\ Importer \in Workers
        /\ pc[Importer] = "txn" => mu = Importer
        /\ pc[Importer] = "emit" => mu = Importer
        /\ pc[Importer] \notin Reporting \cup {"error", "closed"} => mine[Importer] = 0
    BY Apart DEF LossInv, UnderMu, Gone
  <2>1. CASE ChunkStarts
    <3>1. /\ pc[Importer] = "between" /\ pc' = [pc EXCEPT ![Importer] = "lock"]
          /\ UNCHANGED <<mu, socks, latch, once, runs, mine, ready>>
      BY <2>1 DEF ChunkStarts, Step
    <3>2. QED  BY <3>1, <2>i, MovesLoss DEF Reporting, PcState
  <2>2. CASE DataPacket
    <3>1. /\ pc[Importer] = "txn" /\ pc' = [pc EXCEPT ![Importer] = "emit"]
          /\ UNCHANGED <<mu, socks, latch, once, runs, mine, ready>>
      BY <2>2 DEF DataPacket, Step
    <3>2. QED  BY <3>1, <2>i, MovesLoss DEF Reporting, PcState
  <2>3. CASE Emit
    <3>1. /\ pc[Importer] = "emit" /\ pc' = [pc EXCEPT ![Importer] = "txn"]
          /\ UNCHANGED <<mu, socks, latch, once, runs, mine, ready>>
      BY <2>3 DEF Emit, Step
    <3>2. UpdateTypeOK'  BY <3>1, <2>i, <1>t, Apart DEF LossInv, UpdateTypeOK, PcState, socks
    <3>3. UnderMu'  BY <3>1, <2>i, <1>t DEF LossInv, UnderMu, Reporting
    <3>4. Gone' /\ OwnLatch' /\ ToldBeforeError'
      BY <3>1, <2>i, <1>t DEF LossInv, Gone, OwnLatch, ToldBeforeError, Reporting, socks
    <3>5. QED  BY <3>2, <3>3, <3>4 DEF LossInv
  <2>4. CASE Announce \/ ReceiveEvent
    BY <2>4, StaysLoss DEF Announce, ReceiveEvent
  <2>5. CASE ImportEnds
    <3>1. /\ pc' = [pc EXCEPT ![Importer] = "closed"]
          /\ UNCHANGED <<mu, socks, latch, once, runs, mine, ready>>
      BY <2>5 DEF ImportEnds
    <3>2. QED  BY <3>1, <2>i, MovesLoss DEF Reporting, PcState
  <2>6. QED  BY <1>4, <2>1, <2>2, <2>3, <2>4, <2>5 DEF Import
<1>5. QED  BY <1>1, <1>2, <1>3, <1>4 DEF ReadEvents

\* A worker whose message is taken forgets the link it failed on.
LEMMA ForgetsLoss ==
  ASSUME LossInv, UNCHANGED <<mu, socks, latch, once, runs, ready>>, NEW g \in Workers,
         pc' = [pc EXCEPT ![g] = "idle"], mine' = [mine EXCEPT ![g] = 0]
  PROVE  LossInv'
<1>t. /\ pc \in [Procs -> PcState] /\ mine \in [Procs -> 0..links] /\ runs \in [Procs -> 0..MaxLinks]
      /\ once \in [Links -> {"new", "running", "done"}] /\ ready \subseteq 1..links /\ latch \in 1..links
      /\ links \in Links /\ conn \in {0, links} /\ mu \in {0} \cup Procs
  BY DEF LossInv, UpdateTypeOK
<1>g. g \in Procs /\ 0 \in 0..links  BY <1>t, Apart
<1>1. UpdateTypeOK'
  <2>1. mine' \in [Procs -> 0..links] /\ pc' \in [Procs -> PcState]  BY <1>t, <1>g DEF PcState
  <2>2. \A i \in Loops : pc'[i] = "arming" => mine'[i] # 0
    BY <1>t, <1>g, Apart DEF LossInv, UpdateTypeOK
  <2>3. QED  BY <2>1, <2>2 DEF LossInv, UpdateTypeOK, socks
<1>2. UnderMu'  BY <1>t, <1>g DEF LossInv, UnderMu, Reporting
<1>3. Gone'  BY <1>t, <1>g DEF LossInv, Gone, Reporting, socks
<1>4. OwnLatch' /\ ToldBeforeError'
  BY <1>t, <1>g DEF LossInv, OwnLatch, ToldBeforeError, socks
<1>5. QED  BY <1>1, <1>2, <1>3, <1>4 DEF LossInv

\* The update loop.
LEMMA UiLoss ==
  ASSUME LossInv, Ui
  PROVE  LossInv'
<1>t. /\ pc \in [Procs -> PcState] /\ mine \in [Procs -> 0..links] /\ runs \in [Procs -> 0..MaxLinks]
      /\ once \in [Links -> {"new", "running", "done"}] /\ ready \subseteq 1..links /\ latch \in 1..links
      /\ links \in Links /\ conn \in {0, links} /\ mu \in {0} \cup Procs
  BY DEF LossInv, UpdateTypeOK
<1>1. CASE TakeLinkLost
  <2>1. PICK p \in Procs, i \in Loops :
          /\ pc[p] = "firing" /\ pc[i] = "idle"
          /\ once' = [once EXCEPT ![runs[p]] = "done"]
          /\ pc' = [pc EXCEPT ![p] = Over(p), ![i] = "closing"]
          /\ Release(p)
    BY <1>1 DEF TakeLinkLost
  <2>2. UNCHANGED <<socks, latch, runs, mine, ready>> /\ mu' \in {0, mu} /\ (mu # p => mu' = mu)
    BY <1>1, <2>1 DEF TakeLinkLost, Release
  <2>3. /\ Over(p) \in {"over", "error"} /\ (p \in Workers => Over(p) = "error")
        /\ i \in Procs /\ i \notin Workers /\ i # p
    BY <2>1, OverOf, Apart
  <2>4. \A q \in Procs : pc'[q] = IF q = i THEN "closing" ELSE IF q = p THEN Over(p) ELSE pc[q]
    BY <2>1, <2>3, <1>t
  <2>5. /\ once' \in [Links -> {"new", "running", "done"}]
        /\ \A l \in Links : once'[l] = IF l = runs[p] THEN "done" ELSE once[l]
    BY <2>1, <1>t
  <2>6. UpdateTypeOK'
    <3>1. pc' \in [Procs -> PcState]  BY <2>1, <2>3, <1>t DEF PcState
    <3>2. \A j \in Loops : pc'[j] = "arming" => pc[j] = "arming"  BY <2>3, <2>4, Apart
    <3>3. QED  BY <2>2, <2>5, <3>1, <3>2, <1>t DEF LossInv, UpdateTypeOK, socks
  <2>7. UnderMu'  BY <2>1, <2>2, <2>3, <2>4, <1>t DEF LossInv, UnderMu, Reporting
  <2>8. Gone'  BY <2>1, <2>2, <2>3, <2>4, Apart DEF LossInv, Gone, Reporting, socks
  <2>9. OwnLatch'  BY <2>1, <2>2, <2>3, <2>4, Apart DEF LossInv, OwnLatch, socks
  <2>10. ToldBeforeError'
    <3>1. 1..links \subseteq Links  BY <1>t, Apart
    <3>2. p \in Workers /\ mine[p] \in ready => once'[mine[p]] = "done"
      BY <2>1, <2>5, <3>1, <1>t DEF LossInv, OwnLatch
    <3>3. \A g \in Workers \ {p} : pc'[g] = pc[g]  BY <2>3, <2>4, Apart
    <3>4. QED  BY <2>2, <2>5, <3>1, <3>2, <3>3, <1>t DEF LossInv, ToldBeforeError
  <2>11. QED  BY <2>6, <2>7, <2>8, <2>9, <2>10 DEF LossInv
<1>2. CASE TakeReconnected
  <2>1. PICK i \in Loops : Taken(i)  BY <1>2 DEF TakeReconnected
  <2>2. UNCHANGED <<mu, socks, latch, once, runs, mine, ready>>  BY <1>2 DEF TakeReconnected
  <2>3. pc' = [pc EXCEPT ![i] = "over"] /\ i \in Procs /\ i \notin Workers
    BY <2>1, Apart DEF Taken
  <2>4. QED  BY <2>2, <2>3, MovesLoss DEF Reporting, PcState
<1>3. CASE TakeOther
  <2>1. UNCHANGED <<mu, socks, latch, once, runs, mine, ready>>  BY <1>3 DEF TakeOther
  <2>2. CASE pc' = pc  BY <2>1, <2>2, StaysLoss
  <2>3. ASSUME NEW g \in Cmds, pc[g] = "ok", Taken(g) PROVE LossInv'
    <3>1. pc' = [pc EXCEPT ![g] = "idle"] /\ g \in Workers /\ g \in Procs
      BY <2>3, Apart DEF Taken
    <3>2. mine[g] = 0  BY <2>3, <3>1 DEF LossInv, Gone, Reporting
    <3>3. QED  BY <2>1, <3>1, <3>2, MovesLoss DEF Reporting, PcState
  <2>4. QED  BY <1>3, <2>2, <2>3 DEF TakeOther
<1>4. CASE TakeRefreshError
  <2>1. PICK g \in Cmds : Taken(g) /\ mine' = [mine EXCEPT ![g] = 0]
    BY <1>4 DEF TakeRefreshError
  <2>2. UNCHANGED <<mu, socks, latch, once, runs, ready>>  BY <1>4 DEF TakeRefreshError
  <2>3. QED  BY <2>1, <2>2, Apart, ForgetsLoss DEF Taken
<1>5. CASE KeyImport
  <2>1. /\ pc[Importer] = "idle" /\ pc' = [pc EXCEPT ![Importer] = "between"]
        /\ UNCHANGED <<mu, socks, latch, once, runs, mine, ready>>
    BY <1>5 DEF KeyImport, Step
  <2>2. Importer \in Procs /\ Importer \in Workers /\ mine[Importer] = 0
    BY <2>1, Apart DEF LossInv, Gone, Reporting
  <2>3. QED  BY <2>1, <2>2, MovesLoss DEF Reporting, PcState
<1>6. CASE TakeImportEnd
  <2>1. /\ pc' = [pc EXCEPT ![Importer] = "idle"] /\ mine' = [mine EXCEPT ![Importer] = 0]
        /\ UNCHANGED <<mu, socks, latch, once, runs, ready>>
    BY <1>6 DEF TakeImportEnd
  <2>2. QED  BY <2>1, Apart, ForgetsLoss
<1>7. CASE KeyCancel \/ TakeImportEvent \/ HandlerConnected \/ View
  BY <1>7, StaysLoss DEF KeyCancel, TakeImportEvent, HandlerConnected, View
<1>8. QED  BY <1>1, <1>2, <1>3, <1>4, <1>5, <1>6, <1>7 DEF Ui

\* Every step keeps the invariant.
LEMMA NextLoss == LossInv /\ [UpdateNext]_updateVars => LossInv'
<1> SUFFICES ASSUME LossInv, [UpdateNext]_updateVars PROVE LossInv'
  OBVIOUS
<1>1. CASE UNCHANGED updateVars  BY <1>1, StaysLoss DEF updateVars
<1>2. CASE UpdateNext  BY <1>2, TransactLoss, LoopLoss, OtherLoss, UiLoss DEF UpdateNext
<1>3. QED  BY <1>1, <1>2

\* When a command fails because it found a connected link dead, the interface
\* has been told of that loss (dropLocked, fireDisconnect), for any commands and
\* any number of links and reconnect loops.
THEOREM LossesAreToldFirst == UpdateSpec => []ToldBeforeError
<1>1. LossInv => ToldBeforeError  BY DEF LossInv
<1>2. QED  BY <1>1, InitLoss, NextLoss, PTL DEF UpdateSpec

\* No step brings the importer into a transaction but the start of a request,
\* which looks at the context, and the return from a full channel.
LEMMA OnlyLockBegins ==
  ASSUME UpdateTypeOK, [UpdateNext]_updateVars,
         cancelled, pc[Importer] \notin {"txn", "emit"}
  PROVE  pc'[Importer] # "txn"
<1>t. /\ pc \in [Procs -> PcState] /\ Importer \in Procs
      /\ Importer \notin Cmds /\ Importer \notin Readers /\ Importer \notin Loops
  BY Apart DEF UpdateTypeOK
<1>1. ASSUME NEW p \in Procs, Transact(p) PROVE pc'[Importer] # "txn"
  <2>1. CASE Lock(p)
    <3>1. p # Importer  BY <2>1 DEF Lock, Cancelled
    <3>2. QED  BY <2>1, <3>1, <1>t DEF Lock, Step
  <2>2. CASE Fires(p) \/ OnceDone(p)
    <3>1. Over(p) # "txn"  BY OverOf
    <3>2. QED  BY <2>2, <3>1, <1>t DEF Fires, OnceDone, Step
  <2>3. CASE CmdStarts(p) \/ Refused(p) \/ Answered(p) \/ Drops(p)
    BY <2>3, <1>t DEF CmdStarts, Refused, Answered, Drops, Step
  <2>4. QED  BY <1>1, <2>1, <2>2, <2>3 DEF Transact
<1>2. ASSUME NEW i \in Loops, Loop(i) PROVE pc'[Importer] # "txn"
  BY <1>2, <1>t DEF Loop, LoopCloses, LoopInstalls, LoopArms, LoopFails, Step
<1>3. ASSUME NEW l \in Readers, ReadEvents(l) PROVE pc'[Importer] # "txn"
  BY <1>3, <1>t DEF ReadEvents, ReaderFails, Deliberate, Step
<1>4. CASE LinkDies \/ UNCHANGED updateVars
  BY <1>4 DEF LinkDies, updateVars
<1>5. CASE Import
  BY <1>5, <1>t DEF Import, ChunkStarts, DataPacket, Emit, Announce, ImportEnds, ReceiveEvent, Step
<1>6. CASE Ui
  <2>1. CASE TakeLinkLost
    <3>1. PICK p \in Procs, i \in Loops : pc' = [pc EXCEPT ![p] = Over(p), ![i] = "closing"]
      BY <2>1 DEF TakeLinkLost
    <3>2. Over(p) # "txn"  BY OverOf
    <3>3. QED  BY <3>1, <3>2, <1>t
  <2>2. CASE TakeReconnected \/ TakeOther \/ TakeRefreshError
    BY <2>2, <1>t DEF TakeReconnected, TakeOther, TakeRefreshError, Taken
  <2>3. CASE KeyImport \/ KeyCancel \/ TakeImportEvent \/ TakeImportEnd \/ HandlerConnected \/ View
    BY <2>3, <1>t
    DEF KeyImport, KeyCancel, TakeImportEvent, TakeImportEnd, HandlerConnected, View, Step
  <2>4. QED  BY <1>6, <2>1, <2>2, <2>3 DEF Ui
<1>7. QED  BY <1>1, <1>2, <1>3, <1>4, <1>5, <1>6 DEF UpdateNext

\* A cancelled run sends no further request, wherever its goroutine stood at that
\* moment (DownloadTo, transactLocked), for any capacity of the channel.
THEOREM CancelIsHeeded == UpdateSpec => NoChunkAfterCancel
<1>1. LossInv /\ [UpdateNext]_updateVars
      => (cancelled /\ pc[Importer] \notin {"txn", "emit"} => pc'[Importer] # "txn" \/ ~cancelled')
  BY OnlyLockBegins DEF LossInv
<1>2. QED
  BY <1>1, InitLoss, NextLoss, PTL DEF UpdateSpec, NoChunkAfterCancel
=============================================================================
