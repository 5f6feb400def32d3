--------------------------- MODULE ImporterProofs ---------------------------
(***************************************************************************)
(* Proofs about Importer for any number of objects, sizes and paths, any   *)
(* chunk size, any number of runs and crashes.  Objects may share paths    *)
(* and transactions may be retried after part of their data was written:   *)
(* the theorems assume neither away, the histories foul, broken and last   *)
(* say which files it touched.                                             *)
(***************************************************************************)
EXTENDS Importer, TLAPS

\* What each stage of downloadOne has established about the file in hand.
StageInv ==
  LET p == Dest[cur] IN
  /\ pc = "download" => /\ part[p] # NoFile
                        /\ p \notin foul => part[p].of = cur /\ part[p].len = written
  /\ pc = "check"    => /\ part[p] # NoFile
                        /\ p \notin foul => part[p].of = cur
  /\ pc = "rename"   => /\ part[p] # NoFile
                        /\ p \notin foul => part[p] = Whole(cur)
  /\ pc = "record"   => last[p] = cur

\* A path holds nothing, or the object renamed to it last: whole, or broken.
DiskInv ==
  \A p \in Paths :
    \/ disk[p] = NoFile /\ last[p] = NoFile
    \/ /\ disk[p] # NoFile /\ last[p] \in Objects /\ Dest[last[p]] = p
       /\ p \notin broken => disk[p] = Whole(last[p])

\* Every recorded object was renamed to its path.
PlacedInv == \A o \in db : last[Dest[o]] # NoFile

\* During a run the snapshot of the register stays exact, and every file of
\* the run is recorded, in hand or still queued.
RunInv ==
  pc \notin {"idle", "allDone"} =>
    /\ imported = db
    /\ todo \subseteq db \cup queue
                 \cup (IF pc = "next" THEN {} ELSE {cur})

Inv == /\ TypeOK /\ StageInv /\ DiskInv /\ PlacedInv /\ RunInv
       /\ NeverTwice /\ AllDoneIsAll

-----------------------------------------------------------------------------
\* Appending keeps the type of a file, and bytes of o appended where a
\* beginning of o ends make a longer beginning of o (a write in APPEND mode).
LEMMA ExtendType ==
  ASSUME NEW c \in Content, NEW o \in Objects, NEW at \in Nat, NEW n \in Nat
  PROVE  Extend(c, o, at, n) \in Content
  BY DEF Extend, Content

LEMMA ExtendPrefix ==
  ASSUME NEW c \in Content, NEW o \in Objects, NEW n \in Nat, c.of = o
  PROVE  /\ Extend(Extend(c, o, c.len, 0), o, c.len, n).of = o
         /\ Extend(Extend(c, o, c.len, 0), o, c.len, n).len = c.len + n
  BY DEF Extend, Content

\* What a transaction, retried or not, does to the .part file of cur (DownloadTo,
\* Transact 346-356).
LEMMA ReceiveFits ==
  ASSUME TypeOK, StageInv, pc = "download",
         NEW k \in Nat, NEW n \in Nat, Receive(k, n)
  PROVE  /\ part' \in [Paths -> Content \cup {NoFile}] /\ foul' \subseteq Paths
         /\ part'[Dest[cur]] \in Content
         /\ Dest[cur] \notin foul' =>
              /\ k = 0
              /\ part'[Dest[cur]].of = cur
              /\ part'[Dest[cur]].len = written + n
<1> DEFINE c == part[Dest[cur]]
           d == Extend(Extend(c, cur, written, k), cur, written, n)
<1>1. /\ Dest[cur] \in Paths /\ cur \in Objects /\ written \in Nat /\ c \in Content
      /\ Dest[cur] \notin foul => c.of = cur /\ c.len = written
  BY ImporterAssumption DEF TypeOK, StageInv
<1>2. d \in Content
  BY <1>1, ExtendType
<1>3. part' = [part EXCEPT ![Dest[cur]] = d]
  BY DEF Receive
<1>4. part'[Dest[cur]] = d
  BY <1>1, <1>3 DEF TypeOK
<1>5. part' \in [Paths -> Content \cup {NoFile}] /\ foul' \subseteq Paths
  BY <1>1, <1>2, <1>3 DEF TypeOK, Receive
<1>6. ASSUME Dest[cur] \notin foul'
      PROVE  k = 0 /\ d.of = cur /\ d.len = written + n
  <2>1. k = 0 /\ Dest[cur] \notin foul  BY <1>6 DEF Receive
  <2>2. c.of = cur /\ c.len = written  BY <1>1, <2>1
  <2>3. d = Extend(Extend(c, cur, c.len, 0), cur, c.len, n)  BY <2>1, <2>2
  <2>4. QED  BY <1>1, <2>1, <2>2, <2>3, ExtendPrefix
<1>7. QED  BY <1>2, <1>4, <1>5, <1>6

-----------------------------------------------------------------------------
\* The invariant holds initially.
LEMMA InitInv == Init => Inv
<1> SUFFICES ASSUME Init PROVE Inv
  OBVIOUS
<1>1. TypeOK
  BY DEF Init, TypeOK, PcState
<1>2. DiskInv /\ PlacedInv
  BY DEF Init, DiskInv, PlacedInv
<1>3. StageInv /\ RunInv /\ NeverTwice /\ AllDoneIsAll
  BY DEF Init, StageInv, RunInv, NeverTwice, AllDoneIsAll
<1>4. QED  BY <1>1, <1>2, <1>3 DEF Inv

\* No step of a run, no new run and no crash breaks it.
LEMMA NextInv ==
  ASSUME Inv, [Next]_vars
  PROVE  Inv'
<1> USE ImporterAssumption DEF Inv, PcState
<1>t. /\ cur \in Objects /\ Dest[cur] \in Paths /\ Size[cur] \in Nat
      /\ written \in Nat /\ NoFile \notin Content /\ NoFile \notin Objects
  BY DEF TypeOK, Content
<1>1. CASE StartRun
  BY <1>1 DEF StartRun, files, TypeOK, StageInv, DiskInv, PlacedInv, RunInv,
              NeverTwice, AllDoneIsAll, Whole
<1>2. CASE SkipImported
  BY <1>2 DEF SkipImported, files, TypeOK, StageInv, DiskInv, PlacedInv, RunInv,
              NeverTwice, AllDoneIsAll, Whole
<1>3. CASE OpenPart
  <2>1. PICK o \in queue \ imported :
          /\ cur' = o /\ queue' = queue \ {o}
          /\ written' = ResumeOffset(o)
          /\ part' = IF ResumeOffset(o) = 0
                       THEN [part EXCEPT ![Dest[o]] = [len |-> 0, of |-> o]]
                       ELSE part
          /\ foul' = FoulAfterOpen(o)
    BY <1>3 DEF OpenPart
  <2>2. o \in Objects /\ Dest[o] \in Paths /\ Size[o] \in Nat
    BY <2>1 DEF TypeOK
  <2>3. ResumeOffset(o) \in Nat
    BY <2>2 DEF ResumeOffset, TypeOK, Content
  <2>4. /\ part' \in [Paths -> Content \cup {NoFile}] /\ foul' \subseteq Paths
        /\ part'[Dest[o]] # NoFile
        /\ Dest[o] \notin foul' => part'[Dest[o]].of = o /\ part'[Dest[o]].len = ResumeOffset(o)
    <3>1. CASE ResumeOffset(o) = 0
      <4>1. [len |-> 0, of |-> o] \in Content
        BY <2>2 DEF Content
      <4>2. part' = [part EXCEPT ![Dest[o]] = [len |-> 0, of |-> o]]
        BY <2>1, <3>1
      <4>3. QED  BY <1>t, <2>1, <2>2, <3>1, <4>1, <4>2 DEF TypeOK, FoulAfterOpen
    <3>2. CASE ResumeOffset(o) # 0
      <4>1. part[Dest[o]] # NoFile /\ part[Dest[o]].len = ResumeOffset(o)
        BY <3>2 DEF ResumeOffset
      <4>2. QED  BY <2>1, <2>2, <3>2, <4>1 DEF TypeOK, FoulAfterOpen
    <3>3. QED  BY <3>1, <3>2
  <2>5. StageInv'
    BY <1>3, <2>1, <2>4 DEF OpenPart, StageInv
  <2>6. QED
    BY <1>3, <2>1, <2>2, <2>3, <2>4, <2>5
    DEF OpenPart, final, TypeOK, DiskInv, PlacedInv, RunInv, NeverTwice, AllDoneIsAll, Whole
<1>4. CASE Fail
  BY <1>4 DEF Fail, files, runVars, TypeOK, StageInv, DiskInv, PlacedInv, RunInv,
              NeverTwice, AllDoneIsAll, Whole
<1>5. CASE AllDone
  BY <1>5 DEF AllDone, files, runVars, TypeOK, StageInv, DiskInv, PlacedInv, RunInv,
              NeverTwice, AllDoneIsAll, Whole
<1>6. CASE Chunk
  <2>1. PICK k \in Before, n \in 1..Want :
          Receive(k, n) /\ written' \in {written + n, written + k + n}
    BY <1>6 DEF Chunk
  <2>2. k \in Nat /\ n \in Nat /\ written' \in Nat /\ (k = 0 => written' = written + n)
    BY <1>t, <2>1 DEF Before
  <2>3. /\ part' \in [Paths -> Content \cup {NoFile}] /\ foul' \subseteq Paths
        /\ part'[Dest[cur]] \in Content
        /\ Dest[cur] \notin foul' =>
             /\ k = 0
             /\ part'[Dest[cur]].of = cur
             /\ part'[Dest[cur]].len = written + n
    BY <1>6, <2>1, <2>2, ReceiveFits DEF Chunk
  <2>4. StageInv'
    BY <1>6, <1>t, <2>2, <2>3 DEF Chunk, runVars, StageInv
  <2>5. QED
    BY <1>6, <2>2, <2>3, <2>4
    DEF Chunk, final, runVars, TypeOK, DiskInv, PlacedInv, RunInv, NeverTwice, AllDoneIsAll, Whole
<1>7. CASE WholeObject
  <2>1. PICK k \in Before, n \in 0..Size[cur] : Receive(k, n)
    BY <1>7 DEF WholeObject
  <2>2. k \in Nat /\ n \in Nat
    BY <1>t, <2>1 DEF Before
  <2>3. /\ part' \in [Paths -> Content \cup {NoFile}] /\ foul' \subseteq Paths
        /\ part'[Dest[cur]] \in Content
        /\ Dest[cur] \notin foul' => part'[Dest[cur]].of = cur
    BY <1>7, <2>1, <2>2, ReceiveFits DEF WholeObject
  <2>4. StageInv'
    BY <1>7, <1>t, <2>3 DEF WholeObject, runVars, StageInv
  <2>5. QED
    BY <1>7, <2>3, <2>4
    DEF WholeObject, final, runVars, TypeOK, DiskInv, PlacedInv, RunInv, NeverTwice, AllDoneIsAll, Whole
<1>8. CASE Complete
  BY <1>8 DEF Complete, files, runVars, TypeOK, StageInv, DiskInv, PlacedInv, RunInv,
              NeverTwice, AllDoneIsAll, Whole
<1>9. CASE Interrupted
  <2>1. PICK k \in Before, n \in 0..Want : Receive(k, n)
    BY <1>9 DEF Interrupted
  <2>2. k \in Nat /\ n \in Nat
    BY <2>1 DEF Before
  <2>3. part' \in [Paths -> Content \cup {NoFile}] /\ foul' \subseteq Paths
    BY <1>9, <2>1, <2>2, ReceiveFits DEF Interrupted
  <2>4. QED
    BY <1>9, <2>3
    DEF Interrupted, final, runVars, TypeOK, StageInv, DiskInv, PlacedInv, RunInv,
        NeverTwice, AllDoneIsAll, Whole
<1>10. CASE SizeChecked
  <2>1. part[Dest[cur]] # NoFile /\ (Dest[cur] \notin foul => part[Dest[cur]] = Whole(cur))
    BY <1>10, <1>t DEF SizeChecked, StageInv, TypeOK, Content, Whole
  <2>2. StageInv'
    BY <1>10, <2>1 DEF SizeChecked, files, runVars, StageInv, Whole
  <2>3. QED
    BY <1>10, <2>2 DEF SizeChecked, files, runVars, TypeOK, DiskInv, PlacedInv,
              RunInv, NeverTwice, AllDoneIsAll, Whole
<1>11. CASE Rename
  <2> DEFINE p == Dest[cur]
  <2>1. /\ part[p] \in Content /\ part[p] # NoFile
        /\ p \notin foul => part[p] = Whole(cur)
    BY <1>11, <1>t DEF Rename, StageInv, TypeOK
  <2>2. /\ disk' = [disk EXCEPT ![p] = part[p]] /\ part' = [part EXCEPT ![p] = NoFile]
        /\ last' = [last EXCEPT ![p] = cur] /\ foul' = foul \ {p}
        /\ broken' = IF p \in foul THEN broken \cup {p} ELSE broken \ {p}
        /\ UNCHANGED <<db, queue, todo, imported, cur, partial, written>>
    BY <1>11 DEF Rename, runVars
  <2>3. /\ disk'[p] = part[p] /\ last'[p] = cur
        /\ \A q \in Paths : q # p => disk'[q] = disk[q] /\ last'[q] = last[q]
                                     /\ (q \in broken' <=> q \in broken)
    BY <1>t, <2>2 DEF TypeOK
  <2>4. TypeOK'
    BY <1>11, <1>t, <2>1, <2>2 DEF Rename, TypeOK
  <2>5. DiskInv'
    <3> SUFFICES ASSUME NEW q \in Paths
                 PROVE  \/ disk'[q] = NoFile /\ last'[q] = NoFile
                        \/ /\ disk'[q] # NoFile /\ last'[q] \in Objects /\ Dest[last'[q]] = q
                           /\ q \notin broken' => disk'[q] = Whole(last'[q])
      BY DEF DiskInv, Whole
    <3>1. CASE q = p  BY <3>1, <1>t, <2>1, <2>2, <2>3
    <3>2. CASE q # p  BY <3>2, <2>3 DEF DiskInv
    <3>3. QED  BY <3>1, <3>2
  <2>6. PlacedInv'
    BY <1>t, <2>2, <2>3 DEF PlacedInv, TypeOK
  <2>7. StageInv' /\ RunInv' /\ NeverTwice' /\ AllDoneIsAll'
    BY <1>11, <2>2, <2>3 DEF Rename, StageInv, RunInv, NeverTwice, AllDoneIsAll
  <2>8. QED  BY <2>4, <2>5, <2>6, <2>7
<1>12. CASE Record
  <2>1. PlacedInv'
    BY <1>12, <1>t DEF Record, files, StageInv, PlacedInv
  <2>2. QED
    BY <1>12, <2>1 DEF Record, files, TypeOK, StageInv, DiskInv, RunInv,
              NeverTwice, AllDoneIsAll, Whole
<1>13. CASE Crash
  BY <1>13 DEF Crash, files, TypeOK, StageInv, DiskInv, PlacedInv, RunInv,
              NeverTwice, AllDoneIsAll, Whole
<1>14. CASE UNCHANGED vars
  BY <1>14 DEF vars, files, runVars, TypeOK, StageInv, DiskInv, PlacedInv, RunInv,
              NeverTwice, AllDoneIsAll, Whole
<1>15. QED
  BY <1>1, <1>2, <1>3, <1>4, <1>5, <1>6, <1>7, <1>8, <1>9, <1>10, <1>11,
     <1>12, <1>13, <1>14 DEF Next, Run

\* The inductive invariant holds in every reachable state.
THEOREM Invariance == Spec => []Inv
<1>1. Init => Inv  BY InitInv
<1>2. Inv /\ [Next]_vars => Inv'  BY NextInv
<1>3. QED  BY <1>1, <1>2, PTL DEF Spec

\* Every variable of the import pipeline keeps its type (run, downloadOne).
THEOREM TypeCorrect == Spec => []TypeOK
<1>1. Inv => TypeOK  BY DEF Inv
<1>2. QED  BY Invariance, <1>1, PTL

\* Whatever was entered in the register has a file at its path, and unless a retry or two
\* objects made that file up it is one whole object, through any crashes, resumed transfers,
\* failed runs and objects of the same path (run, downloadOne).
THEOREM RegisterIsTrue == Spec => []RecordedIsWhole
<1>1. Inv => RecordedIsWhole
  <2> SUFFICES ASSUME Inv, NEW o \in db
               PROVE  LET p == Dest[o] IN
                        /\ last[p] # NoFile /\ Dest[last[p]] = p
                        /\ p \notin broken => disk[p] = Whole(last[p])
    BY DEF RecordedIsWhole
  <2>1. Dest[o] \in Paths /\ last[Dest[o]] # NoFile
    BY ImporterAssumption DEF Inv, TypeOK, PlacedInv
  <2>2. QED  BY <2>1 DEF Inv, DiskInv
<1>2. QED  BY Invariance, <1>1, PTL

\* No file appears under a final name before it is one whole object, unless a retry or two
\* objects made it up (downloadOne).
THEOREM NoTornFiles == Spec => []OnDiskIsWhole
<1>1. Inv => OnDiskIsWhole  BY DEF Inv, DiskInv, OnDiskIsWhole
<1>2. QED  BY Invariance, <1>1, PTL

\* A transfer resumes the object whose bytes it finds, unless a retry or another object of
\* the same path spoilt them (downloadOne 249-262).
THEOREM ResumeIsSound == Spec => []ResumeIsPrefix
<1>1. Inv => ResumeIsPrefix  BY DEF Inv, StageInv, ResumeIsPrefix
<1>2. QED  BY Invariance, <1>1, PTL

\* A run that reports AllDone recorded every one of its files, and no run
\* transfers a file that is already recorded (run 171-217).
THEOREM RunsAreExact == Spec => []RunIsExact
<1>1. Inv => RunIsExact  BY DEF Inv, RunIsExact
<1>2. QED  BY Invariance, <1>1, PTL

-----------------------------------------------------------------------------
\* The only steps that touch the final files are renames, and the only ones
\* that touch the register are records.
LEMMA LibraryMoves ==
  ASSUME Inv, [Next]_vars
  PROVE  \/ UNCHANGED <<disk, broken, last, db>>
         \/ Rename
         \/ Record /\ UNCHANGED <<disk, broken, last>>
<1>1. CASE Record  BY <1>1 DEF Record, files
<1>2. CASE ~Rename /\ ~Record
  BY <1>2 DEF Next, Run, StartRun, SkipImported, OpenPart, Fail, AllDone, Chunk, WholeObject,
              Complete, Interrupted, SizeChecked, Crash, vars, files, final
<1>3. QED  BY <1>1, <1>2

\* Importing implements the abstract library: every step places one object or a broken
\* file, registers an object that was placed, or changes nothing the user sees.
THEOREM Refinement == Spec => ImplementsLibrary
<1> USE DEF Lib!Init, Lib!Next, Lib!Place, Lib!Break, Lib!Register
<1>1. Init => Lib!Init
  BY DEF Init, holds
<1>2. ASSUME Inv, Inv', [Next]_vars
      PROVE  [Lib!Next]_<<holds, db>>
  <2>t. /\ disk \in [Paths -> Content \cup {NoFile}] /\ cur \in Objects
        /\ Dest[cur] \in Paths /\ NoFile \notin Content /\ last \in [Paths -> Objects \cup {NoFile}]
    BY <1>2, ImporterAssumption DEF Inv, TypeOK, Content
  <2>1. CASE UNCHANGED <<disk, broken, last, db>>
    BY <2>1 DEF holds, Whole
  <2>2. CASE Rename
    <3> DEFINE p == Dest[cur]
    <3>1. /\ UNCHANGED db
          /\ disk' = [disk EXCEPT ![p] = part[p]] /\ last' = [last EXCEPT ![p] = cur]
          /\ broken' = IF p \in foul THEN broken \cup {p} ELSE broken \ {p}
      BY <2>2 DEF Rename
    <3>2. \A q \in Paths : q # p => holds'[q] = holds[q]
      BY <3>1, <2>t DEF holds, Whole
    <3>3. holds'[p] \in {cur, "broken"}
      <4>1. last'[p] = cur /\ cur # NoFile
        BY <2>t, <3>1, ImporterAssumption
      <4>2. DiskInv'
        BY <1>2 DEF Inv
      <4>3. disk'[p] # NoFile /\ (p \notin broken' => disk'[p] = Whole(last'[p]))
        BY <2>t, <4>1, <4>2 DEF DiskInv, Whole
      <4>4. QED  BY <2>t, <4>1, <4>3 DEF holds, Whole
    <3>4. DOMAIN holds = Paths /\ holds' = [q \in Paths |-> holds'[q]] /\ holds = [q \in Paths |-> holds[q]]
      BY DEF holds
    <3>5. holds' = [holds EXCEPT ![Dest[cur]] = holds'[p]]
      BY <2>t, <3>2, <3>4
    <3>6. QED  BY <2>t, <3>1, <3>3, <3>5
  <2>3. CASE Record /\ UNCHANGED <<disk, broken, last>>
    <3>1. holds' = holds /\ db' = db \cup {cur}
      BY <2>3 DEF holds, Whole, Record
    <3>2. last[Dest[cur]] = cur
      BY <1>2, <2>3 DEF Inv, StageInv, Record
    <3>3. holds[Dest[cur]] \in {cur, "broken"}
      BY <1>2, <2>t, <3>2, ImporterAssumption DEF holds, Inv, DiskInv
    <3>4. QED  BY <2>t, <3>1, <3>3
  <2>4. QED  BY <1>2, <2>1, <2>2, <2>3, LibraryMoves
<1>3. QED  BY Invariance, <1>1, <1>2, PTL DEF Spec, ImplementsLibrary, Lib!Spec
=============================================================================
