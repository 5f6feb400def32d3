------------------------------ MODULE Importer ------------------------------
(***************************************************************************)
(* The desktop import pipeline: importer.Importer (run, downloadOne), the  *)
(* transfer loop Camera.DownloadTo and the import register of              *)
(* internal/database, over a file system that survives crashes.            *)
(*                                                                         *)
(* The content of a file is abstracted to [len, of]: of = o means that its *)
(* bytes are exactly the first len bytes of object o, of = Mixed that they *)
(* are not the beginning of any object.                                    *)
(*                                                                         *)
(* Two things may happen to a file that the code does not prevent: objects *)
(* may share a path, and a transaction may be retried after part of its    *)
(* data was written.  Histories keep where they did.                       *)
(***************************************************************************)
EXTENDS Integers, FiniteSets

CONSTANTS
  Objects,       \* camera objects that exist over time, on any card and body
  Paths,         \* destination paths
  Size,          \* Size[o]: bytes of object o, as its ObjectInfo says
  Dest,          \* Dest[o]: root/YYYY/MM-DD/name (DestPath)
  ChunkSize,     \* Profile.ChunkSize
  PartialModes,  \* values Profile.SupportsPartialObject may take, run by run
  ReopenInData,  \* may a transaction be retried after part of its data arrived
  Mixed, NoFile

ASSUME ImporterAssumption ==
  /\ Size \in [Objects -> Nat]
  /\ Dest \in [Objects -> Paths]
  /\ ChunkSize \in Nat \ {0}
  /\ PartialModes \subseteq BOOLEAN
  /\ ReopenInData \in BOOLEAN
  /\ Mixed \notin Objects
  /\ NoFile \notin Objects \cup [len : Nat, of : Objects \cup {Mixed}]

Content == [len : Nat, of : Objects \cup {Mixed}]

VARIABLES
  disk,      \* file at each destination path
  part,      \* file at each destination path with the suffix .part
  db,        \* objects with a row in the imports table
  pc,        \* control state of Importer.run
  queue,     \* files of the run not yet handled
  todo,      \* files the run was started with (history)
  imported,  \* the run's snapshot of ImportedSet, plus what it recorded itself
  cur,       \* file being imported
  written,   \* local variable written of DownloadTo
  partial,   \* Profile.SupportsPartialObject during the run
  foul,      \* paths whose .part file took in the bytes of a retried transaction, or
             \* was resumed with another object (history)
  broken,    \* paths whose file was such a .part file (history)
  last       \* the object renamed to each path last, or NoFile (history)

files   == <<disk, part, foul, broken, last>>
final   == <<disk, broken, last>>
runVars == <<queue, todo, imported, cur, partial>>
vars    == <<files, db, pc, runVars, written>>

PcState == {"idle", "next", "download", "check", "rename", "record", "allDone"}

TypeOK ==
  /\ disk \in [Paths -> Content \cup {NoFile}]
  /\ part \in [Paths -> Content \cup {NoFile}]
  /\ db \subseteq Objects
  /\ pc \in PcState
  /\ queue \subseteq Objects /\ todo \subseteq Objects /\ imported \subseteq Objects
  /\ cur \in Objects
  /\ written \in Nat
  /\ partial \in BOOLEAN
  /\ foul \subseteq Paths /\ broken \subseteq Paths
  /\ last \in [Paths -> Objects \cup {NoFile}]

Init ==
  /\ disk = [p \in Paths |-> NoFile] /\ part = [p \in Paths |-> NoFile]
  /\ db = {}
  /\ pc = "idle" /\ queue = {} /\ todo = {} /\ imported = {}
  /\ cur \in Objects /\ written = 0 /\ partial = FALSE
  /\ foul = {} /\ broken = {} /\ last = [p \in Paths |-> NoFile]

Whole(o) == [len |-> Size[o], of |-> o]

\* Appending n bytes of object o, read at offset at, to a file of content c.
Extend(c, o, at, n) ==
  [len |-> c.len + n,
   of  |-> IF n = 0 THEN c.of
           ELSE IF c.len = at /\ (c.len = 0 \/ c.of = o) THEN o ELSE Mixed]

-----------------------------------------------------------------------------
(* Importer.run *)

\* The register is read, the inventory filtered: any filter selects a subset.
StartRun ==
  /\ pc \in {"idle", "allDone"}
  /\ \E S \in SUBSET Objects : queue' = S /\ todo' = S
  /\ partial' \in PartialModes
  /\ imported' = db
  /\ pc' = "next"
  /\ UNCHANGED <<files, db, cur, written>>

\* Mutant of SkipImported: every file of the queue may be skipped.
SkipAny ==
  /\ pc = "next"
  /\ \E o \in queue : queue' = queue \ {o}
  /\ UNCHANGED <<files, db, pc, todo, imported, cur, written, partial>>

SkipImported ==
  /\ pc = "next"
  /\ \E o \in queue \cap imported : queue' = queue \ {o}
  /\ UNCHANGED <<files, db, pc, todo, imported, cur, written, partial>>

\* Mutant of ResumeOffset: the failure of Stat is passed on as an offset.
ResumeOffsetUnset(o) ==
  LET c == part[Dest[o]] IN
  IF c = NoFile \/ ~partial THEN -1
  ELSE IF c.len > Size[o] THEN 0 ELSE c.len

\* downloadOne up to OpenFile: how much of the .part file to keep.
ResumeOffset(o) ==
  LET c == part[Dest[o]] IN
  IF c = NoFile \/ ~partial THEN 0
  ELSE IF c.len > Size[o] THEN 0 ELSE c.len

\* What is kept of a .part file is a resume; with another object's bytes it is a foul one.
FoulAfterOpen(o) ==
  IF part[Dest[o]] = NoFile \/ ResumeOffset(o) = 0 THEN foul \ {Dest[o]}
  ELSE IF part[Dest[o]].of = o THEN foul ELSE foul \cup {Dest[o]}

\* Mutant of OpenPart: the .part file is always opened for appending.
OpenPartAppending ==
  /\ pc = "next"
  /\ \E o \in queue \ imported :
       /\ cur' = o /\ queue' = queue \ {o}
       /\ written' = ResumeOffset(o)
       /\ part' = IF part[Dest[o]] = NoFile
                    THEN [part EXCEPT ![Dest[o]] = [len |-> 0, of |-> o]]
                    ELSE part
       /\ foul' = FoulAfterOpen(o)
  /\ pc' = "download"
  /\ UNCHANGED <<final, db, todo, imported, partial>>

OpenPart ==
  /\ pc = "next"
  /\ \E o \in queue \ imported :
       /\ cur' = o /\ queue' = queue \ {o}
       /\ written' = ResumeOffset(o)
       /\ part' = IF ResumeOffset(o) = 0
                    THEN [part EXCEPT ![Dest[o]] = [len |-> 0, of |-> o]]
                    ELSE part
       /\ foul' = FoulAfterOpen(o)
  /\ pc' = "download"
  /\ UNCHANGED <<final, db, todo, imported, partial>>

\* EventError: the run ends; its .part file stays.
Fail ==
  /\ pc \in {"next", "check", "rename", "record"}
  /\ pc' = "idle"
  /\ UNCHANGED <<files, db, runVars, written>>

AllDone ==
  /\ pc = "next" /\ queue = {}
  /\ pc' = "allDone"
  /\ UNCHANGED <<files, db, runVars, written>>

-----------------------------------------------------------------------------
(* Camera.DownloadTo *)

Min2(a, b) == IF a < b THEN a ELSE b

\* How many bytes the next transaction asks for.
Want == IF partial THEN Min2(ChunkSize, Size[cur] - written) ELSE Size[cur]

\* Bytes delivered before the session was reopened and the transaction retried.
Before == IF ReopenInData THEN 0..Want ELSE {0}

\* The .part file takes in k bytes, and after a retry n bytes from the same offset.
Receive(k, n) ==
  /\ part' = [part EXCEPT ![Dest[cur]] =
                Extend(Extend(@, cur, written, k), cur, written, n)]
  /\ foul' = IF k > 0 THEN foul \cup {Dest[cur]} ELSE foul

\* One GetPartialObject; its count of bytes is the response parameter or,
\* without one, every byte that went through the writer.
Chunk ==
  /\ pc = "download" /\ partial /\ written < Size[cur]
  /\ \E k \in Before, n \in 1..Want :
       /\ Receive(k, n)
       /\ written' \in {written + n, written + k + n}
  /\ UNCHANGED <<final, db, pc, runVars>>

\* GetObject: the whole object in one transaction.
WholeObject ==
  /\ pc = "download" /\ ~partial
  /\ \E k \in Before, n \in 0..Size[cur] : Receive(k, n)
  /\ pc' = "check"
  /\ UNCHANGED <<final, db, runVars, written>>

Complete ==
  /\ pc = "download" /\ partial /\ written >= Size[cur]
  /\ pc' = "check"
  /\ UNCHANGED <<files, db, runVars, written>>

\* Mutant of Interrupted: the file is put back and tried again, for ever.
InterruptedRetries ==
  /\ pc = "download" /\ (partial => written < Size[cur])
  /\ \E k \in Before, n \in 0..Want : Receive(k, n)
  /\ pc' = "next" /\ queue' = queue \cup {cur}
  /\ UNCHANGED <<final, db, todo, imported, cur, partial, written>>

\* An error, a lost link, a full disk, a zero-length chunk or a cancellation,
\* after some bytes of the transaction, or of its retry, reached the file.
Interrupted ==
  /\ pc = "download" /\ (partial => written < Size[cur])
  /\ \E k \in Before, n \in 0..Want : Receive(k, n)
  /\ pc' = "idle"
  /\ UNCHANGED <<final, db, runVars, written>>

-----------------------------------------------------------------------------
(* The end of downloadOne, and Record *)

\* Mutant of SizeChecked: the size is not compared.
SizeUnchecked ==
  /\ pc = "check"
  /\ pc' = "rename"
  /\ UNCHANGED <<files, db, runVars, written>>

\* Mutant of SizeChecked: the object is recorded before the rename.
RecordedFirst ==
  /\ pc = "check" /\ part[Dest[cur]].len = Size[cur]
  /\ pc' = "record"
  /\ UNCHANGED <<files, db, runVars, written>>

SizeChecked ==
  /\ pc = "check" /\ part[Dest[cur]].len = Size[cur]
  /\ pc' = "rename"
  /\ UNCHANGED <<files, db, runVars, written>>

Rename ==
  /\ pc = "rename"
  /\ disk' = [disk EXCEPT ![Dest[cur]] = part[Dest[cur]]]
  /\ part' = [part EXCEPT ![Dest[cur]] = NoFile]
  /\ foul' = foul \ {Dest[cur]}
  /\ broken' = IF Dest[cur] \in foul THEN broken \cup {Dest[cur]} ELSE broken \ {Dest[cur]}
  /\ last' = [last EXCEPT ![Dest[cur]] = cur]
  /\ pc' = "record"
  /\ UNCHANGED <<db, runVars, written>>

Record ==
  /\ pc = "record"
  /\ db' = db \cup {cur}
  /\ imported' = imported \cup {cur}
  /\ pc' = "next"
  /\ UNCHANGED <<files, queue, todo, cur, written, partial>>

\* The process is killed: files and the register survive.
Crash ==
  /\ pc # "idle"
  /\ pc' = "idle"
  /\ queue' = {} /\ todo' = {} /\ imported' = {}
  /\ UNCHANGED <<files, db, cur, written, partial>>

-----------------------------------------------------------------------------
Run == \/ SkipImported \/ OpenPart \/ Fail \/ AllDone
       \/ Chunk \/ WholeObject \/ Complete \/ Interrupted
       \/ SizeChecked \/ Rename \/ Record

Next == StartRun \/ Run \/ Crash

Spec == Init /\ [][Next]_vars

\* A started run keeps going: each transaction and file operation returns.
FairSpec == Spec /\ WF_vars(Run)

-----------------------------------------------------------------------------
(* Properties *)

\* The path of a recorded object holds a whole object, the one itself or one of the same
\* path that was imported after it: no crash, resumed transfer or failed run leaves a row
\* without a file, or with a torn one. The exception are the files of which a transaction
\* was retried after part of its data, or that two objects made up (run 203-217,
\* downloadOne 276-287).
RecordedIsWhole ==
  \A o \in db : LET p == Dest[o] IN
    /\ last[p] # NoFile /\ Dest[last[p]] = p
    /\ p \notin broken => disk[p] = Whole(last[p])

\* Only whole objects appear under the final names, with the same exception (downloadOne).
OnDiskIsWhole ==
  \A p \in Paths : disk[p] = NoFile \/ p \in broken \/ disk[p] = Whole(last[p])

\* The bytes kept in a .part file for a resume are the beginning of the object that is
\* resumed, with the same exception (downloadOne 249-262).
ResumeIsPrefix ==
  pc = "download" /\ Dest[cur] \notin foul =>
    part[Dest[cur]].of = cur /\ part[Dest[cur]].len = written

\* What client.go 348-351 says of the retry of a transaction: its callers "must tolerate a
\* retry from offset zero, which mirrors existing chunked download behaviour". For objects
\* with a path each it would leave the file of a recorded object whole (DownloadTo,
\* downloadOne). It does not, as TLC finds; no run lists it.
RetriesAreTolerated == \A o \in db : disk[Dest[o]] = Whole(o)

\* A run that reports AllDone has recorded every file it was started with.
AllDoneIsAll == pc = "allDone" => todo \subseteq db

\* A recorded object is never transferred again (run: imported[key] is skipped).
NeverTwice == pc \in {"download", "check", "rename", "record"} => cur \notin db

\* A run transfers what is missing, all of it and nothing twice.
RunIsExact == AllDoneIsAll /\ NeverTwice

\* Every run ends: by AllDone, by an error or with the process.
RunEnds == pc \notin {"idle", "allDone"} ~> pc \in {"idle", "allDone"}

-----------------------------------------------------------------------------
(* The library an import builds *)

\* What is on disk at a path; anything but a whole object, or a file that two or a retry
\* made up, is torn.
holds == [p \in Paths |->
            IF disk[p] = NoFile THEN "nothing"
            ELSE IF p \in broken THEN "broken"
            ELSE IF disk[p] = Whole(last[p]) THEN last[p] ELSE "torn"]

Lib == INSTANCE Library WITH holds <- holds, register <- db,
                             Nothing <- "nothing", Broken <- "broken"

\* Importing implements the library: a path gets whole objects only (or, with the exception
\* above, a broken one), an object is registered only after its own file was placed, and
\* nothing is removed.
ImplementsLibrary == Lib!Spec
=============================================================================
