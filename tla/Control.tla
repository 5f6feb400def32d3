------------------------------ MODULE Control ------------------------------
(***************************************************************************)
(* The camera control panel of the terminal interface                      *)
(* (internal/frontend/control.go) and the commands it starts, with the     *)
(* camera operations they call (internal/camera/settings.go).              *)
(*                                                                         *)
(* readSettingsCmd and setSettingCmd are goroutines that read or write one *)
(* property at a time and end in one message.  The panel may be closed,    *)
(* opened again, or lose its screen before that message is handled.        *)
(***************************************************************************)
EXTENDS Integers, Sequences, FiniteSets, Settings

CONSTANTS
  Props,      \* controlProps: the property codes, in display order
  Choices,    \* the accepted raw values of each property, a sequence
  Writable,   \* the properties this body lets one set
  Raws,       \* the raw values each property may have
  MaxReads,   \* bound: readSettingsCmd goroutines at the same time
  MaxWrites   \* bound: setSettingCmd goroutines at the same time

Codes == {Props[i] : i \in DOMAIN Props}

ASSUME ControlAssumption ==
  /\ Props \in Seq(STRING) /\ Writable \subseteq Codes
  /\ \A i, j \in DOMAIN Props : Props[i] = Props[j] => i = j
  /\ \A c \in Codes : Raws[c] \subseteq Int /\ Choices[c] \in Seq(Raws[c])
  /\ MaxReads \in Nat \ {0} /\ MaxWrites \in Nat \ {0}

VARIABLES
  value,     \* the properties in the camera
  link,      \* the camera answers
  screen, overlay, loading, pending, settings,
             \* fields of Model (the ctrl... ones without their prefix)
  reads,     \* readSettingsCmd goroutines: how far they are, what they read
  writes,    \* setSettingCmd goroutines
  turned,    \* history: properties changed by hand since the panel was opened,
             \* or since they were read again after a write
  doubt      \* history: since the panel was opened commands overlapped, a
             \* result was lost, or another camera was connected

panel == <<overlay, loading, pending, settings>>
vars  == <<value, link, screen, panel, reads, writes, turned, doubt>>

RSlots == 1..MaxReads
WSlots == 1..MaxWrites
Row == UNION {[code : {c}, raw : Raws[c]] : c \in Codes}
Values == {v \in [Codes -> UNION {Raws[c] : c \in Codes}] : \A c \in Codes : v[c] \in Raws[c]}
NoRead  == [at |-> -1, got |-> <<>>]
NoWrite == [st |-> "none"]
ReadState  == [at : -1..Len(Props), got : Seq(Row)]
WriteState == [st : {"describe", "set", "reread", "ok", "failed"}, row : Row] \cup {NoWrite}

TypeOK ==
  /\ value \in Values /\ link \in BOOLEAN
  /\ screen \in {"browser", "settings", "connect"}
  /\ overlay \in BOOLEAN /\ loading \in BOOLEAN /\ pending \in BOOLEAN
  /\ settings \in Seq(Row)
  /\ reads \in [RSlots -> ReadState] /\ writes \in [WSlots -> WriteState]
  /\ turned \subseteq Codes /\ doubt \in BOOLEAN

Init ==
  /\ value \in Values /\ link = TRUE
  /\ screen = "browser" /\ overlay = FALSE /\ loading = FALSE /\ pending = FALSE
  /\ settings = <<>>
  /\ reads = [s \in RSlots |-> NoRead] /\ writes = [s \in WSlots |-> NoWrite]
  /\ turned = {} /\ doubt = FALSE

Reading == \E s \in RSlots : reads[s] # NoRead
Writing == \E s \in WSlots : writes[s] # NoWrite

-----------------------------------------------------------------------------
(* The user *)

\* openControl
Open ==
  /\ screen = "browser" /\ ~overlay
  /\ overlay' = TRUE /\ loading' = TRUE /\ pending' = FALSE
  /\ \E s \in RSlots : /\ reads[s] = NoRead
                       /\ reads' = [reads EXCEPT ![s].at = 0]
  /\ doubt' = (Writing \/ (doubt /\ Reading))
  /\ turned' = IF Reading \/ Writing THEN turned ELSE {}
  /\ UNCHANGED <<value, link, screen, settings, writes>>

\* esc, q, t, the close glyph, or a click outside the box
Close ==
  /\ screen = "browser" /\ overlay
  /\ overlay' = FALSE
  /\ UNCHANGED <<value, link, screen, loading, pending, settings, reads, writes, turned, doubt>>

\* ctrlStep, by key or by a click on an arrow, for any row: the cursor may be on
\* each of them, also on one that is not drawn because a list is loading.
Step(i, delta) ==
  /\ screen = "browser" /\ overlay /\ ~pending
  /\ LET row  == settings[i]
         next == StepChoice(Choices[row.code], row.raw, delta)
     IN  /\ row.code \in Writable /\ next # row.raw
         /\ \E s \in WSlots :
              /\ writes[s] = NoWrite
              /\ writes' = [writes EXCEPT ![s] =
                              [st |-> "describe", row |-> [row EXCEPT !.raw = next]]]
  /\ pending' = TRUE
  /\ doubt' = (doubt \/ Reading \/ Writing)
  /\ UNCHANGED <<value, link, screen, overlay, loading, settings, reads, turned>>

\* The settings screen is entered and left while no overlay is shown.
OtherScreen ==
  /\ ~overlay /\ \/ screen = "browser" /\ screen' = "settings"
                 \/ screen = "settings" /\ screen' = "browser"
  /\ UNCHANGED <<value, link, panel, reads, writes, turned, doubt>>

\* switchCamera (model.go 729-751) with an overlay closed before
SwitchCamera ==
  /\ screen = "browser" /\ ~overlay
  /\ screen' = "connect" /\ link' = FALSE
  /\ overlay' = FALSE /\ loading' = FALSE /\ pending' = FALSE
  /\ settings' = <<>>
  /\ doubt' = (doubt \/ Reading \/ Writing)
  /\ UNCHANGED <<value, reads, writes, turned>>

-----------------------------------------------------------------------------
(* The camera and the link to it *)

LinkDown ==
  /\ link /\ link' = FALSE
  /\ UNCHANGED <<value, screen, panel, reads, writes, turned, doubt>>

\* The reconnect loop succeeds.
LinkUp ==
  /\ screen # "connect" /\ ~link /\ link' = TRUE
  /\ UNCHANGED <<value, screen, panel, reads, writes, turned, doubt>>

\* A refresh fails after the reconnect loop gave up: the connect screen is
\* shown, and the panel stays as it is (model.go 511-514).
GiveUp ==
  /\ screen = "browser" /\ ~link /\ screen' = "connect"
  /\ UNCHANGED <<value, link, panel, reads, writes, turned, doubt>>

\* connectedMsg: perhaps another body, with other values
Connected ==
  /\ screen = "connect" /\ screen' = "browser" /\ link' = TRUE
  /\ doubt' = TRUE
  /\ UNCHANGED <<value, panel, reads, writes, turned>>

\* The photographer turns a dial on the body, or changes a mode.
Turn(c, v) ==
  /\ value[c] # v /\ value' = [value EXCEPT ![c] = v]
  /\ turned' = turned \cup {c}
  /\ UNCHANGED <<link, screen, panel, reads, writes, doubt>>

-----------------------------------------------------------------------------
(* The goroutines *)

\* ReadSettings asks for the next property and skips it on any error; when its
\* thirty seconds are over it returns what it has.
ReadProp(s) ==
  /\ reads[s].at \in 0..Len(Props) - 1
  /\ LET c     == Props[reads[s].at + 1]
         skips == [reads EXCEPT ![s].at = @ + 1]
         row   == [code |-> c, raw |-> value[c]]
     IN  \/ reads' = skips
         \/ link /\ reads' = [skips EXCEPT ![s].got = Append(@, row)]
         \/ reads' = [reads EXCEPT ![s].at = Len(Props)]
  /\ UNCHANGED <<value, link, screen, panel, writes, turned, doubt>>

\* SetSetting: the property is described, and refused when it is read-only.
Describe(s) ==
  /\ writes[s].st = "describe"
  /\ writes' = [writes EXCEPT ![s].st =
                  IF link /\ writes[s].row.code \in Writable THEN "set" ELSE "failed"]
  /\ UNCHANGED <<value, link, screen, panel, reads, turned, doubt>>

\* SetDevicePropValue: done, refused, or done with its answer lost.  What the
\* camera then has may be another value than the one that was asked for.
SetValue(s) ==
  /\ writes[s].st = "set"
  /\ \/ /\ link
        /\ \E v \in Raws[writes[s].row.code] :
             value' = [value EXCEPT ![writes[s].row.code] = v]
        /\ \/ writes' = [writes EXCEPT ![s].st = "reread"] /\ UNCHANGED doubt
           \/ writes' = [writes EXCEPT ![s].st = "failed"] /\ doubt' = TRUE
     \/ /\ writes' = [writes EXCEPT ![s].st = "failed"]
        /\ UNCHANGED <<value, doubt>>
  /\ UNCHANGED <<link, screen, panel, reads, turned>>

\* Mutant of Reread: the value that was asked for is taken for the one that is set.
RereadSkipped(s) ==
  /\ writes[s].st = "reread"
  /\ writes' = [writes EXCEPT ![s].st = "ok"] /\ turned' = turned \ {writes[s].row.code}
  /\ UNCHANGED <<value, link, screen, panel, reads, doubt>>

\* ReadSetting confirms what the camera accepted.
Reread(s) ==
  /\ writes[s].st = "reread"
  /\ IF link
     THEN /\ LET row == writes[s].row
             IN  /\ writes' = [writes EXCEPT ![s] =
                                 [st |-> "ok", row |-> [row EXCEPT !.raw = value[row.code]]]]
                 /\ turned' = turned \ {row.code}
          /\ UNCHANGED doubt
     ELSE /\ writes' = [writes EXCEPT ![s].st = "failed"] /\ doubt' = TRUE
          /\ UNCHANGED turned
  /\ UNCHANGED <<value, link, screen, panel, reads>>

-----------------------------------------------------------------------------
(* Their messages: handleControlMsg on the browser screen, open panel or   *)
(* not; the other screens drop them.                                       *)

\* The list with a setting replaced
Confirmed(row) ==
  [i \in DOMAIN settings |-> IF settings[i].code = row.code THEN row ELSE settings[i]]

\* ctrlSettingsMsg: the list is replaced.
TakeSettings(s) ==
  /\ reads[s].at = Len(Props)
  /\ reads' = [reads EXCEPT ![s] = NoRead]
  /\ IF screen # "browser" THEN UNCHANGED <<panel>>
     ELSE /\ loading' = FALSE /\ settings' = reads[s].got
          /\ UNCHANGED <<overlay, pending>>
  /\ UNCHANGED <<value, link, screen, writes, turned, doubt>>

\* Mutant of TakeSet: the early return of a failed write leaves pending set.
TakeSetLocked(s) ==
  /\ writes[s].st \in {"ok", "failed"}
  /\ writes' = [writes EXCEPT ![s] = NoWrite]
  /\ IF screen # "browser" THEN UNCHANGED panel /\ doubt' = TRUE
     ELSE /\ pending' = (pending /\ writes[s].st = "failed")
          /\ settings' = IF writes[s].st = "failed" THEN settings ELSE Confirmed(writes[s].row)
          /\ UNCHANGED <<overlay, loading, doubt>>
  /\ UNCHANGED <<value, link, screen, reads, turned>>

\* ctrlSetMsg: the confirmed setting replaces its row.
TakeSet(s) ==
  /\ writes[s].st \in {"ok", "failed"}
  /\ writes' = [writes EXCEPT ![s] = NoWrite]
  /\ IF screen # "browser" THEN UNCHANGED panel /\ doubt' = TRUE
     ELSE /\ pending' = FALSE
          /\ settings' = IF writes[s].st = "failed" THEN settings ELSE Confirmed(writes[s].row)
          /\ UNCHANGED <<overlay, loading, doubt>>
  /\ UNCHANGED <<value, link, screen, reads, turned>>

-----------------------------------------------------------------------------
User ==
  \/ Open \/ Close \/ OtherScreen \/ SwitchCamera
  \/ \E i \in DOMAIN settings, d \in {-1, 1} : Step(i, d)

Environment ==
  \/ LinkDown \/ LinkUp \/ GiveUp \/ Connected
  \/ \E c \in Codes : \E v \in Raws[c] : Turn(c, v)

System ==
  \/ \E s \in RSlots : ReadProp(s) \/ TakeSettings(s)
  \/ \E s \in WSlots : Describe(s) \/ SetValue(s) \/ Reread(s) \/ TakeSet(s)

Next == User \/ Environment \/ System

\* Transactions end and the update loop handles their messages; users,
\* camera and network do as they like.
Spec ==
  /\ Init /\ [][Next]_vars
  /\ \A s \in RSlots : WF_vars(ReadProp(s)) /\ WF_vars(TakeSettings(s))
  /\ \A s \in WSlots : /\ WF_vars(Describe(s)) /\ WF_vars(SetValue(s))
                        /\ WF_vars(Reread(s)) /\ WF_vars(TakeSet(s))

-----------------------------------------------------------------------------
(* Properties *)

\* When no command is under way the panel shows what is set in the camera, which
\* need not be what was asked for, unless since it was opened commands overlapped,
\* a result was lost or another camera was connected; and but for the properties
\* that were changed by hand since, and not read again (openControl, setSettingCmd,
\* handleControlMsg).
RestIsTrue ==
  overlay /\ screen = "browser" /\ ~loading /\ ~Reading /\ ~Writing /\ ~doubt =>
    \A i \in DOMAIN settings :
      settings[i].code \notin turned => settings[i].raw = value[settings[i].code]

\* The panel stays neither in "reading camera settings..." nor with its steppers
\* locked by a command, unless the connect screen takes the message.
PanelSettles ==
  /\ overlay /\ loading /\ Reading ~> ~overlay \/ ~loading \/ screen = "connect"
  /\ overlay /\ pending /\ Writing ~> ~overlay \/ ~pending \/ screen = "connect"
=============================================================================
