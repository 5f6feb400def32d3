------------------------------ MODULE Library ------------------------------
(***************************************************************************)
(* What importing promises, whatever the transfer is like: a camera object *)
(* appears in the photo library whole or not at all, it is entered in the  *)
(* register of imports only when it was the last one placed at its path,   *)
(* and neither is undone, except that an object of the same path takes the *)
(* place of an earlier one.  A file may also be placed broken: that is the *)
(* damage the program does not prevent.                                    *)
(***************************************************************************)
CONSTANTS Objects, Paths, Dest, Nothing, Broken

VARIABLES holds,    \* the object at each path, or Nothing, or Broken
          register  \* the objects entered

Init == holds = [p \in Paths |-> Nothing] /\ register = {}

Place(o) ==
  /\ holds' = [holds EXCEPT ![Dest[o]] = o]
  /\ UNCHANGED register

Break(o) ==
  /\ holds' = [holds EXCEPT ![Dest[o]] = Broken]
  /\ UNCHANGED register

Register(o) ==
  /\ holds[Dest[o]] \in {o, Broken}
  /\ register' = register \cup {o}
  /\ UNCHANGED holds

Next == \E o \in Objects : Place(o) \/ Break(o) \/ Register(o)

Spec == Init /\ [][Next]_<<holds, register>>
=============================================================================
