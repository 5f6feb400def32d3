----------------------------- MODULE MCControl -----------------------------
(***************************************************************************)
(* An instance of Control: one writable property, which may have a value   *)
(* that is none of the choices.                                            *)
(***************************************************************************)
EXTENDS Control

MCProps   == <<"iso">>
MCChoices == [c \in {"iso"} |-> <<1, 3>>]
MCRaws    == [c \in {"iso"} |-> 1..3]

\* What a range form offers: not too much, ascending, from end to end
\* (rangeChoices).
ASSUME RangeIsCovered ==
  \A a, b \in -3..7, step \in 0..3, maxChoices \in 2..5 :
    LET raws == RangeChoices(a, b, step, maxChoices)
    IN  /\ Len(raws) <= maxChoices
        /\ \A i \in 2..Len(raws) : raws[i - 1] < raws[i]
        /\ raws[1] = Smaller(a, b) /\ raws[Len(raws)] = Larger(a, b)
=============================================================================
