------------------------------ MODULE Settings ------------------------------
(***************************************************************************)
(* The arithmetic of camera settings: which value a step goes to           *)
(* (internal/frontend/control.go) and which values a range offers          *)
(* (internal/camera/settings.go).                                          *)
(***************************************************************************)
LOCAL INSTANCE Integers
LOCAL INSTANCE Sequences

Smaller(a, b) == IF a < b THEN a ELSE b
Larger(a, b)  == IF a > b THEN a ELSE b
Distance(a, b) == IF a < b THEN b - a ELSE a - b

\* The first of the choices nearest to the current value
Nearest(choices, current) ==
  CHOOSE i \in DOMAIN choices :
    \A j \in DOMAIN choices :
      \/ Distance(choices[i], current) < Distance(choices[j], current)
      \/ Distance(choices[i], current) = Distance(choices[j], current) /\ i <= j

\* Mutant of StepChoice: the step is made in the values.
StepChoiceArithmetic(choices, current, delta) == current + delta

\* stepChoice: the current value when no move is possible
StepChoice(choices, current, delta) ==
  IF choices = <<>> \/ delta = 0 THEN current
  ELSE choices[Larger(1, Smaller(Len(choices), Nearest(choices, current) + delta))]

\* rangeChoices: at most maxChoices values from min to max, both included
RangeChoices(min0, max0, step0, maxChoices) ==
  LET min    == Smaller(min0, max0)
      max    == Larger(min0, max0)
      step   == IF step0 <= 0 THEN 1 ELSE step0
      count  == (max - min) \div step + 1
      stride == IF count > maxChoices THEN (count + maxChoices - 1) \div maxChoices ELSE 1
      out    == [i \in 1..(max - min) \div (step * stride) + 1 |-> min + (i - 1) * step * stride]
  IN  IF out[Len(out)] = max THEN out
      ELSE IF Len(out) >= maxChoices THEN [out EXCEPT ![Len(out)] = max]
      ELSE Append(out, max)
=============================================================================
