---------------------------- MODULE ControlProofs ----------------------------
(***************************************************************************)
(* Proofs about Control for any properties, choices and current values and *)
(* any number of reads and writes: a step asks only for a value the        *)
(* property may have, and at rest the panel shows what is set in the       *)
(* camera; and about the arithmetic of Settings, for all its arguments.    *)
(***************************************************************************)
EXTENDS Control, FiniteSetTheorems, SequenceTheorems, WellFoundedInduction, TLAPS

\* A set of numbers has a smallest one.
LEMMA Smallest == ASSUME NEW T, T \subseteq Nat, T # {}
  PROVE \E m \in T : \A n \in T : m <= n
<1>1. PICK m \in T : \A n \in T : ~(<<n, m>> \in OpToRel(<, Nat))
  BY WFMin, NatLessThanWellFounded
<1>2. ASSUME NEW n \in T PROVE m <= n
  <2>1. ~(n < m)  BY <1>1 DEF OpToRel
  <2>2. QED  BY <2>1
<1>3. QED  BY <1>2

\* There is a choice nearest to any value (nearestChoice of stepChoice).
LEMMA NearestIsIndex ==
  ASSUME NEW choices \in Seq(Int), choices # <<>>, NEW current \in Int
  PROVE  Nearest(choices, current) \in DOMAIN choices
<1> DEFINE gap(i) == Distance(choices[i], current)
           gaps == {gap(i) : i \in DOMAIN choices}
<1>1. \A i \in DOMAIN choices : gap(i) \in Nat
  BY DEF Distance
<1>2. DOMAIN choices \subseteq Nat /\ DOMAIN choices # {}
  <2> HIDE DEF gap, gaps
  <2>1. DOMAIN choices = 1..Len(choices) /\ Len(choices) \in Nat  OBVIOUS
  <2>2. Len(choices) # 0  BY EmptySeq
  <2>3. 1 \in DOMAIN choices  BY <2>1, <2>2
  <2>4. QED  BY <2>1, <2>3
<1>3. PICK d \in gaps : \A e \in gaps : d <= e
  BY <1>1, <1>2, Smallest
<1>4. PICK i \in DOMAIN choices : gap(i) = d /\ \A j \in DOMAIN choices : gap(j) = d => i <= j
  <2> DEFINE near == {j \in DOMAIN choices : gap(j) = d}
  <2>1. near \subseteq Nat /\ near # {}
    BY <1>2, <1>3
  <2>2. PICK i \in near : \A j \in near : i <= j
    BY <2>1, Smallest
  <2>3. QED  BY <2>2
<1>5. \A j \in DOMAIN choices : gap(i) < gap(j) \/ (gap(i) = gap(j) /\ i <= j)
  <2> SUFFICES ASSUME NEW j \in DOMAIN choices
               PROVE  gap(i) < gap(j) \/ (gap(i) = gap(j) /\ i <= j)
    OBVIOUS
  <2>1. gap(j) \in gaps /\ gap(i) \in Nat /\ gap(j) \in Nat  BY <1>1
  <2>2. gap(i) <= gap(j)  BY <2>1, <1>3, <1>4
  <2>3. gap(i) = d /\ (gap(j) = d => i <= j)  BY <1>4
  <2> HIDE DEF gap, gaps
  <2>4. QED  BY <2>1, <2>2, <2>3
<1>6. QED  BY <1>5 DEF Nearest

\* A step leads to a value that the property may have.
LEMMA StepIsChoice ==
  ASSUME NEW S, S \subseteq Int, NEW choices \in Seq(S), NEW current \in S, NEW delta \in Int
  PROVE  StepChoice(choices, current, delta) \in S
<1>1. CASE choices = <<>> \/ delta = 0
  BY <1>1 DEF StepChoice
<1>2. CASE choices # <<>> /\ delta # 0
  <2>1. Nearest(choices, current) \in DOMAIN choices
    BY <1>2, NearestIsIndex, SeqMonotonic
  <2> DEFINE to == Nearest(choices, current) + delta
  <2>2. Larger(1, Smaller(Len(choices), to)) \in 1..Len(choices)
    BY <1>2, <2>1 DEF Larger, Smaller
  <2>3. QED  BY <1>2, <2>2 DEF StepChoice
<1>3. QED  BY <1>1, <1>2

\* Division with a remainder.
LEMMA Division ==
  ASSUME NEW a \in Nat, NEW d \in Nat \ {0}
  PROVE  a \div d \in Nat /\ d * (a \div d) <= a /\ a < d * ((a \div d) + 1)
  OBVIOUS

\* Whatever a camera reports for a range, the panel offers an ascending choice of values
\* from end to end, and not more of them than it may (rangeChoices, where maxChoices is
\* 40). The numbers are unbounded here: the ranges meant are those of at most 32 bits,
\* for which the code, in 64 bits, computes the same.
THEOREM RangeIsOffered ==
  ASSUME NEW a \in Int, NEW b \in Int, NEW step0 \in Int, NEW maxChoices \in Nat, maxChoices >= 2
  PROVE  LET raws == RangeChoices(a, b, step0, maxChoices)
         IN  /\ raws \in Seq(Int) /\ Len(raws) \in 1..maxChoices
             /\ \A i \in 2..Len(raws) : raws[i - 1] < raws[i]
             /\ raws[1] = Smaller(a, b) /\ raws[Len(raws)] = Larger(a, b)
<1> DEFINE min == Smaller(a, b)
           max == Larger(a, b)
           step == IF step0 <= 0 THEN 1 ELSE step0
           count == (max - min) \div step + 1
           stride == IF count > maxChoices THEN (count + maxChoices - 1) \div maxChoices ELSE 1
           S == step * stride
           K == (max - min) \div S
           out == [i \in 1..K + 1 |-> min + (i - 1) * step * stride]
           raws == RangeChoices(a, b, step0, maxChoices)
<1>1. raws = IF out[Len(out)] = max THEN out
             ELSE IF Len(out) >= maxChoices THEN [out EXCEPT ![Len(out)] = max]
             ELSE Append(out, max)
  BY DEF RangeChoices
<1>2. min \in Int /\ max \in Int /\ min <= max /\ max - min \in Nat  BY DEF Smaller, Larger
<1> HIDE DEF min, max
<1>3. step \in Nat \ {0}  OBVIOUS
<1> HIDE DEF step
<1>4. count \in Nat \ {0} /\ max - min < step * count
  <2>1. (max - min) \div step \in Nat /\ max - min < step * ((max - min) \div step + 1)
    BY <1>2, <1>3, Division
  <2>2. QED  BY <2>1
<1> HIDE DEF count
<1>5. stride \in Nat \ {0} /\ count <= stride * maxChoices
  <2>1. CASE count > maxChoices
    <3> DEFINE q == (count + maxChoices - 1) \div maxChoices
    <3>1. q \in Nat /\ count + maxChoices - 1 < maxChoices * (q + 1)
      BY <1>4, Division
    <3> HIDE DEF q
    <3>2. maxChoices * (q + 1) = q * maxChoices + maxChoices  BY <3>1
    <3>3. count <= q * maxChoices  BY <1>4, <3>1, <3>2
    <3>4. q # 0  BY <1>4, <3>3
    <3>5. stride = q  BY <2>1 DEF q
    <3>6. QED  BY <3>1, <3>3, <3>4, <3>5
  <2>2. CASE ~(count > maxChoices)  BY <1>4, <2>2
  <2>3. QED  BY <2>1, <2>2
<1> HIDE DEF stride
<1>6. S \in Nat \ {0} /\ max - min < S * maxChoices
  <2>1. S \in Nat \ {0}  BY <1>3, <1>5
  <2>2. step * count <= step * (stride * maxChoices)  BY <1>3, <1>4, <1>5
  <2>3. step * (stride * maxChoices) = S * maxChoices  BY <1>3, <1>5
  <2>4. QED  BY <1>2, <1>3, <1>4, <1>5, <2>1, <2>2, <2>3
<1> HIDE DEF S, raws
<1>7. K \in Nat /\ S * K <= max - min /\ max - min < S * (K + 1)
  BY <1>2, <1>6, Division
<1> HIDE DEF K
<1>8. K + 1 <= maxChoices
  <2>1. S * K < S * maxChoices  BY <1>2, <1>6, <1>7
  <2>2. K < maxChoices
    <3>1. ASSUME K >= maxChoices PROVE S * K >= S * maxChoices  BY <1>6, <1>7, <3>1
    <3>2. S * K \in Nat /\ S * maxChoices \in Nat  BY <1>6, <1>7
    <3>3. QED  BY <1>7, <2>1, <3>1, <3>2
  <2>3. QED  BY <1>7, <2>2
<1>9. /\ out \in [1..K + 1 -> Int] /\ out[1] = min /\ out[K + 1] = min + K * S
      /\ \A i \in 2..K + 1 : out[i - 1] < out[i]
  <2>1. \A i \in 1..K + 1 : (i - 1) * S \in Int  BY <1>6, <1>7
  <2>2. out = [i \in 1..K + 1 |-> min + (i - 1) * S]
    <3>1. \A i \in 1..K + 1 : (i - 1) * step * stride = (i - 1) * S  BY <1>3, <1>5, <1>7 DEF S
    <3>2. QED  BY <3>1
  <2> HIDE DEF out
  <2>3. out \in [1..K + 1 -> Int]  BY <1>2, <2>2, <2>1
  <2>4. out[1] = min  BY <1>2, <1>6, <1>7, <2>2
  <2>5. out[K + 1] = min + K * S  BY <1>2, <1>7, <2>2
  <2>6. ASSUME NEW i \in 2..K + 1 PROVE out[i - 1] < out[i]
    <3>1. out[i - 1] = min + (i - 2) * S /\ out[i] = min + (i - 1) * S  BY <1>7, <2>2
    <3>2. (i - 1) * S = (i - 2) * S + S /\ (i - 2) * S \in Int  BY <1>6, <1>7
    <3>3. QED  BY <1>2, <1>6, <3>1, <3>2
  <2>7. QED  BY <2>3, <2>4, <2>5, <2>6
<1> HIDE DEF out
<1>10. out \in Seq(Int) /\ Len(out) = K + 1  BY <1>7, <1>9
<1>11. min + K * S <= max /\ (K = 0 => min + K * S = min)
  BY <1>2, <1>6, <1>7
<1>12. CASE out[Len(out)] = max
  <2>1. raws = out  BY <1>1, <1>12
  <2>2. QED  BY <1>7, <1>8, <1>9, <1>10, <1>12, <2>1 DEF raws, min, max
<1>13. CASE out[Len(out)] # max /\ Len(out) >= maxChoices
  <2>1. raws = [out EXCEPT ![K + 1] = max]  BY <1>1, <1>10, <1>13
  <2>2. K + 1 = maxChoices /\ K + 1 >= 2  BY <1>7, <1>8, <1>10, <1>13
  <2>3. raws \in [1..K + 1 -> Int] /\ raws[K + 1] = max /\ raws[1] = min
        /\ \A i \in 1..K : raws[i] = out[i]
    BY <1>2, <1>7, <1>9, <2>1, <2>2
  <2>4. raws \in Seq(Int) /\ Len(raws) = K + 1  BY <1>7, <2>3
  <2>5. out[K + 1] < max  BY <1>2, <1>9, <1>10, <1>11, <1>13
  <2>6. ASSUME NEW i \in 2..K + 1 PROVE raws[i - 1] < raws[i]
    <3>1. out[i - 1] < out[i] /\ i - 1 \in 1..K /\ out[i - 1] \in Int /\ out[i] \in Int  BY <1>7, <1>9
    <3>2. CASE i = K + 1  BY <1>2, <2>3, <2>5, <3>1, <3>2
    <3>3. CASE i # K + 1  BY <1>7, <2>3, <3>1, <3>3
    <3>4. QED  BY <3>2, <3>3
  <2>7. QED  BY <1>7, <2>2, <2>3, <2>4, <2>6 DEF raws, min, max
<1>14. CASE out[Len(out)] # max /\ ~(Len(out) >= maxChoices)
  <2>1. raws = Append(out, max)  BY <1>1, <1>14
  <2>2. /\ raws \in Seq(Int) /\ Len(raws) = K + 2 /\ raws[K + 2] = max
        /\ \A i \in 1..K + 1 : raws[i] = out[i]
    BY <1>2, <1>7, <1>10, <2>1
  <2>3. K + 2 <= maxChoices  BY <1>7, <1>10, <1>14
  <2>4. out[K + 1] < max
    <3>1. out[K + 1] # max  BY <1>10, <1>14
    <3>2. K * S \in Int  BY <1>6, <1>7
    <3>3. QED  BY <1>2, <1>9, <1>11, <3>1, <3>2
  <2>5. ASSUME NEW i \in 2..K + 2 PROVE raws[i - 1] < raws[i]
    <3>1. CASE i = K + 2
      <4>1. i - 1 = K + 1 /\ K + 1 \in 1..K + 1  BY <1>7, <3>1
      <4>2. QED  BY <2>2, <2>4, <3>1, <4>1
    <3>2. CASE i # K + 2
      <4>1. i \in 2..K + 1 /\ i \in 1..K + 1 /\ i - 1 \in 1..K + 1  BY <1>7, <3>2
      <4>2. QED  BY <1>9, <2>2, <4>1
    <3>3. QED  BY <3>1, <3>2
  <2>6. raws[1] = min
    <3>1. 1 \in 1..K + 1  BY <1>7
    <3>2. QED  BY <1>9, <2>2, <3>1
  <2>7. QED  BY <1>7, <2>2, <2>3, <2>5, <2>6 DEF raws, min, max
<1>15. QED  BY <1>12, <1>13, <1>14

\* On an ascending choice a step goes to the neighbour of the value that is set, and stays
\* at the ends (stepChoice).
THEOREM StepGoesToNeighbour ==
  ASSUME NEW choices \in Seq(Int), \A i, j \in DOMAIN choices : i < j => choices[i] < choices[j],
         NEW k \in DOMAIN choices, NEW delta \in {-1, 1}
  PROVE  StepChoice(choices, choices[k], delta) =
           IF k + delta \in DOMAIN choices THEN choices[k + delta] ELSE choices[k]
<1>1. Len(choices) \in Nat /\ DOMAIN choices = 1..Len(choices) /\ choices # <<>>
      /\ \A i \in DOMAIN choices : choices[i] \in Int
  OBVIOUS
<1> DEFINE First(i) == \A j \in DOMAIN choices :
             \/ Distance(choices[i], choices[k]) < Distance(choices[j], choices[k])
             \/ Distance(choices[i], choices[k]) = Distance(choices[j], choices[k]) /\ i <= j
<1>2. \A j \in DOMAIN choices : j # k => Distance(choices[j], choices[k]) > 0
  BY <1>1 DEF Distance
<1>3. Distance(choices[k], choices[k]) = 0  BY <1>1 DEF Distance
<1>4. First(k)  BY <1>1, <1>2, <1>3
<1>5. \A i \in DOMAIN choices : First(i) => i = k
  <2> SUFFICES ASSUME NEW i \in DOMAIN choices, First(i), i # k PROVE FALSE  OBVIOUS
  <2>1. Distance(choices[i], choices[k]) > 0 /\ Distance(choices[i], choices[k]) \in Int
    BY <1>1, <1>2 DEF Distance
  <2>2. QED  BY <1>3, <2>1
<1>6. Nearest(choices, choices[k]) = k
  <2>1. Nearest(choices, choices[k]) = CHOOSE i \in DOMAIN choices : First(i)  BY DEF Nearest
  <2> HIDE DEF First
  <2>2. QED  BY <1>4, <1>5, <2>1
<1>7. StepChoice(choices, choices[k], delta) = choices[Larger(1, Smaller(Len(choices), k + delta))]
  BY <1>1, <1>6 DEF StepChoice
<1>8. Larger(1, Smaller(Len(choices), k + delta)) = IF k + delta \in 1..Len(choices) THEN k + delta ELSE k
  BY <1>1 DEF Larger, Smaller
<1>9. QED  BY <1>1, <1>7, <1>8

-----------------------------------------------------------------------------
(* Types *)

LEMMA RowType == \A r : r \in Row <=>
  r = [code |-> r.code, raw |-> r.raw] /\ r.code \in Codes /\ r.raw \in Raws[r.code]
BY DEF Row

LEMMA ValueRow ==
  ASSUME value \in Values, NEW c \in Codes
  PROVE  [code |-> c, raw |-> value[c]] \in Row
<1>1. value[c] \in Raws[c]  BY DEF Values
<1>2. QED  BY <1>1 DEF Row

LEMMA SetValueType ==
  ASSUME value \in Values, NEW c \in Codes, NEW v \in Raws[c]
  PROVE  [value EXCEPT ![c] = v] \in Values
<1>1. v \in UNION {Raws[d] : d \in Codes}  OBVIOUS
<1>2. QED  BY <1>1 DEF Values

LEMMA WriteType ==
  ASSUME TypeOK, NEW s \in WSlots, writes[s].st # "none"
  PROVE  writes[s].row \in Row /\ writes[s] = [st |-> writes[s].st, row |-> writes[s].row]
         /\ writes[s].st \in {"describe", "set", "reread", "ok", "failed"}
BY DEF TypeOK, WriteState, NoWrite

LEMMA NewWrite ==
  ASSUME TypeOK, NEW s \in WSlots, NEW r \in Row,
         NEW st \in {"describe", "set", "reread", "ok", "failed"},
         writes' = [writes EXCEPT ![s] = [st |-> st, row |-> r]]
  PROVE  writes' \in [WSlots -> WriteState]
BY DEF TypeOK, WriteState

LEMMA ReadType ==
  ASSUME TypeOK, NEW s \in RSlots
  PROVE  /\ reads[s].at \in -1..Len(Props) /\ reads[s].got \in Seq(Row)
         /\ reads[s] = [at |-> reads[s].at, got |-> reads[s].got]
BY DEF TypeOK, ReadState

LEMMA NewRead ==
  ASSUME TypeOK, NEW s \in RSlots, NEW n \in -1..Len(Props), NEW g \in Seq(Row),
         reads' = [reads EXCEPT ![s] = [at |-> n, got |-> g]]
  PROVE  reads' \in [RSlots -> ReadState]
BY DEF TypeOK, ReadState

LEMMA ReadMoves ==
  ASSUME TypeOK, NEW s \in RSlots, NEW n \in -1..Len(Props), NEW g \in Seq(Row),
         \/ reads' = [reads EXCEPT ![s].at = n]
         \/ reads' = [reads EXCEPT ![s].at = n, ![s].got = g]
  PROVE  reads' \in [RSlots -> ReadState]
BY DEF TypeOK, ReadState

LEMMA WriteMoves ==
  ASSUME TypeOK, NEW s \in WSlots, writes[s].st # "none",
         NEW st \in {"describe", "set", "reread", "ok", "failed"},
         writes' = [writes EXCEPT ![s].st = st]
  PROVE  writes' \in [WSlots -> WriteState] /\ writes'[s] = [st |-> st, row |-> writes[s].row]
BY DEF TypeOK, WriteState, NoWrite

\* One step of setSettingCmd: the write goes on with its row, or ends with the
\* value that is set by then.
LEMMA WriteStep ==
  ASSUME TypeOK, NEW s \in WSlots, Describe(s) \/ SetValue(s) \/ Reread(s)
  PROVE  /\ writes' \in [WSlots -> WriteState]
         /\ writes[s].st # "none" /\ writes'[s].st # "none"
         /\ writes'[s].row.code = writes[s].row.code
         /\ \A t \in WSlots : t # s => writes'[t] = writes[t]
         /\ Reread(s) /\ writes'[s].st = "ok" => writes'[s].row.raw = value[writes[s].row.code]
         /\ writes'[s].st = "ok" => Reread(s)
<1>1. writes[s].st # "none"  BY DEF Describe, SetValue, Reread
<1>2. writes[s].row \in Row /\ writes[s] = [st |-> writes[s].st, row |-> writes[s].row]
  BY <1>1, WriteType
<1>3. ASSUME NEW st \in {"set", "reread", "failed"}, writes' = [writes EXCEPT ![s].st = st]
      PROVE  /\ writes' \in [WSlots -> WriteState]
             /\ writes'[s] = [st |-> st, row |-> writes[s].row]
             /\ \A t \in WSlots : t # s => writes'[t] = writes[t]
  BY <1>1, <1>3, WriteMoves DEF TypeOK
<1>4. CASE Describe(s)
  <2> DEFINE st == IF link /\ writes[s].row.code \in Writable THEN "set" ELSE "failed"
  <2>1. st \in {"set", "reread", "failed"} /\ st # "ok"  OBVIOUS
  <2>2. writes' = [writes EXCEPT ![s].st = st]  BY <1>4 DEF Describe
  <2> HIDE DEF st
  <2>3. writes' \in [WSlots -> WriteState] /\ writes'[s] = [st |-> st, row |-> writes[s].row]
        /\ \A t \in WSlots : t # s => writes'[t] = writes[t]
    BY <2>1, <2>2, <1>3
  <2>4. QED  BY <1>1, <2>1, <2>3
<1>5. CASE SetValue(s)
  <2>1. PICK st \in {"reread", "failed"} : writes' = [writes EXCEPT ![s].st = st]
    BY <1>5 DEF SetValue
  <2>2. writes' \in [WSlots -> WriteState] /\ writes'[s] = [st |-> st, row |-> writes[s].row]
        /\ \A t \in WSlots : t # s => writes'[t] = writes[t]
    BY <2>1, <1>3
  <2>3. QED  BY <1>1, <2>1, <2>2
<1>6. CASE Reread(s)
  <2>1. CASE writes' = [writes EXCEPT ![s].st = "failed"]
    <3>1. writes' \in [WSlots -> WriteState] /\ writes'[s] = [st |-> "failed", row |-> writes[s].row]
          /\ \A t \in WSlots : t # s => writes'[t] = writes[t]
      BY <2>1, <1>3
    <3>2. QED  BY <1>1, <3>1
  <2>2. CASE writes' = [writes EXCEPT ![s] =
          [st |-> "ok", row |-> [writes[s].row EXCEPT !.raw = value[writes[s].row.code]]]]
    <3> DEFINE r == [code |-> writes[s].row.code, raw |-> value[writes[s].row.code]]
    <3>1. [writes[s].row EXCEPT !.raw = value[writes[s].row.code]] = r  BY <1>2, RowType
    <3>2. r \in Row /\ r.code = writes[s].row.code /\ r.raw = value[writes[s].row.code]
      BY <1>2, RowType, ValueRow DEF TypeOK
    <3> HIDE DEF r
    <3>3. writes' = [writes EXCEPT ![s] = [st |-> "ok", row |-> r]]  BY <2>2, <3>1
    <3>4. writes' \in [WSlots -> WriteState]  BY <3>2, <3>3, NewWrite
    <3>5. writes'[s] = [st |-> "ok", row |-> r] /\ \A t \in WSlots : t # s => writes'[t] = writes[t]
      BY <3>3 DEF TypeOK
    <3>6. QED  BY <1>1, <1>6, <3>2, <3>4, <3>5
  <2>3. QED  BY <1>6, <2>1, <2>2 DEF Reread
<1>7. QED  BY <1>4, <1>5, <1>6

LEMMA StepType ==
  ASSUME TypeOK, NEW i \in DOMAIN settings, NEW d \in {-1, 1}, Step(i, d)
  PROVE  TypeOK'
<1> DEFINE row == settings[i]
           next == StepChoice(Choices[row.code], row.raw, d)
<1>1. row \in Row  BY DEF TypeOK
<1>2. row.code \in Codes /\ row.raw \in Raws[row.code]  BY <1>1, RowType
<1>3. next \in Raws[row.code]
  <2>1. Raws[row.code] \subseteq Int /\ Choices[row.code] \in Seq(Raws[row.code])
    BY <1>2, ControlAssumption
  <2>2. d \in Int  OBVIOUS
  <2> HIDE DEF row
  <2>3. QED  BY <1>2, <2>1, <2>2, StepIsChoice
<1> HIDE DEF next
<1>4. [row EXCEPT !.raw = next] = [code |-> row.code, raw |-> next]
  BY <1>1, RowType
<1>5. [row EXCEPT !.raw = next] \in Row
  BY <1>2, <1>3, <1>4 DEF Row
<1>6. \E s \in WSlots :
        writes' = [writes EXCEPT ![s] = [st |-> "describe", row |-> [row EXCEPT !.raw = next]]]
  BY DEF Step, next
<1> HIDE DEF row
<1>7. writes' \in [WSlots -> WriteState]
  BY <1>5, <1>6, NewWrite
<1>8. doubt' \in BOOLEAN  BY DEF Step, TypeOK
<1>9. QED  BY <1>7, <1>8 DEF Step, TypeOK

LEMMA RestTypes ==
  ASSUME TypeOK, NEW s \in WSlots, writes[s].st \in {"ok", "failed"}
  PROVE  Confirmed(writes[s].row) \in Seq(Row)
<1>1. writes[s].row \in Row  BY WriteType
<1>2. Len(settings) \in Nat /\ DOMAIN settings = 1..Len(settings)
      /\ \A i \in DOMAIN settings : settings[i] \in Row
  BY DEF TypeOK
<1>3. \A i \in DOMAIN settings :
        (IF settings[i].code = writes[s].row.code THEN writes[s].row ELSE settings[i]) \in Row
  BY <1>1, <1>2
<1>4. QED  BY <1>2, <1>3 DEF Confirmed

LEMMA NextTypes == TypeOK /\ [Next]_vars => TypeOK'
<1> SUFFICES ASSUME TypeOK, [Next]_vars PROVE TypeOK'
  OBVIOUS
<1>1. CASE Open
  <2>1. reads' \in [RSlots -> ReadState]
    <3>1. Len(Props) \in Nat  BY ControlAssumption
    <3>2. PICK s \in RSlots : reads' = [reads EXCEPT ![s].at = 0]  BY <1>1 DEF Open
    <3>3. 0 \in -1..Len(Props) /\ <<>> \in Seq(Row)  BY <3>1
    <3>4. QED  BY <3>2, <3>3, ReadMoves
  <2>2. doubt' \in BOOLEAN
    BY <1>1 DEF Open, TypeOK
  <2>3. QED  BY <1>1, <2>1, <2>2 DEF Open, TypeOK
<1>2. CASE Close \/ OtherScreen \/ LinkDown \/ LinkUp \/ GiveUp \/ Connected
  BY <1>2 DEF Close, OtherScreen, LinkDown, LinkUp, GiveUp, Connected, panel, TypeOK
<1>t. ASSUME NEW c \in Codes, NEW v \in Raws[c], Turn(c, v) PROVE TypeOK'
  <2>1. value' \in Values  BY <1>t, SetValueType DEF Turn, TypeOK
  <2>2. turned' \subseteq Codes  BY <1>t DEF Turn, TypeOK
  <2>3. QED  BY <1>t, <2>1, <2>2 DEF Turn, panel, TypeOK
<1>3. CASE SwitchCamera
  <2>1. doubt' \in BOOLEAN  BY <1>3 DEF SwitchCamera, TypeOK
  <2>2. settings' \in Seq(Row)  BY <1>3 DEF SwitchCamera
  <2>3. QED  BY <1>3, <2>1, <2>2 DEF SwitchCamera, TypeOK
<1>4. CASE \E i \in DOMAIN settings, d \in {-1, 1} : Step(i, d)
  BY <1>4, StepType
<1>5. ASSUME NEW s \in RSlots, ReadProp(s) PROVE TypeOK'
  <2> DEFINE c == Props[reads[s].at + 1]
             row == [code |-> c, raw |-> value[c]]
  <2>1. Len(Props) \in Nat /\ reads[s].at + 1 \in DOMAIN Props /\ reads[s].at + 1 \in -1..Len(Props)
    BY <1>5, ControlAssumption DEF ReadProp, TypeOK
  <2>2. c \in Codes  BY <2>1 DEF Codes
  <2>3. row \in Row  BY <2>2, ValueRow DEF TypeOK
  <2>4. reads[s].got \in Seq(Row)  BY ReadType
  <2>5. Append(reads[s].got, row) \in Seq(Row)  BY <2>3, <2>4
  <2>6. \/ reads' = [reads EXCEPT ![s].at = reads[s].at + 1]
        \/ reads' = [reads EXCEPT ![s].at = reads[s].at + 1, ![s].got = Append(reads[s].got, row)]
        \/ reads' = [reads EXCEPT ![s].at = Len(Props)]
    BY <1>5, <2>1 DEF ReadProp, TypeOK
  <2> HIDE DEF row
  <2>7. reads' \in [RSlots -> ReadState]
    <3>1. Len(Props) \in -1..Len(Props)  BY <2>1
    <3>2. QED  BY <2>1, <2>4, <2>5, <2>6, <3>1, ReadMoves
  <2>8. QED  BY <1>5, <2>7 DEF ReadProp, panel, TypeOK
<1>6. ASSUME NEW s \in RSlots, TakeSettings(s) PROVE TypeOK'
  <2>1. reads' \in [RSlots -> ReadState]
    <3>1. -1 \in -1..Len(Props) /\ <<>> \in Seq(Row)  BY ControlAssumption
    <3>2. QED  BY <1>6, <3>1, NewRead DEF TakeSettings, NoRead
  <2>2. settings' \in Seq(Row)  BY <1>6, ReadType DEF TakeSettings, panel, TypeOK
  <2>3. loading' \in BOOLEAN /\ overlay' \in BOOLEAN /\ pending' \in BOOLEAN
    BY <1>6 DEF TakeSettings, panel, TypeOK
  <2>4. QED  BY <1>6, <2>1, <2>2, <2>3 DEF TakeSettings, TypeOK
<1>7. ASSUME NEW s \in WSlots, Describe(s) \/ SetValue(s) \/ Reread(s) PROVE TypeOK'
  <2>1. writes[s].st # "none"  BY <1>7 DEF Describe, SetValue, Reread
  <2>2. writes[s].row \in Row /\ writes[s] = [st |-> writes[s].st, row |-> writes[s].row]
    BY <2>1, WriteType
  <2>3. \A v \in Raws[writes[s].row.code] :
          [value EXCEPT ![writes[s].row.code] = v] \in Values
    BY <2>2, RowType, SetValueType DEF TypeOK
  <2>7. writes' \in [WSlots -> WriteState]  BY <1>7, WriteStep
  <2>8. value' \in Values /\ doubt' \in BOOLEAN /\ turned' \subseteq Codes
    <3>1. CASE Describe(s)  BY <3>1 DEF Describe, TypeOK
    <3>2. CASE SetValue(s)  BY <3>2, <2>3 DEF SetValue, TypeOK
    <3>3. CASE Reread(s)  BY <3>3 DEF Reread, TypeOK
    <3>4. QED  BY <1>7, <3>1, <3>2, <3>3
  <2>9. UNCHANGED <<link, screen, panel, reads>>  BY <1>7 DEF Describe, SetValue, Reread
  <2>10. QED  BY <2>7, <2>8, <2>9 DEF panel, TypeOK
<1>8. ASSUME NEW s \in WSlots, TakeSet(s) PROVE TypeOK'
  <2>1. writes' \in [WSlots -> WriteState]
    BY <1>8 DEF TakeSet, TypeOK, WriteState
  <2>2. settings' \in Seq(Row)  BY <1>8, RestTypes DEF TakeSet, panel, TypeOK
  <2>3. /\ doubt' \in BOOLEAN /\ overlay' \in BOOLEAN /\ pending' \in BOOLEAN /\ loading' \in BOOLEAN
    BY <1>8 DEF TakeSet, panel, TypeOK
  <2>4. QED  BY <1>8, <2>1, <2>2, <2>3 DEF TakeSet, TypeOK
<1>9. CASE UNCHANGED vars
  BY <1>9 DEF vars, panel, TypeOK
<1>10. QED
  BY <1>1, <1>2, <1>3, <1>4, <1>5, <1>6, <1>7, <1>8, <1>9, <1>t
     DEF Next, User, Environment, System

LEMMA InitTypes == Init => TypeOK
<1> SUFFICES ASSUME Init PROVE TypeOK
  OBVIOUS
<1>1. -1 \in -1..Len(Props) /\ <<>> \in Seq(Row)  BY ControlAssumption
<1>2. reads \in [RSlots -> ReadState]  BY <1>1 DEF Init, NoRead, ReadState
<1>3. writes \in [WSlots -> WriteState]  BY DEF Init, WriteState
<1>4. QED  BY <1>1, <1>2, <1>3 DEF Init, TypeOK

-----------------------------------------------------------------------------
\* A row that shows what the camera has, unless that was changed by hand
Shows(row, v, t) == row.code \notin t => row.raw = v[row.code]
IsSet(row) == Shows(row, value, turned)

\* While nothing is in doubt: reads and writes exclude each other, one write is
\* under way at a time; and but for what was changed by hand, what the goroutines carry
\* is what is set, and a row of the panel differs from the camera only until the message
\* of its write is handled.
Undoubted ==
  /\ Reading => ~Writing
  /\ \A s, t \in WSlots : writes[s] # NoWrite /\ writes[t] # NoWrite => s = t
  /\ \A s \in RSlots : \A i \in DOMAIN reads[s].got :
       IsSet(reads[s].got[i])
  /\ \A s \in WSlots : writes[s].st = "ok" => IsSet(writes[s].row)
  /\ ~loading => \A i \in DOMAIN settings :
       \/ IsSet(settings[i])
       \/ \E s \in WSlots : /\ writes[s].st \in {"reread", "ok"}
                            /\ writes[s].row.code = settings[i].code

RestInv == TypeOK /\ (~doubt => Undoubted)

LEMMA NextRest == RestInv /\ [Next]_vars => RestInv'
<1> SUFFICES ASSUME RestInv, [Next]_vars, ~doubt' PROVE Undoubted'
  BY NextTypes DEF RestInv
<1>t. TypeOK /\ TypeOK'  BY NextTypes DEF RestInv
<1>1. CASE Open
  <2>1. ~Writing /\ (doubt => ~Reading)  BY <1>1 DEF Open
  <2>2. PICK s \in RSlots : reads[s] = NoRead /\ reads' = [reads EXCEPT ![s].at = 0]
    BY <1>1 DEF Open
  <2>3. \A t \in RSlots : reads'[t].got = reads[t].got  BY <2>2, <1>t DEF TypeOK
  <2>4. \A t \in RSlots : doubt => reads[t].got = <<>>  BY <2>1 DEF Reading, NoRead
  <2>5. UNCHANGED <<value, writes>> /\ loading'  BY <1>1 DEF Open
  <2>6. ~Writing'  BY <2>1, <2>5 DEF Writing
  <2>7. \A t \in WSlots : writes[t] = NoWrite  BY <2>1 DEF Writing
  <2>8. \A t \in RSlots : \A i \in DOMAIN reads'[t].got : Shows(reads'[t].got[i], value', turned')
    <3>1. CASE ~Reading
      <4>1. \A t \in RSlots : reads'[t].got = <<>>  BY <3>1, <2>3 DEF Reading, NoRead
      <4>2. QED  BY <4>1
    <3>2. CASE Reading
      <4>1. ~doubt /\ UNCHANGED <<turned, value>>  BY <1>1, <2>1, <2>5, <3>2 DEF Open
      <4>2. QED  BY <4>1, <2>3 DEF RestInv, Undoubted, IsSet, Shows
    <3>3. QED  BY <3>1, <3>2
  <2>9. QED  BY <2>5, <2>6, <2>7, <2>8 DEF IsSet, Undoubted, NoWrite
<1>2. CASE Close \/ OtherScreen \/ LinkDown \/ LinkUp \/ GiveUp \/ UNCHANGED vars
  BY <1>2 DEF Close, OtherScreen, LinkDown, LinkUp, GiveUp, vars, panel,
     RestInv, Undoubted, IsSet, Shows, Reading, Writing
<1>3. CASE Connected
  BY <1>3 DEF Connected
<1>v. ASSUME NEW c \in Codes, NEW v \in Raws[c], Turn(c, v)
      PROVE  Undoubted'
  <2>1. UNCHANGED <<loading, settings, reads, writes, doubt>> /\ turned' = turned \cup {c}
    BY <1>v DEF Turn, panel
  <2>2. ASSUME NEW row \in Row, IsSet(row) PROVE Shows(row, value', turned')
    <3>1. row.code \in Codes  BY RowType
    <3>2. row.code \notin turned' => row.raw = value[row.code] /\ row.code # c
      BY <2>1, <2>2 DEF IsSet, Shows
    <3>3. row.code # c => value'[row.code] = value[row.code]
      BY <1>v, <1>t, <3>1 DEF Turn, TypeOK, Values
    <3>4. QED  BY <3>2, <3>3 DEF Shows
  <2>3. \A t \in RSlots : \A j \in DOMAIN reads[t].got : reads[t].got[j] \in Row
    <3>1. \A t \in RSlots : reads[t].got \in Seq(Row)  BY <1>t, ReadType
    <3>2. QED  BY <3>1
  <2>4. \A t \in WSlots : writes[t].st = "ok" => writes[t].row \in Row
    BY <1>t, WriteType
  <2>5. \A j \in DOMAIN settings : settings[j] \in Row  BY <1>t DEF TypeOK
  <2>6. QED
    BY <2>1, <2>2, <2>3, <2>4, <2>5 DEF IsSet, RestInv, Undoubted, Reading, Writing
<1>4. CASE SwitchCamera
  <2>1. DOMAIN settings' = {}  BY <1>4 DEF SwitchCamera
  <2>2. ~doubt /\ ~Reading /\ ~Writing /\ UNCHANGED <<value, reads, writes, turned>>
    BY <1>4 DEF SwitchCamera
  <2>3. QED  BY <2>1, <2>2 DEF RestInv, Undoubted, IsSet, Shows, Reading, Writing
<1>5. ASSUME NEW i \in DOMAIN settings, NEW d \in {-1, 1}, Step(i, d)
      PROVE  Undoubted'
  <2>1. ~doubt /\ ~Reading /\ ~Writing /\ UNCHANGED <<value, loading, settings, reads, turned>>
    BY <1>5 DEF Step
  <2>2. PICK s \in WSlots, r \in Row :
          writes' = [writes EXCEPT ![s] = [st |-> "describe", row |-> r]]
    <3>1. PICK s \in WSlots :
            writes' = [writes EXCEPT ![s] = [st |-> "describe",
                        row |-> [settings[i] EXCEPT !.raw =
                          StepChoice(Choices[settings[i].code], settings[i].raw, d)]]]
      BY <1>5 DEF Step
    <3>2. writes'[s].st # "none"  BY <3>1, <1>t DEF TypeOK
    <3>3. writes'[s].row \in Row  BY <3>2, <1>t DEF TypeOK, WriteState, NoWrite
    <3>4. writes' = [writes EXCEPT ![s] = [st |-> "describe", row |-> writes'[s].row]]
      BY <3>1, <1>t DEF TypeOK
    <3>5. QED  BY <3>3, <3>4
  <2>3. \A t \in WSlots : writes[t] = NoWrite  BY <2>1 DEF Writing
  <2>4. ~Reading'  BY <2>1 DEF Reading
  <2>5. \A t \in WSlots : /\ writes'[t].st \in {"none", "describe"}
                          /\ writes'[t] # NoWrite => t = s
    BY <2>2, <2>3, <1>t DEF TypeOK, NoWrite
  <2>6. \A j \in DOMAIN settings : ~loading => IsSet(settings[j])
    BY <2>1, <2>3 DEF RestInv, Undoubted, NoWrite
  <2>7. \A t \in RSlots : \A j \in DOMAIN reads'[t].got : Shows(reads'[t].got[j], value', turned')
    BY <2>1 DEF RestInv, Undoubted, IsSet, Shows
  <2>8. \A t \in WSlots : writes'[t].st # "ok"  BY <2>5
  <2>9. \A t, u \in WSlots : writes'[t] # NoWrite /\ writes'[u] # NoWrite => t = u  BY <2>5
  <2>10. ~loading' => \A j \in DOMAIN settings' : Shows(settings'[j], value', turned')
    BY <2>1, <2>6 DEF IsSet, Shows
  <2>11. QED  BY <2>4, <2>7, <2>8, <2>9, <2>10 DEF IsSet, Undoubted
<1>6. ASSUME NEW s \in RSlots, ReadProp(s)
      PROVE  Undoubted'
  <2>1. UNCHANGED <<value, loading, settings, writes, turned, doubt>>  BY <1>6 DEF ReadProp, panel
  <2>2. reads[s] # NoRead /\ Reading  BY <1>6 DEF ReadProp, NoRead, Reading
  <2>3. ~Writing'  BY <2>1, <2>2 DEF RestInv, Undoubted, Writing
  <2>4. \A t \in RSlots : \A j \in DOMAIN reads'[t].got : IsSet(reads'[t].got[j])
    <3> SUFFICES ASSUME NEW t \in RSlots, NEW j \in DOMAIN reads'[t].got
                 PROVE  IsSet(reads'[t].got[j])
      OBVIOUS
    <3> DEFINE c == Props[reads[s].at + 1]
               row == [code |-> c, raw |-> value[c]]
    <3>1. \A k \in DOMAIN reads[t].got : IsSet(reads[t].got[k])
      BY <2>1 DEF RestInv, Undoubted
    <3>2. \/ reads'[t].got = reads[t].got
          \/ reads'[t].got = Append(reads[t].got, row)
      <4>1. PICK n : \/ reads' = [reads EXCEPT ![s].at = n]
                     \/ reads' = [[reads EXCEPT ![s].at = n] EXCEPT ![s].got = Append(@, row)]
        BY <1>6 DEF ReadProp
      <4> HIDE DEF row
      <4>2. reads \in [RSlots -> ReadState]  BY <1>t DEF TypeOK
      <4>3. QED  BY <4>1, <4>2 DEF ReadState
    <3>3. reads[t].got \in Seq(Row) /\ Len(reads[t].got) \in Nat
      <4>1. reads[t].got \in Seq(Row)  BY <1>t, ReadType
      <4>2. QED  BY <4>1
    <3>4. IsSet(row)  BY DEF IsSet, Shows
    <3> HIDE DEF row
    <3>5. CASE reads'[t].got = reads[t].got  BY <3>1, <3>5
    <3>6. CASE reads'[t].got = Append(reads[t].got, row)
      <4>1. j \in 1..Len(reads[t].got) + 1  BY <3>3, <3>6
      <4>2. CASE j = Len(reads[t].got) + 1  BY <3>3, <3>4, <3>6, <4>2
      <4>3. CASE j \in 1..Len(reads[t].got)
        <5>1. reads'[t].got[j] = reads[t].got[j]  BY <3>3, <3>6, <4>3
        <5>2. QED  BY <3>1, <3>3, <4>3, <5>1
      <4>4. QED  BY <3>3, <4>1, <4>2, <4>3
    <3>7. QED  BY <3>2, <3>5, <3>6
  <2>5. \A t \in RSlots : \A j \in DOMAIN reads'[t].got : Shows(reads'[t].got[j], value', turned')
    BY <2>1, <2>4 DEF IsSet, Shows
  <2>6. QED  BY <2>1, <2>3, <2>5 DEF RestInv, Undoubted, IsSet, Shows
<1>7. ASSUME NEW s \in RSlots, TakeSettings(s)
      PROVE  Undoubted'
  <2>1. UNCHANGED <<value, writes, turned, doubt>>  BY <1>7 DEF TakeSettings
  <2>2. Reading
    <3>1. Len(Props) \in Nat  BY <1>t, ControlAssumption
    <3>2. reads[s] # NoRead  BY <1>7, <3>1 DEF TakeSettings, NoRead
    <3>3. QED  BY <3>2 DEF Reading
  <2>3. ~Writing'  BY <2>1, <2>2 DEF RestInv, Undoubted, Writing
  <2>4. \A t \in RSlots : reads'[t].got = <<>> \/ reads'[t] = reads[t]
    BY <1>7, <1>t DEF TakeSettings, NoRead, TypeOK
  <2>5. \/ UNCHANGED <<loading, settings>>
        \/ settings' = reads[s].got
    BY <1>7 DEF TakeSettings, panel
  <2>6. QED  BY <2>1, <2>3, <2>4, <2>5 DEF RestInv, Undoubted, IsSet, Shows
<1>8. ASSUME NEW s \in WSlots, Describe(s) \/ SetValue(s) \/ Reread(s)
      PROVE  Undoubted'
  <2>1. ~doubt /\ UNCHANGED <<loading, settings, reads>>
    BY <1>8, <1>t DEF Describe, SetValue, Reread, panel, TypeOK
  <2>2. writes[s] # NoWrite /\ writes[s].st # "none" /\ ~Reading
    BY <1>8, <2>1 DEF Describe, SetValue, Reread, NoWrite, RestInv, Undoubted, Writing
  <2>3. \A t \in WSlots \ {s} : writes[t] = NoWrite /\ writes'[t] = NoWrite
    BY <1>8, <2>1, <2>2, <1>t DEF Describe, SetValue, Reread, RestInv, Undoubted, TypeOK
  <2>4. \A t \in RSlots : reads[t].got = <<>>  BY <2>2 DEF Reading, NoRead
  <2>5. ~Reading'  BY <2>1, <2>2 DEF Reading
  <2>6. writes[s].row.code \in Codes /\ writes[s] = [st |-> writes[s].st, row |-> writes[s].row]
    BY <2>2, <1>t, WriteType, RowType
  <2>7. writes'[s].st = "ok" => Shows(writes'[s].row, value', turned')
    BY <1>8, <1>t, WriteStep DEF Reread, IsSet, Shows
  <2>8. \A t \in WSlots : writes'[t].st = "ok" => Shows(writes'[t].row, value', turned')
    BY <2>3, <2>7 DEF NoWrite
  <2>9. ASSUME ~loading, NEW j \in DOMAIN settings, ~Shows(settings[j], value', turned')
        PROVE  /\ writes'[s].st \in {"reread", "ok"}
               /\ writes'[s].row.code = settings[j].code
    <3>1. \/ IsSet(settings[j])
          \/ writes[s].st \in {"reread", "ok"} /\ writes[s].row.code = settings[j].code
      BY <2>1, <2>3, <2>9 DEF RestInv, Undoubted, NoWrite
    <3>2. writes'[s].row.code = writes[s].row.code
      BY <1>8, <1>t, WriteStep
    <3>3. settings[j].code \in Codes /\ settings' = settings  BY <1>t, <2>1, RowType DEF TypeOK
    <3>4. CASE SetValue(s)
      <4>1. turned' = turned  BY <3>4 DEF SetValue
      <4>2. PICK v : \/ value' = value
                     \/ /\ value' = [value EXCEPT ![writes[s].row.code] = v]
                        /\ writes' = [writes EXCEPT ![s].st = "reread"]
        BY <2>1, <3>4 DEF SetValue
      <4>3. writes[s].st = "set"  BY <3>4 DEF SetValue
      <4>4. IsSet(settings[j]) /\ settings[j].code \notin turned
            /\ settings[j].raw # value'[settings[j].code]
        BY <2>9, <3>1, <3>3, <4>1, <4>3 DEF IsSet, Shows
      <4>5. value'[settings[j].code] # value[settings[j].code]  BY <4>4 DEF IsSet, Shows
      <4>6. value \in [Codes -> UNION {Raws[c] : c \in Codes}]  BY <1>t DEF TypeOK, Values
      <4>7. writes[s].row.code = settings[j].code
        BY <3>3, <4>2, <4>5, <4>6
      <4>8. writes'[s].st = "reread"  BY <4>2, <4>5, <2>6, <1>t DEF TypeOK
      <4>9. QED  BY <3>2, <4>7, <4>8
    <3>5. CASE Describe(s)
      <4>1. UNCHANGED <<value, turned>> /\ writes[s].st = "describe"  BY <3>5 DEF Describe
      <4>2. QED  BY <2>9, <3>1, <3>3, <4>1 DEF IsSet, Shows
    <3>6. CASE Reread(s)
      <4>1. value' = value /\ writes[s].st = "reread"  BY <3>6 DEF Reread
      <4>2. link /\ writes'[s].st = "ok" /\ turned' = turned \ {writes[s].row.code}
        BY <3>6, <2>1, <2>6, <1>t DEF Reread, TypeOK
      <4>3. ASSUME writes[s].row.code # settings[j].code PROVE FALSE
        BY <2>9, <3>1, <3>3, <4>1, <4>2, <4>3 DEF IsSet, Shows
      <4>4. QED  BY <3>2, <4>2, <4>3
    <3>7. QED  BY <1>8, <3>4, <3>5, <3>6
  <2>10. QED  BY <2>1, <2>3, <2>4, <2>5, <2>8, <2>9 DEF IsSet, Undoubted
<1>9. ASSUME NEW s \in WSlots, TakeSet(s)
      PROVE  Undoubted'
  <2>1. /\ ~doubt /\ UNCHANGED <<value, reads, loading, turned>>
        /\ settings' = IF writes[s].st = "failed" THEN settings ELSE Confirmed(writes[s].row)
    BY <1>9 DEF TakeSet, panel
  <2>2. writes[s] # NoWrite /\ ~Reading
    BY <1>9, <2>1 DEF TakeSet, NoWrite, RestInv, Undoubted, Writing
  <2>3. \A t \in WSlots : writes'[t] = NoWrite /\ (t # s => writes[t] = NoWrite)
    BY <1>9, <2>1, <2>2, <1>t DEF TakeSet, RestInv, Undoubted, TypeOK
  <2>4. \A t \in RSlots : reads[t].got = <<>>  BY <2>2 DEF Reading, NoRead
  <2>5. ~Reading' /\ ~Writing'  BY <2>1, <2>2, <2>3 DEF Reading, Writing
  <2>6. ASSUME ~loading, NEW j \in DOMAIN settings'
        PROVE  IsSet(settings'[j])
    <3>1. DOMAIN settings' = DOMAIN settings  BY <2>1 DEF Confirmed
    <3>2. \/ IsSet(settings[j])
          \/ writes[s].st \in {"reread", "ok"} /\ writes[s].row.code = settings[j].code
      BY <2>1, <2>3, <2>6, <3>1 DEF RestInv, Undoubted, NoWrite
    <3>3. CASE writes[s].st = "failed"
      BY <2>1, <3>2, <3>3
    <3>4. CASE writes[s].st = "ok"
      <4>1. IsSet(writes[s].row)
        BY <2>1, <3>4 DEF RestInv, Undoubted
      <4>2. settings'[j] = IF settings[j].code = writes[s].row.code THEN writes[s].row ELSE settings[j]
        BY <2>1, <2>6, <3>1, <3>4 DEF Confirmed
      <4>3. QED  BY <3>2, <4>1, <4>2
    <3>5. QED  BY <1>9, <3>3, <3>4 DEF TakeSet
  <2>7. ~loading' => \A j \in DOMAIN settings' : Shows(settings'[j], value', turned')
    BY <2>1, <2>6 DEF IsSet, Shows
  <2>8. QED  BY <2>1, <2>3, <2>4, <2>5, <2>7 DEF IsSet, Undoubted, NoWrite
<1>10. QED
  BY <1>1, <1>2, <1>3, <1>4, <1>5, <1>6, <1>7, <1>8, <1>9, <1>v
     DEF Next, User, Environment, System

LEMMA InitRest == Init => RestInv
<1> SUFFICES ASSUME Init PROVE Undoubted
  BY InitTypes DEF RestInv
<1>1. /\ \A s \in RSlots : reads[s] = NoRead
      /\ \A s \in WSlots : writes[s] = NoWrite
      /\ settings = <<>>
  BY DEF Init
<1>2. QED  BY <1>1 DEF Undoubted, Reading, Writing, NoRead, NoWrite

\* Every variable of the panel keeps its type, so that a step only ever asks for a
\* value that the property may have (ctrlStep, stepChoice).
THEOREM ControlTypes == Spec => []TypeOK
<1>1. TypeOK /\ [Next]_vars => TypeOK'
  BY NextTypes
<1>2. QED  BY <1>1, InitTypes, PTL DEF Spec

\* At rest the panel shows what is set in the camera, whatever was refused, rounded by
\* the camera, timed out, or happened to the screen, as long as no commands overlapped,
\* no result was lost and nothing was changed by hand since (openControl, setSettingCmd,
\* handleControlMsg).
THEOREM RestIsShown == Spec => []RestIsTrue
<1>1. RestInv => RestIsTrue
  <2> SUFFICES ASSUME RestInv, ~loading, ~Writing, ~doubt,
                      NEW i \in DOMAIN settings
               PROVE  IsSet(settings[i])
    BY DEF RestIsTrue, IsSet, Shows
  <2>1. \A s \in WSlots : writes[s] = NoWrite  BY DEF Writing
  <2>2. QED  BY <2>1 DEF RestInv, Undoubted, NoWrite
<1>2. QED  BY <1>1, InitRest, NextRest, PTL DEF Spec
=============================================================================
