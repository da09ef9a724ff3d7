-------------------------- MODULE MeasurementProofs --------------------------
(***************************************************************************)
(* Proofs about three modules that a measured value passes: the reading of *)
(* the sensor (Dht11, for frames of every length, every number of readings *)
(* and of phases the driver misses), the device file it is read from       *)
(* (CharDevice, for every set of processes) and the page that shows it     *)
(* (FireAlarm, for every set of requests).  Each has an invariant of its   *)
(* own; that of Dht11 relates the loop that read_dht11 is in, and its i,   *)
(* to the phase of the line.                                               *)
(***************************************************************************)
EXTENDS Dht11, CharDevice, FireAlarm, TLAPS

\* What the control point says of the line.
LoopPart ==
  /\ pc = "low" => phase > 0
  /\ pc = "high" => High(from) /\ 2 <= from /\ from <= phase
  /\ result = "ok" => pc = "idle"
  /\ pc # "idle" \/ result = "ok" => reads > 0
  /\ whole /\ pc # "idle" => ~stuck

\* The driver has sampled phase p last, and the line is in it or in the next.
Follows(p) == seen = p /\ phase \in {p, p + 1}

\* While everything has been seen, the driver is where the sensor is.
InStep ==
  /\ pc = "respondLow" => Follows(1)
  /\ pc = "respondHigh" => Follows(2)
  /\ pc = "low" => Follows(2 * i + 1)
  /\ pc = "high" => Follows(2 * i + 2) /\ from = 2 * i + 2
  /\ pc \in {"low", "high"} => \A b \in 1 .. i - 1 : bits[b] = <<reads, b>>

FramePart ==
  whole /\ missed = 0 => InStep /\ UndisturbedReadingIsFrame

\* Only the bits before i are this reading's.
StoredPart ==
  /\ \A b \in 1 .. Bits : bits[b][1] <= reads
  /\ pc # "idle" => \A b \in 1 .. Bits :
       bits[b][1] = reads <=> pc \in {"low", "high"} /\ b < i

\* Those that were counted are bits the sensor is past.
PastPart ==
  pc \in {"low", "high"} => \A b \in 1 .. i - 1 :
    bits[b][2] # Garbled => 2 * bits[b][2] + 2 < IF pc = "high" THEN from ELSE phase

\* What has been stored of the last reading ascends, and nothing before it is
\* from an earlier one.
Ascending ==
  reads > 0 => \A b, c \in 1 .. Bits : b < c /\ bits[c][1] = reads =>
    /\ bits[b][1] = reads
    /\ Garbled \notin {bits[b][2], bits[c][2]} => bits[b][2] < bits[c][2]

IInv == TypeOK /\ LoopPart /\ FramePart /\ StoredPart /\ PastPart /\ Ascending

-----------------------------------------------------------------------------
(* The phases of the line.                                                   *)

LEMMA LevelOfPhase ==
  ASSUME NEW k \in Nat
  PROVE  High(2 * k) /\ ~High(2 * k + 1) /\ BitAt(2 * k + 2) = k
  BY DEF High, BitAt

LEMMA BitOfPhase ==
  ASSUME NEW p \in Nat, High(p), 2 <= p
  PROVE  BitAt(p) \in Nat /\ p = 2 * BitAt(p) + 2
  BY DEF High, BitAt

LEMMA FirstPhases == ~High(1) /\ High(2) /\ ~High(3)
  BY DEF High

LEMMA RestingIsHigh == High(Resting) /\ Resting \in Nat
  BY BoundAssumption DEF High, Resting

\* The numbers among the variables, and what a bit is made of.
Numbers ==
  /\ Bits \in Nat /\ Bits > 0 /\ MaxReads \in Nat /\ MaxMissed \in Nat
  /\ phase \in Nat /\ phase <= 2 * Bits + 4
  /\ seen \in Nat /\ from \in Nat /\ i \in Nat /\ i >= 1
  /\ reads \in Nat /\ missed \in Nat
  /\ \A b \in 1 .. Bits : bits[b][1] \in Nat /\ bits[b][2] \in Int

LEMMA NumbersByType ==
  ASSUME TypeOK PROVE Numbers
<1>1. /\ Bits \in Nat /\ Bits > 0 /\ MaxReads \in Nat /\ MaxMissed \in Nat
      /\ phase \in Nat /\ phase <= 2 * Bits + 4
      /\ seen \in Nat /\ from \in Nat /\ i \in Nat /\ i >= 1
      /\ reads \in Nat /\ missed \in Nat
  BY BoundAssumption DEF TypeOK, Phase, Resting
<1>2. ASSUME NEW b \in 1 .. Bits PROVE bits[b][1] \in Nat /\ bits[b][2] \in Int
  BY BoundAssumption DEF TypeOK, Garbled
<1>3. QED
  BY <1>1, <1>2 DEF Numbers

-----------------------------------------------------------------------------

LEMMA InitIInv == Init => IInv
<1> SUFFICES ASSUME Init PROVE IInv
  OBVIOUS
<1> USE BoundAssumption DEF Init
<1>1. bits \in [1 .. Bits -> (0 .. MaxReads) \X ({Garbled} \cup 0 .. Bits)]
  BY DEF Unset
<1>2. Resting \in Phase
  BY DEF Resting, Phase
<1>3. i \in 1 .. Bits + 1 /\ reads \in 0 .. MaxReads /\ missed \in 0 .. MaxMissed
  OBVIOUS
<1>a. TypeOK
  BY <1>1, <1>2, <1>3 DEF TypeOK, Pc
<1>4. LoopPart /\ FramePart /\ StoredPart /\ PastPart /\ Ascending
  BY DEF LoopPart, FramePart, StoredPart, PastPart, Ascending, Unset
<1>5. QED
  BY <1>a, <1>4 DEF IInv

-----------------------------------------------------------------------------
(* The sensor's steps.                                                       *)

LEMMA Advances ==
  ASSUME IInv, SensorAdvances PROVE IInv'
<1> USE DEF IInv, Numbers, SensorAdvances, loopVars, Rests
<1>1. Numbers
  BY NumbersByType
<1>2. TypeOK'
  BY <1>1 DEF TypeOK, Phase, Resting
<1>3. LoopPart'
  BY <1>1 DEF LoopPart
<1>4. FramePart'
  <2>1. ASSUME pc # "idle", missed' = 0 PROVE seen = phase /\ missed = 0
    BY <1>1, <2>1
  <2>2. ASSUME whole, missed' = 0 PROVE InStep'
    BY <1>1, <2>1, <2>2 DEF FramePart, InStep, Follows, TypeOK, Pc
  <2>3. QED
    BY <1>1, <2>1, <2>2 DEF FramePart, UndisturbedReadingIsFrame, LoopPart
<1>5. StoredPart' /\ Ascending'
  BY DEF StoredPart, Ascending
<1>6. PastPart'
  BY <1>1 DEF PastPart, TypeOK
<1>7. QED
  BY <1>2, <1>3, <1>4, <1>5, <1>6

LEMMA Fails ==
  ASSUME IInv, SensorFails PROVE IInv'
<1> USE DEF IInv, Numbers, SensorFails, loopVars, Rests
<1>1. Numbers
  BY NumbersByType
<1>2. TypeOK' /\ phase' >= phase /\ phase' \in Nat
  BY <1>1, RestingIsHigh DEF TypeOK, Phase, Resting
<1>a. whole' <=> whole /\ pc = "idle"
  BY Zenon
<1>3. LoopPart'
  BY <1>1, <1>2, <1>a DEF LoopPart
<1>4. FramePart'
  BY <1>1, <1>a DEF FramePart, InStep, UndisturbedReadingIsFrame
<1>5. StoredPart' /\ Ascending'
  BY DEF StoredPart, Ascending
<1>6. PastPart'
  BY <1>1, <1>2 DEF PastPart, TypeOK
<1>7. QED
  BY <1>2, <1>3, <1>4, <1>5, <1>6

-----------------------------------------------------------------------------
(* The driver's steps.                                                       *)

LEMMA Starts ==
  ASSUME IInv, Start PROVE IInv'
<1> USE DEF IInv, Numbers, Start
<1>1. Numbers
  BY NumbersByType
<1>a. phase' \in Phase /\ reads' \in 0 .. MaxReads /\ missed' \in 0 .. MaxMissed
  BY <1>1 DEF TypeOK, Phase, Resting, Released
<1>2. TypeOK'
  BY <1>1, <1>a DEF TypeOK, Pc
<1>3. LoopPart'
  BY <1>1 DEF LoopPart
<1>4. FramePart'
  BY DEF FramePart, InStep, Follows, UndisturbedReadingIsFrame
<1>5. \A b \in 1 .. Bits : bits[b][1] < reads'
  BY <1>1 DEF StoredPart
<1>6. StoredPart' /\ Ascending' /\ PastPart'
  BY <1>1, <1>5 DEF StoredPart, Ascending, PastPart
<1>7. QED
  BY <1>2, <1>3, <1>4, <1>6

LEMMA Responds ==
  ASSUME IInv, RespondLow \/ RespondHigh PROVE IInv'
<1> USE DEF IInv, Numbers, RespondLow, RespondHigh, Sees, lineVars
<1>1. Numbers
  BY NumbersByType
<1>a. /\ pc \in {"respondLow", "respondHigh"} /\ pc' \in {"respondHigh", "low"}
      /\ pc' = "low" => ~High(phase)
      /\ seen' = phase /\ i' \in {i, 1}
      /\ UNCHANGED <<phase, stuck, bits, result, from, reads, missed, whole>>
  BY Zenon
<1>2. TypeOK'
  <2>1. i' \in 1 .. Bits + 1 /\ 1 <= Bits /\ (i' # 1 => i' = i) /\ (pc' = "low" => i' = 1)
    BY <1>1 DEF TypeOK
  <2>2. QED
    BY <1>1, <1>a, <2>1 DEF TypeOK, Pc
<1>3. LoopPart'
  BY <1>1, <1>a, LevelOfPhase DEF LoopPart
<1>4. FramePart'
  <2>1. CASE RespondLow
    BY <1>1, <2>1, FirstPhases DEF FramePart, InStep, Follows, UndisturbedReadingIsFrame, LoopPart
  <2>2. CASE RespondHigh
    <3>1. whole /\ missed = 0 => phase = 3
      BY <1>1, <2>2, FirstPhases DEF FramePart, InStep, Follows
    <3>2. result' # "ok"
      BY <2>2 DEF LoopPart
    <3>3. QED
      BY <1>1, <2>2, <3>1, <3>2 DEF FramePart, InStep, Follows, UndisturbedReadingIsFrame
  <2>3. QED
    BY <2>1, <2>2
<1>5. StoredPart' /\ Ascending' /\ PastPart'
  BY <1>1 DEF StoredPart, Ascending, PastPart
<1>6. QED
  BY <1>2, <1>3, <1>4, <1>5

LEMMA GivesUp ==
  ASSUME IInv, NonResponsive PROVE IInv'
<1> USE DEF IInv, Numbers, NonResponsive, lineVars
<1>1. TypeOK' /\ LoopPart'
  BY DEF TypeOK, Pc, LoopPart
<1>2. FramePart'
  BY DEF FramePart, InStep, UndisturbedReadingIsFrame
<1>3. StoredPart' /\ Ascending' /\ PastPart'
  BY DEF StoredPart, Ascending, PastPart
<1>4. QED
  BY <1>1, <1>2, <1>3

LEMMA Samples ==
  ASSUME IInv, Sample PROVE IInv'
<1> USE DEF IInv, Numbers, Sample, lineVars
<1>1. Numbers
  BY NumbersByType
<1>2. TypeOK' /\ LoopPart'
  BY DEF TypeOK, LoopPart
<1>3. FramePart'
  <2>1. High(2 * i + 2) /\ ~High(2 * i + 3)
    <3>1. i + 1 \in Nat /\ 2 * (i + 1) = 2 * i + 2 /\ 2 * (i + 1) + 1 = 2 * i + 3
      BY <1>1
    <3>2. QED
      BY <3>1, LevelOfPhase
  <2>2. ASSUME whole, missed = 0 PROVE FALSE
    <3>1. InStep /\ pc \in Pc /\ pc # "idle"
      BY <2>2 DEF FramePart, TypeOK
    <3>2. High(phase) <=> pc \in {"respondHigh", "high"}
      BY DEF High
    <3>3. phase = seen + 1
      BY <1>1, <3>1 DEF InStep, Follows, Pc
    <3>4. QED
      BY <1>1, <2>1, <3>1, <3>2, <3>3, FirstPhases DEF InStep, Follows, Pc
  <2>3. QED
    BY <2>2 DEF FramePart
<1>4. StoredPart' /\ Ascending' /\ PastPart'
  BY DEF StoredPart, Ascending, PastPart
<1>5. QED
  BY <1>2, <1>3, <1>4


LEMMA SeesBit ==
  ASSUME IInv, BitLow PROVE IInv'
<1> USE DEF IInv, Numbers, BitLow, Sees, lineVars
<1>1. Numbers
  BY NumbersByType
<1>2. TypeOK'
  BY <1>1 DEF TypeOK, Pc
<1>3. LoopPart'
  BY <1>1, FirstPhases DEF LoopPart
<1>4. FramePart'
  <2>1. ~High(2 * i + 1) /\ result' # "ok"
    BY <1>1, LevelOfPhase DEF LoopPart
  <2>2. whole /\ missed = 0 => phase = 2 * i + 2
    BY <1>1, <2>1 DEF FramePart, InStep, Follows
  <2>3. QED
    BY <1>1, <2>1, <2>2 DEF FramePart, InStep, Follows, UndisturbedReadingIsFrame
<1>5. StoredPart' /\ Ascending' /\ PastPart'
  BY <1>1 DEF StoredPart, Ascending, PastPart
<1>6. QED
  BY <1>2, <1>3, <1>4, <1>5

\* The bit whose high phase has just ended is a later one than those before i.
LEMMA Counts ==
  ASSUME IInv, BitHigh PROVE IInv'
<1> DEFINE value == IF phase = from + 1 THEN BitAt(from) ELSE Garbled
<1> USE DEF IInv, Numbers, BitHigh, Sees, lineVars
<1>1. Numbers /\ i \in 1 .. Bits
  BY NumbersByType DEF TypeOK
<1>2. /\ bits'[i] = <<reads, value>>
      /\ \A b \in 1 .. Bits : b # i => bits'[b] = bits[b]
  BY <1>1 DEF TypeOK
<1>3. phase = from + 1 => BitAt(from) \in 0 .. Bits /\ 2 * BitAt(from) + 2 = from
  BY <1>1, BitOfPhase DEF LoopPart
<1>4. value \in {Garbled} \cup 0 .. Bits /\ (value # Garbled => 2 * value + 2 = from)
  BY <1>3 DEF Garbled
<1>5. TypeOK'
  <2>1. bits' \in [1 .. Bits -> (0 .. MaxReads) \X ({Garbled} \cup 0 .. Bits)]
    BY <1>4 DEF TypeOK
  <2>2. QED
    BY <1>1, <2>1 DEF TypeOK, Pc
<1>6. LoopPart'
  BY <1>1 DEF LoopPart
<1>7. FramePart'
  <2>1. ASSUME whole, missed = 0 PROVE phase = 2 * i + 3 /\ from = 2 * i + 2 /\ value = i
    <3>1. High(2 * i + 2) /\ BitAt(2 * i + 2) = i
      <4>1. i + 1 \in Nat /\ 2 * (i + 1) = 2 * i + 2
        BY <1>1
      <4>2. QED
        BY <1>1, <4>1, LevelOfPhase
    <3>2. QED
      BY <1>1, <2>1, <3>1 DEF FramePart, InStep, Follows
  <2>2. ASSUME whole, missed = 0
        PROVE  \A b \in 1 .. i : bits'[b] = <<reads, b>>
    BY <1>1, <1>2, <2>1, <2>2 DEF FramePart, InStep
  <2>3. ASSUME whole, missed = 0, i = Bits
        PROVE  bits' = [b \in 1 .. Bits |-> <<reads, b>>]
    BY <1>5, <2>2, <2>3 DEF TypeOK
  <2>4. i # Bits => result' # "ok"
    BY DEF LoopPart
  <2>5. ASSUME whole, missed = 0 PROVE InStep'
    BY <1>1, <2>1, <2>2, <2>5 DEF InStep, Follows
  <2>6. QED
    BY <2>3, <2>4, <2>5 DEF FramePart, UndisturbedReadingIsFrame
<1>8. StoredPart'
  BY <1>1, <1>2 DEF StoredPart
<1>9. PastPart'
  BY <1>1, <1>2, <1>4 DEF PastPart, LoopPart
<1>10. Ascending'
  <2>1. SUFFICES ASSUME NEW b \in 1 .. Bits, NEW c \in 1 .. Bits, b < c, bits'[c][1] = reads
                 PROVE  /\ bits'[b][1] = reads
                        /\ Garbled \notin {bits'[b][2], bits'[c][2]} => bits'[b][2] < bits'[c][2]
    BY DEF Ascending
  <2>2. c <= i
    BY <1>1, <1>2, <2>1 DEF StoredPart
  <2>3. bits'[b] = bits[b] /\ bits[b][1] = reads
    BY <1>1, <1>2, <2>1, <2>2 DEF StoredPart
  <2>4. CASE c = i
    BY <1>1, <1>2, <1>4, <2>1, <2>3, <2>4 DEF PastPart
  <2>5. CASE c # i
    BY <1>1, <1>2, <2>1, <2>3, <2>5 DEF Ascending, LoopPart
  <2>6. QED
    BY <2>2, <2>4, <2>5
<1>11. QED
  BY <1>5, <1>6, <1>7, <1>8, <1>9, <1>10

\* MAXCNT is reached on a line that rests only, which in a whole frame it does
\* when the last bit is over.
LEMMA CountsTooLong ==
  ASSUME IInv, BitTooLong PROVE IInv'
<1> USE DEF IInv, Numbers, BitTooLong, lineVars
<1>1. Numbers
  BY NumbersByType
<1>2. TypeOK' /\ LoopPart'
  BY DEF TypeOK, Pc, LoopPart
<1>3. FramePart'
  <2>1. ASSUME whole, missed = 0 PROVE FALSE
    <3>1. ~stuck /\ Follows(2 * i + 2) /\ i <= Bits
      BY <2>1 DEF LoopPart, FramePart, InStep, TypeOK
    <3>2. QED
      BY <1>1, <3>1 DEF Follows, Rests, Resting
  <2>2. QED
    BY <2>1 DEF FramePart
<1>4. StoredPart' /\ Ascending' /\ PastPart'
  BY DEF StoredPart, Ascending, PastPart
<1>5. QED
  BY <1>2, <1>3, <1>4

-----------------------------------------------------------------------------
(* The theorems.                                                             *)

\* IInv holds in every state of line and loops.
THEOREM Inductive == Spec => []IInv
<1>1. ASSUME IInv, [Next]_vars PROVE IInv'
  <2>1. CASE SensorAdvances \/ SensorFails \/ Start \/ Sample
    BY <1>1, <2>1, Advances, Fails, Starts, Samples
  <2>2. CASE Driver
    BY <1>1, <2>2, Responds, GivesUp, SeesBit, Counts, CountsTooLong DEF Driver
  <2>3. CASE UNCHANGED vars
    BY <1>1, <2>3 DEF IInv, vars, lineVars, loopVars, TypeOK, LoopPart, FramePart, InStep,
       Follows, UndisturbedReadingIsFrame, StoredPart, PastPart, Ascending
  <2>4. QED
    BY <1>1, <2>1, <2>2, <2>3 DEF Next
<1>2. QED
  BY InitIInv, <1>1, PTL DEF Spec

\* The variables of line and loops keep their types: i stays within bits.
THEOREM TypeCorrect == Spec => []TypeOK
<1>1. IInv => TypeOK
  BY DEF IInv
<1>2. QED
  BY Inductive, <1>1, PTL

\* read_dht11 returns the sensor's frame when the sensor was in time and did not
\* stop, and the driver saw every phase of the line.
THEOREM UndisturbedReadingsAreFrames == Spec => []UndisturbedReadingIsFrame
<1>1. ASSUME IInv PROVE UndisturbedReadingIsFrame
  BY <1>1 DEF IInv, FramePart, UndisturbedReadingIsFrame
<1>2. QED
  BY Inductive, <1>1, PTL

\* However many phases pass unseen, what a reading that succeeds has stored is in
\* the frame's order, and before all that earlier ones have left in bits.
THEOREM ReadingsAreOrdered == Spec => []ReadingIsOrdered
<1>1. ASSUME IInv PROVE ReadingIsOrdered
  BY <1>1 DEF IInv, LoopPart, Ascending, ReadingIsOrdered
<1>2. QED
  BY Inductive, <1>1, PTL

-----------------------------------------------------------------------------
(* Why a reading ends: ReadEnds but for the fairness it takes.               *)

\* Driver or sensor can go on: the driver sees the level it waits for, has waited
\* too long for one it counts, or has not looked yet; or the sensor goes on.
ReadGoesOn ==
  \/ pc \in {"respondLow", "low"} /\ High(phase)
  \/ pc \in {"respondHigh", "high"} /\ ~High(phase)
  \/ pc = "respondLow" /\ ~High(phase) /\ Rests
  \/ pc \in {"respondHigh", "high"} /\ High(phase) /\ Rests
  \/ pc # "idle" /\ seen # phase
  \/ ~Rests /\ seen = phase

\* A reading that cannot go on waits for the end of a low phase between two bits,
\* the one loop without a bound, on a line that stays low.
ReadWaitsOnlyBetweenBits ==
  pc # "idle" /\ ~ReadGoesOn => pc = "low" /\ stuck /\ ~High(phase)

\* How many loops are left to the driver.
LoopsLeft ==
  CASE pc = "respondLow"  -> 2 * Bits + 3
    [] pc = "respondHigh" -> 2 * Bits + 2
    [] pc = "low"         -> 2 * (Bits - i) + 3
    [] pc = "high"        -> 2 * (Bits - i) + 2
    [] OTHER              -> 0

\* What is left to do in a reading: loops, phases of the line, a sample of the
\* present one, and a failure of the sensor.
StepsLeft ==
  LoopsLeft + 2 * (Resting - phase) + (IF seen # phase THEN 1 ELSE 0) + (IF stuck THEN 0 ELSE 1)

\* Every step of a reading, be it the driver's or the sensor's, leaves less to do.
ReadingGetsOn == [][pc # "idle" => StepsLeft' < StepsLeft]_vars

LEMMA StepsLeftType ==
  ASSUME TypeOK
  PROVE  LoopsLeft \in Nat /\ StepsLeft \in Nat
<1>1. Numbers /\ (pc \in {"low", "high"} => i <= Bits)
  BY NumbersByType DEF TypeOK
<1>2. LoopsLeft \in Nat
  <2>1. /\ 2 * Bits + 3 \in Nat /\ 2 * Bits + 2 \in Nat
        /\ pc \in {"low", "high"} => 2 * (Bits - i) + 3 \in Nat /\ 2 * (Bits - i) + 2 \in Nat
    BY <1>1 DEF Numbers
  <2>2. QED
    BY <2>1 DEF LoopsLeft
<1>3. Resting - phase \in Nat
  BY <1>1 DEF Numbers, Resting
<1>4. QED
  BY <1>2, <1>3 DEF StepsLeft

\* A step of the driver ends a loop, or is a sample; a step of the sensor ends a
\* phase, or is its failure.
LEMMA LeavesLess ==
  ASSUME TypeOK, pc # "idle", Next
  PROVE  StepsLeft' < StepsLeft
<1>1. /\ Bits \in Nat /\ phase \in Nat /\ i \in Nat /\ phase <= 2 * Bits + 4
      /\ pc \in {"low", "high"} => i <= Bits
      /\ Resting = 2 * Bits + 4 /\ LoopsLeft \in Nat
  BY NumbersByType, StepsLeftType DEF TypeOK, Resting, Numbers
<1>2. CASE SensorAdvances
  <2>1. /\ phase' = phase + 1 /\ phase < Resting /\ UNCHANGED <<pc, i, seen, stuck>>
    BY <1>1, <1>2 DEF SensorAdvances, Rests, loopVars
  <2>2. LoopsLeft' = LoopsLeft
    BY <2>1 DEF LoopsLeft
  <2>3. 2 * (Resting - phase') = 2 * (Resting - phase) - 2
    BY <1>1, <2>1
  <2>4. StepsLeft' = LoopsLeft + 2 * (Resting - phase') + (IF seen # phase' THEN 1 ELSE 0)
                       + (IF stuck THEN 0 ELSE 1)
    BY <2>1, <2>2 DEF StepsLeft, Resting
  <2>5. QED
    BY <1>1, <2>1, <2>3, <2>4 DEF StepsLeft
<1>3. CASE SensorFails
  <2>1. /\ ~stuck /\ stuck' /\ phase < Resting /\ phase' \in {phase, Resting}
        /\ UNCHANGED <<pc, i, seen>>
    BY <1>1, <1>3 DEF SensorFails, Rests, loopVars
  <2>2. LoopsLeft' = LoopsLeft
    BY <2>1 DEF LoopsLeft
  <2>3. StepsLeft' = LoopsLeft + 2 * (Resting - phase') + (IF seen # phase' THEN 1 ELSE 0)
    BY <1>1, <2>1, <2>2 DEF StepsLeft, Resting
  <2>4. CASE phase' = phase
    BY <1>1, <2>1, <2>3, <2>4 DEF StepsLeft
  <2>5. CASE phase' = Resting
    <3>1. 2 * (Resting - phase') = 0 /\ 2 * (Resting - phase) >= 2
      BY <1>1, <2>1, <2>5
    <3>2. QED
      BY <1>1, <2>1, <2>3, <3>1 DEF StepsLeft
  <2>6. QED
    BY <2>1, <2>4, <2>5
<1>4. CASE Sample
  <2>1. seen # phase /\ seen' = phase /\ UNCHANGED <<phase, stuck, pc, i>>
    BY <1>4 DEF Sample, lineVars
  <2>2. LoopsLeft' = LoopsLeft
    BY <2>1 DEF LoopsLeft
  <2>3. QED
    BY <1>1, <2>1, <2>2 DEF StepsLeft, Resting
<1>5. CASE Driver
  <2>1. seen' = phase \/ seen' = seen
    BY <1>5 DEF Driver, RespondLow, RespondHigh, NonResponsive, BitLow, BitHigh, BitTooLong, Sees
  <2>2. UNCHANGED <<phase, stuck>>
    BY <1>5 DEF Driver, RespondLow, RespondHigh, NonResponsive, BitLow, BitHigh, BitTooLong, lineVars
  <2>3. LoopsLeft' \in Nat /\ LoopsLeft' < LoopsLeft
    <3>1. CASE RespondLow \/ RespondHigh
      BY <1>1, <3>1 DEF RespondLow, RespondHigh, Sees, LoopsLeft
    <3>2. CASE NonResponsive \/ BitTooLong
      BY <1>1, <3>2 DEF NonResponsive, BitTooLong, LoopsLeft
    <3>3. CASE BitLow
      BY <1>1, <3>3 DEF BitLow, Sees, LoopsLeft
    <3>4. CASE BitHigh
      BY <1>1, <3>4 DEF BitHigh, Sees, LoopsLeft
    <3>5. QED
      BY <1>5, <3>1, <3>2, <3>3, <3>4 DEF Driver
  <2>4. StepsLeft' = LoopsLeft' + 2 * (Resting - phase) + (IF seen' # phase THEN 1 ELSE 0)
                       + (IF stuck THEN 0 ELSE 1)
    BY <2>2 DEF StepsLeft, Resting
  <2>5. (IF seen' # phase THEN 1 ELSE 0) <= (IF seen # phase THEN 1 ELSE 0)
    BY <2>1
  <2>6. QED
    BY <1>1, <2>3, <2>4, <2>5 DEF StepsLeft
<1>6. QED
  BY <1>2, <1>3, <1>4, <1>5 DEF Next, Start

\* A reading waits for nothing but the end of a low phase between two bits.
THEOREM ReadsWaitOnlyBetweenBits == Spec => []ReadWaitsOnlyBetweenBits
<1>1. ASSUME TypeOK PROVE ReadWaitsOnlyBetweenBits
  <2>1. Rests /\ ~stuck => High(phase)
    BY RestingIsHigh DEF Rests
  <2>2. QED
    BY <1>1, <2>1 DEF ReadWaitsOnlyBetweenBits, ReadGoesOn, TypeOK, Pc
<1>2. QED
  BY TypeCorrect, <1>1, PTL

\* A reading has a natural number of steps left.
THEOREM ReadingIsFinite == Spec => [](StepsLeft \in Nat)
<1>1. TypeOK => StepsLeft \in Nat
  BY StepsLeftType
<1>2. QED
  BY TypeCorrect, <1>1, PTL

\* Each step takes one of them at least: however sensor and driver take turns, a
\* reading has no endless run.
THEOREM ReadingsGetOn == Spec => ReadingGetsOn
<1>1. ASSUME TypeOK, [Next]_vars
      PROVE  [pc # "idle" => StepsLeft' < StepsLeft]_vars
  BY <1>1, LeavesLess
<1>2. QED
  BY TypeCorrect, <1>1, PTL DEF Spec, ReadingGetsOn

-----------------------------------------------------------------------------
(* The device file: device_open and device_release.                          *)

\* The inductive invariant: without an overlap, one process at most is past
\* the test, and the counter and its register are what its place says.
DeviceInv ==
  /\ DeviceTypeOK
  /\ ExclusiveUnlessOverlap
  /\ CounterTellsUnlessOverlap
  /\ ~overlap =>
       \A p \in Process :
         /\ place[p] = "tested" => register[p] = 0
         /\ place[p] = "incremented" => register[p] = 1
         /\ place[p] = "decremented" => register[p] = 0

-----------------------------------------------------------------------------

LEMMA DeviceTypeStep == DeviceTypeOK /\ [DeviceNext]_deviceVars => DeviceTypeOK'
<1> SUFFICES ASSUME DeviceTypeOK, [DeviceNext]_deviceVars PROVE DeviceTypeOK'
  OBVIOUS
<1> USE DEF DeviceTypeOK, Place
<1>1. CASE UNCHANGED deviceVars
  BY <1>1 DEF deviceVars
<1>2. ASSUME NEW p \in Process, DeviceOpen(p) PROVE DeviceTypeOK'
  <2>1. CASE OpenTest(p)
    <3>1. overlap' \in BOOLEAN
      BY <2>1, Zenon DEF OpenTest
    <3>2. QED
      BY <2>1, <3>1 DEF OpenTest
  <2>2. CASE OpenIncrement(p)
    <3>1. PICK value \in {register[p], deviceOpen} :
            register' = [register EXCEPT ![p] = value + 1]
      BY <2>2 DEF OpenIncrement
    <3>2. value + 1 \in Int
      BY <3>1
    <3>3. QED
      BY <2>2, <3>1, <3>2 DEF OpenIncrement
  <2>3. CASE OpenStore(p)
    BY <2>3 DEF OpenStore
  <2>4. QED
    BY <1>2, <2>1, <2>2, <2>3 DEF DeviceOpen
<1>3. ASSUME NEW p \in Process, DeviceRelease(p) PROVE DeviceTypeOK'
  BY <1>3 DEF DeviceRelease, ReleaseDecrement, ReleaseStore
<1>4. QED
  BY <1>1, <1>2, <1>3 DEF DeviceNext

\* The process that passes the test finds nobody past it, or overlaps.
LEMMA KeepsOpenTest ==
  ASSUME DeviceInv, DeviceTypeOK', NEW p \in Process, OpenTest(p)
  PROVE  DeviceInv'
<1> USE DEF DeviceInv, DeviceTypeOK, OpenTest, Opening, Place
<1>1. CASE overlap'
  BY <1>1 DEF ExclusiveUnlessOverlap, CounterTellsUnlessOverlap
<1>2. CASE ~overlap'
  <2>0. ~overlap /\ ~\E q \in Process : Opening(q)
    BY <1>2
  <2>1. \A q \in Process : place[q] = "closed"
    <3>1. (\E q \in Process : place[q] \in {"open", "decremented"}) => deviceOpen = 1
      BY <2>0 DEF CounterTellsUnlessOverlap
    <3>2. ~\E q \in Process : place[q] \in {"open", "decremented"}
      BY <3>1
    <3>3. QED
      BY <2>0, <3>2
  <2>2. ExclusiveUnlessOverlap' /\ CounterTellsUnlessOverlap'
    BY <2>1 DEF ExclusiveUnlessOverlap, CounterTellsUnlessOverlap
  <2>3. QED
    BY <2>1, <2>2
<1>3. QED
  BY <1>1, <1>2

\* The other steps are those of the one process past the test.
LEMMA KeepsOthers ==
  ASSUME DeviceInv, DeviceTypeOK', NEW p \in Process,
         OpenIncrement(p) \/ OpenStore(p) \/ DeviceRelease(p)
  PROVE  DeviceInv'
<1> USE DEF DeviceInv, DeviceTypeOK, OpenIncrement, OpenStore, DeviceRelease,
            ReleaseDecrement, ReleaseStore, Place
<1>1. overlap' = overlap
  OBVIOUS
<1>2. CASE overlap
  BY <1>1, <1>2 DEF ExclusiveUnlessOverlap, CounterTellsUnlessOverlap
<1>3. CASE ~overlap
  <2>1. \A q \in Process : q # p => place[q] = "closed" /\ place'[q] = "closed"
    BY <1>3 DEF ExclusiveUnlessOverlap
  <2>2. deviceOpen = IF place[p] \in {"open", "decremented"} THEN 1 ELSE 0
    BY <1>3, <2>1 DEF CounterTellsUnlessOverlap
  <2>3. ExclusiveUnlessOverlap'
    BY <2>1 DEF ExclusiveUnlessOverlap
  <2>4. deviceOpen' = IF place'[p] \in {"open", "decremented"} THEN 1 ELSE 0
    BY <1>3, <2>2
  <2>5. CounterTellsUnlessOverlap'
    BY <2>1, <2>4 DEF CounterTellsUnlessOverlap
  <2>6. \A q \in Process :
          /\ place'[q] = "tested" => register'[q] = 0
          /\ place'[q] = "incremented" => register'[q] = 1
          /\ place'[q] = "decremented" => register'[q] = 0
    BY <1>3, <2>1, <2>2
  <2>7. QED
    BY <2>3, <2>5, <2>6
<1>4. QED
  BY <1>2, <1>3

\* The invariant holds in every state, for any number of processes.
THEOREM DeviceInductive == DeviceSpec => []DeviceInv
<1>1. DeviceInit => DeviceInv
  <2> SUFFICES ASSUME DeviceInit PROVE DeviceInv
    OBVIOUS
  <2>0. DeviceTypeOK
    <3>1. deviceOpen \in Int /\ place \in [Process -> Place] /\ register \in [Process -> Int]
      BY DEF DeviceInit, Place
    <3>2. overlap \in BOOLEAN
      BY Zenon DEF DeviceInit
    <3>3. QED
      BY <3>1, <3>2 DEF DeviceTypeOK
  <2>1. \A p \in Process : place[p] = "closed"
    BY DEF DeviceInit
  <2>2. ExclusiveUnlessOverlap
    BY <2>1 DEF ExclusiveUnlessOverlap
  <2>3. CounterTellsUnlessOverlap
    <3>1. ~\E p \in Process : place[p] \in {"open", "decremented"}
      BY <2>1
    <3>2. QED
      BY <3>1 DEF CounterTellsUnlessOverlap, DeviceInit
  <2>4. QED
    BY <2>0, <2>1, <2>2, <2>3 DEF DeviceInv
<1>2. DeviceInv /\ [DeviceNext]_deviceVars => DeviceInv'
  <2> SUFFICES ASSUME DeviceInv, [DeviceNext]_deviceVars PROVE DeviceInv'
    OBVIOUS
  <2>1. DeviceTypeOK'
    BY DeviceTypeStep DEF DeviceInv
  <2>2. CASE UNCHANGED deviceVars
    BY <2>2 DEF deviceVars, DeviceInv, DeviceTypeOK, ExclusiveUnlessOverlap, CounterTellsUnlessOverlap
  <2>3. ASSUME NEW p \in Process, DeviceOpen(p) \/ DeviceRelease(p) PROVE DeviceInv'
    BY <2>1, <2>3, KeepsOpenTest, KeepsOthers DEF DeviceOpen
  <2>4. QED
    BY <2>2, <2>3 DEF DeviceNext
<1>3. QED
  BY <1>1, <1>2, PTL DEF DeviceSpec

\* The test keeps a second process out, but for the window it leaves open.
THEOREM OpensAreExclusive == DeviceSpec => []ExclusiveUnlessOverlap
<1>1. DeviceInv => ExclusiveUnlessOverlap
  BY DEF DeviceInv
<1>2. QED
  BY <1>1, DeviceInductive, PTL

\* Without an overlap the counter always tells whether the file is open.
THEOREM CounterTells == DeviceSpec => []CounterTellsUnlessOverlap
<1>1. DeviceInv => CounterTellsUnlessOverlap
  BY DEF DeviceInv
<1>2. QED
  BY <1>1, DeviceInductive, PTL

-----------------------------------------------------------------------------
(* The page that shows what was measured last, and the requests under way.   *)

\* What numbers the posts have.
PageNumbers == /\ data \in Nat /\ state \in Nat /\ answer \in [Request -> Nat]
               /\ request \in [Request -> {"none", "sent", "answered"}]

\* The inductive invariant: an answer under way is no older than what the page
\* shows, unless a later one was shown before it.
PageInv ==
  /\ PageNumbers
  /\ state <= data /\ \A r \in Request : answer[r] <= data
  /\ overtaken \subseteq Pending
  /\ \A r \in Request : request[r] = "answered" /\ r \notin overtaken => state <= answer[r]

\* A step of a request that leaves the page as it is.
LEMMA PageKeeps ==
  ASSUME PageInv, NEW r \in Request,
         Tick(r) \/ HandleGetData(r) \/ Rejected(r)
  PROVE  PageInv' /\ state' = state
<1> USE DEF PageInv, PageNumbers, Pending
<1>1. CASE Tick(r)
  BY <1>1 DEF Tick
<1>2. CASE HandleGetData(r)
  BY <1>2 DEF HandleGetData
<1>3. CASE Rejected(r)
  BY <1>3 DEF Rejected, Ends
<1>4. QED
  BY <1>1, <1>2, <1>3

\* An answer is shown: every other request that is under way is overtaken now.
LEMMA PageShows ==
  ASSUME PageInv, NEW r \in Request, Then(r)
  PROVE  /\ PageInv'
         /\ state' < state => r \in overtaken /\ request[r] = "answered" /\ request'[r] = "none"
<1> USE DEF PageInv, PageNumbers, Pending, Then, Ends
<1>1. /\ request[r] = "answered" /\ request'[r] = "none" /\ state' = answer[r]
      /\ overtaken' = {q \in Request : request[q] # "none"} \ {r}
  OBVIOUS
<1>2. PageInv'
  BY <1>1
<1>3. QED
  BY <1>1, <1>2

LEMMA PageStep ==
  ASSUME PageInv, [PageNext]_pageVars
  PROVE  /\ PageInv'
         /\ state' < state => \E r \in overtaken : request[r] = "answered" /\ request'[r] = "none"
<1>0. state \in Nat
  BY DEF PageInv, PageNumbers
<1>1. CASE PageNext
  <2>1. ASSUME RecvData PROVE PageInv' /\ state' = state
    BY <2>1 DEF PageInv, PageNumbers, RecvData, Pending
  <2>2. ASSUME NEW r \in Request, Tick(r) \/ HandleGetData(r) \/ Rejected(r)
        PROVE  PageInv' /\ state' = state
    BY <2>2, PageKeeps
  <2>3. ASSUME NEW r \in Request, Then(r)
        PROVE  /\ PageInv'
               /\ state' < state => r \in overtaken /\ request[r] = "answered" /\ request'[r] = "none"
    BY <2>3, PageShows
  <2>4. QED
    BY <1>0, <1>1, <2>1, <2>2, <2>3 DEF PageNext
<1>2. CASE UNCHANGED pageVars
  BY <1>0, <1>2 DEF PageInv, PageNumbers, pageVars, Pending
<1>3. QED
  BY <1>1, <1>2

\* For every set of requests, and as many posts as there may be: no answer is
\* newer than the server's data, and none that was not overtaken is older than
\* what the page shows.
THEOREM PageInductive == PageSpec => []PageInv
<1>1. PageInit => PageInv
  BY DEF PageInit, PageInv, PageNumbers
<1>2. PageInv /\ [PageNext]_pageVars => PageInv'
  BY PageStep
<1>3. QED
  BY <1>1, <1>2, PTL DEF PageSpec

\* The variables of server, page and requests keep their types.
THEOREM PageTypeCorrect == PageSpec => []PageTypeOK
<1>1. PageInit => PageTypeOK
  BY MaxPostsAssumption DEF PageInit, PageTypeOK, Pending
<1>2. ASSUME PageTypeOK, [PageNext]_pageVars PROVE PageTypeOK'
  <2> USE DEF PageTypeOK, Pending
  <2>1. CASE RecvData
    BY <1>2, <2>1, MaxPostsAssumption DEF RecvData
  <2>2. ASSUME NEW r \in Request, Tick(r) \/ HandleGetData(r) PROVE PageTypeOK'
    <3>1. prevRequestCompleted' \in BOOLEAN
      BY <1>2, <2>2, Zenon DEF Tick, HandleGetData
    <3>2. CASE Tick(r)
      BY <1>2, <3>1, <3>2 DEF Tick
    <3>3. CASE HandleGetData(r)
      BY <1>2, <3>3 DEF HandleGetData
    <3>4. QED
      BY <2>2, <3>2, <3>3
  <2>3. ASSUME NEW r \in Request, Then(r) \/ Rejected(r) PROVE PageTypeOK'
    BY <1>2, <2>3, MaxPostsAssumption DEF Then, Rejected, Ends
  <2>4. CASE UNCHANGED pageVars
    BY <1>2, <2>4 DEF pageVars
  <2>5. QED
    BY <1>2, <2>1, <2>2, <2>3, <2>4 DEF PageNext
<1>3. QED
  BY <1>1, <1>2, PTL DEF PageSpec

\* The page goes back to older data only by an answer that was overtaken.
THEOREM PageGoesBack == PageSpec => GoesBackOnlyWhenOvertaken
<1>1. ASSUME PageInv, [PageNext]_pageVars
      PROVE  [state' < state =>
                \E r \in overtaken : request[r] = "answered" /\ request'[r] = "none"]_pageVars
  BY <1>1, PageStep
<1>2. QED
  BY <1>1, PageInductive, PTL DEF PageSpec, GoesBackOnlyWhenOvertaken

=============================================================================
