------------------------------- MODULE Dht11 -------------------------------
(***************************************************************************)
(* read_dht11 of the temperature sensor's driver: the driver pulls the     *)
(* line down, lets go, and counts how long each of the sensor's bits keeps *)
(* the line high.  bits is static: what a reading does not store is what   *)
(* an earlier one has stored.                                              *)
(*                                                                         *)
(* The sensor does not wait for the driver, which the kernel may take the  *)
(* processor from: a whole phase of the line can pass unseen.  A count is  *)
(* abstracted to the bit it is the length of; MAXCNT is reached only on a  *)
(* line that rests, for it is far longer than a phase.                     *)
(***************************************************************************)
EXTENDS Integers

CONSTANTS Bits,          \* the bits of a frame: 40
          MaxReads,      \* how often the device is read
          MaxMissed      \* how many phases the driver misses in one reading

ASSUME BoundAssumption == Bits \in Nat \ {0} /\ {MaxReads, MaxMissed} \subseteq Nat

VARIABLES
  \* The line: the phase the sensor is in, and whether it stays there.
  phase, stuck,
  \* read_dht11: the loop it is in, its i and bits; device_read's result.
  pc, i, bits, result,
  \* The phase the driver has sampled last, or in which its count began.
  seen, from,
  \* History: the readings; what the driver missed in this one, and whether the
  \* frame was whole and in time.
  reads, missed, whole

lineVars == <<phase, stuck>>
loopVars == <<pc, i, bits, result, seen, from>>
vars     == <<lineVars, loopVars, reads, missed, whole>>

\* A transmission: the line is let go, the sensor's response low and high, each
\* bit low and high, a last low; then the line rests high.
Released == 0
High(p)  == p % 2 = 0
BitAt(p) == (p - 2) \div 2     \* the bit of a high phase; 0: the response
Resting  == 2 * Bits + 4
Phase    == 0 .. Resting

\* The line will not change any more.
Rests == stuck \/ phase = Resting

Pc == {"idle", "respondLow", "respondHigh", "low", "high"}

\* What a static int is before it is stored: no reading's.
Unset   == <<0, 0>>
Garbled == -1

Init ==
  /\ phase = Resting /\ stuck = FALSE
  /\ pc = "idle" /\ i = 1 /\ bits = [b \in 1 .. Bits |-> Unset] /\ result = "none"
  /\ seen = Resting /\ from = Resting
  /\ reads = 0 /\ missed = 0 /\ whole = FALSE

-----------------------------------------------------------------------------
(* The sensor.                                                              *)

\* The next phase begins; the driver may not have seen this one.
SensorAdvances ==
  /\ ~Rests
  /\ phase' = phase + 1
  /\ missed' = IF seen = phase \/ pc = "idle" THEN missed ELSE missed + 1
  /\ missed' <= MaxMissed
  /\ UNCHANGED <<stuck, loopVars, reads, whole>>

\* The sensor stops in the middle, or leaves the line to the pull-up resistor.
SensorFails ==
  /\ ~Rests
  /\ stuck' = TRUE
  /\ phase' \in {phase, Resting}
  /\ whole' = (whole /\ pc = "idle")
  /\ UNCHANGED <<loopVars, reads, missed>>

-----------------------------------------------------------------------------
(* read_dht11.                                                              *)

\* device_read and the start signal.  The sensor pulls the line down before the
\* driver listens, is late, or does not answer at all.
Start ==
  /\ pc = "idle" /\ reads < MaxReads
  /\ reads' = reads + 1
  /\ pc' = "respondLow" /\ result' = "none"
  /\ \/ phase' = 1 /\ stuck' = FALSE /\ whole' = TRUE
     \/ phase' = Released /\ stuck' \in BOOLEAN /\ whole' = FALSE
  /\ seen' = phase' /\ missed' = 0
  /\ UNCHANGED <<i, bits, from>>

\* The driver samples the line and goes from one loop to the next.
Sees(a, b, level) ==
  /\ pc = a /\ High(phase) = level
  /\ pc' = b /\ seen' = phase

\* while (LOW) and while (HIGH) of the sensor's response.
RespondLow ==
  /\ Sees("respondLow", "respondHigh", TRUE)
  /\ UNCHANGED <<lineVars, i, bits, result, from, reads, missed, whole>>

\* Mutant: the loop over the bits begins with the response's high phase.
RespondHighSkipped ==
  /\ pc = "respondHigh" /\ High(phase)
  /\ pc' = "low" /\ seen' = phase
  /\ i' = 1
  /\ UNCHANGED <<lineVars, bits, result, from, reads, missed, whole>>

RespondHigh ==
  /\ Sees("respondHigh", "low", FALSE)
  /\ i' = 1
  /\ UNCHANGED <<lineVars, bits, result, from, reads, missed, whole>>

\* DHT11 Non Responsive: return -1.
NonResponsive ==
  /\ pc \in {"respondLow", "respondHigh"} /\ Rests
  /\ High(phase) = (pc = "respondHigh")
  /\ pc' = "idle" /\ result' = "failed"
  /\ UNCHANGED <<lineVars, i, bits, seen, from, reads, missed, whole>>

\* while (LOW) of bit i, without a bound.
BitLow ==
  /\ Sees("low", "high", TRUE)
  /\ from' = phase
  /\ UNCHANGED <<lineVars, i, bits, result, reads, missed, whole>>

\* while (HIGH) of bit i: the line falls and the count is stored; after the last
\* bit the reading is done.
BitHigh ==
  /\ Sees("high", IF i = Bits THEN "idle" ELSE "low", FALSE)
  /\ bits' = [bits EXCEPT ![i] = <<reads, IF phase = from + 1 THEN BitAt(from) ELSE Garbled>>]
  /\ i' = i + 1
  /\ result' = IF i = Bits THEN "ok" ELSE result
  /\ UNCHANGED <<lineVars, from, reads, missed, whole>>

\* Mutants: only the inner loop is left, and the count is stored; no bound.
BitTooLongStored ==
  /\ pc = "high" /\ High(phase) /\ Rests
  /\ pc' = IF i = Bits THEN "idle" ELSE "low"
  /\ bits' = [bits EXCEPT ![i] = <<reads, BitAt(phase)>>]
  /\ i' = i + 1
  /\ result' = IF i = Bits THEN "ok" ELSE result
  /\ UNCHANGED <<lineVars, seen, from, reads, missed, whole>>
BitTooLongCounts == pc = "high" /\ High(phase) /\ Rests /\ UNCHANGED vars

\* cnt > MAXCNT: the break comes before the return -1, and the reading is done.
BitTooLong ==
  /\ pc = "high" /\ High(phase) /\ Rests
  /\ pc' = "idle" /\ result' = "ok"
  /\ UNCHANGED <<lineVars, i, bits, seen, from, reads, missed, whole>>

Driver == RespondLow \/ RespondHigh \/ NonResponsive \/ BitLow \/ BitHigh \/ BitTooLong

\* The driver takes a sample that changes nothing but what it has seen.
Sample ==
  /\ pc # "idle" /\ seen # phase
  /\ High(phase) = (pc \in {"respondHigh", "high"})
  /\ seen' = phase
  /\ UNCHANGED <<lineVars, pc, i, bits, result, from, reads, missed, whole>>

Next == SensorAdvances \/ SensorFails \/ Start \/ Driver \/ Sample

Spec == Init /\ [][Next]_vars

\* The driver runs and the sensor goes on until it fails.
FairSpec == Spec /\ WF_vars(Driver \/ Sample) /\ WF_vars(SensorAdvances)

-----------------------------------------------------------------------------

\* The type invariant of line, loops and history.
TypeOK ==
  /\ phase \in Phase /\ stuck \in BOOLEAN
  /\ pc \in Pc /\ i \in 1 .. Bits + 1 /\ result \in {"none", "ok", "failed"}
  /\ pc \in {"low", "high"} => i <= Bits
  /\ bits \in [1 .. Bits -> (0 .. MaxReads) \X ({Garbled} \cup 0 .. Bits)]
  /\ {seen, from} \subseteq Phase
  /\ reads \in 0 .. MaxReads /\ missed \in 0 .. MaxMissed /\ whole \in BOOLEAN

\* A reading is the sensor's frame, bit for bit, when the sensor was in time and
\* did not stop, and the driver saw every phase of the line.
UndisturbedReadingIsFrame ==
  result = "ok" /\ whole /\ missed = 0 => bits = [b \in 1 .. Bits |-> <<reads, b>>]

\* Whatever is missed, a reading that succeeds begins with bits of its own frame
\* in their order, none of them twice, and what follows is all from before.
ReadingIsOrdered ==
  result = "ok" =>
    \A b, c \in 1 .. Bits : b < c /\ bits[c][1] = reads =>
      /\ bits[b][1] = reads
      /\ Garbled \notin {bits[b][2], bits[c][2]} => bits[b][2] < bits[c][2]

\* What read_dht11 says of the bits it waits for, "40bits data": a reading that
\* succeeds has stored all of them.
SuccessIsAllBits ==
  result = "ok" => \A b \in 1 .. Bits : bits[b][1] = reads

\* A reading ends, unless the line stays low between two bits.
ReadEnds == pc # "idle" ~> pc = "idle" \/ (stuck /\ ~High(phase))

=============================================================================
