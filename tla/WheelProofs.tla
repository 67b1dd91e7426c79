----------------------------- MODULE WheelProofs -----------------------------
(***************************************************************************)
(* Proofs about Wheel, for all gains, limits, sample times and counter     *)
(* widths, and without the bounds of the run.                              *)
(***************************************************************************)
EXTENDS Wheel, TLAPS

\* The conversions of C stay within the integers.
LEMMA QuotType == ASSUME NEW x \in Int, NEW y \in Nat \ {0}
                  PROVE  Quot(x, y) \in Int
  BY DEF Quot

LEMMA Int16Type == ASSUME NEW x \in Int PROVE Int16(x) \in Int
  BY DEF Int16

LEMMA ClampType == ASSUME NEW x \in Int
                   PROVE  Clamp(x) \in Int /\ -Limit <= Clamp(x) /\ Clamp(x) <= Limit
  BY GainAssumption DEF Clamp

LEMMA SumType == ASSUME NEW error \in Int, TypeOK PROVE Sum(error) \in Int
  BY GainAssumption DEF Sum, TypeOK

LEMMA RpmType == ASSUME TypeOK PROVE Rpm \in Int
  <1>1. cps * 60 \in Int  BY DEF TypeOK
  <1>2. Quot(cps * 60, PulseRevol) \in Int  BY <1>1, QuotType, TimeAssumption
  <1> QED  BY <1>2, Int16Type DEF Rpm

\* The type invariant: the controller's output keeps within its limits.
THEOREM TypeCorrect == Spec => []TypeOK
<1>1. Init => TypeOK
  <2> SUFFICES ASSUME Init PROVE TypeOK  OBVIOUS
  <2>1. target \in Int /\ output \in Int /\ cps \in Int
    BY RangeAssumption DEF Init
  <2>2. pid_last_time \in Int
    BY RangeAssumption, TimeAssumption DEF Init
  <2>3. -Limit <= last_out /\ last_out <= Limit
    BY GainAssumption DEF Init
  <2>4. pending \subseteq Line /\ late \in BOOLEAN /\ clamped \in BOOLEAN
    BY Zenon DEF Init
  <2> QED  BY <2>1, <2>2, <2>3, <2>4 DEF Init, TypeOK
<1>2. TypeOK /\ [Next]_vars => TypeOK'
  <2> SUFFICES ASSUME TypeOK, [Next]_vars PROVE TypeOK'  OBVIOUS
  <2>1. ASSUME NEW d \in {-1, 1}, Turn(d) PROVE TypeOK'
    <3> DEFINE line == IF Pins(position) \div 2 # Pins(position + d) \div 2 THEN "a" ELSE "b"
    <3>1. line \in Line  BY DEF Line
    <3>2. pending' = pending \cup {line}  BY <2>1 DEF Turn
    <3>3. pending' \subseteq Line  BY <3>1, <3>2 DEF TypeOK
    <3>4. position' \in Int  BY <2>1 DEF Turn, TypeOK
    <3>5. late' \in BOOLEAN  BY <2>1 DEF Turn, TypeOK
    <3> HIDE DEF line
    <3> QED  BY <2>1, <3>3, <3>4, <3>5 DEF Turn, TypeOK, encVars, pidVars
  <2>2. ASSUME NEW l \in Line, encoder_isr(l) PROVE TypeOK'
    <3>1. last_value' \in 0..3  BY <2>2 DEF encoder_isr, Pins, TypeOK
    <3>2. pending' \subseteq Line  BY <2>2 DEF encoder_isr, TypeOK
    <3>3. pulse_count' \in Int /\ skipped' \in Int  BY <2>2 DEF encoder_isr, TypeOK
    <3> QED  BY <2>2, <3>1, <3>2, <3>3 DEF encoder_isr, TypeOK, wheelVars, encVars, pidVars
  <2>3. CASE Tick
    BY <2>3, TimeAssumption DEF Tick, TypeOK, wheelVars, encVars, pidVars
  <2>4. ASSUME NEW rpm \in Targets, wheel_set_rpm(rpm) PROVE TypeOK'
    BY <2>4, RangeAssumption DEF wheel_set_rpm, TypeOK, wheelVars, encVars, pidVars
  <2>5. CASE MeasureWaits
    BY <2>5 DEF MeasureWaits, TypeOK, wheelVars, encVars, pidVars
  <2>6. CASE Measure
    <3>1. pulse_count - last_count \in Int  BY DEF TypeOK
    <3>2. Int16(Quot((pulse_count - last_count) * 1000, SampleTime)) \in Int
      BY <3>1, QuotType, Int16Type, TimeAssumption
    <3>3. cps' \in Int /\ measured' \in Int  BY <2>6, <3>1, <3>2 DEF Measure, TypeOK
    <3> QED  BY <2>6, <3>3 DEF Measure, TypeOK, wheelVars, pidVars
  <2>7. CASE Mark
    BY <2>7 DEF Mark, TypeOK, wheelVars, pidVars
  <2>8. CASE PidWaits
    BY <2>8 DEF PidWaits, TypeOK, wheelVars, encVars, pidVars
  <2>9. CASE Pid
    <3>1. target - Rpm \in Int  BY RpmType DEF TypeOK
    <3>2. Sum(target - Rpm) \in Int  BY <3>1, SumType
    <3>3. last_out' = Clamp(Sum(target - Rpm))  BY <2>9 DEF Pid
    <3>4. last_out' \in Int /\ -Limit <= last_out' /\ last_out' <= Limit
      BY <3>2, <3>3, ClampType
    <3>5. clamped' \in BOOLEAN  BY <2>9 DEF Pid, TypeOK
    <3>6. /\ error_l' \in Int /\ error_ll' \in Int /\ error_sum' \in Int
          /\ output' \in Int /\ pid_last_time' \in Int
      BY <2>9, <3>1, <3>4 DEF Pid, TypeOK
    <3> QED  BY <2>9, <3>4, <3>5, <3>6 DEF Pid, TypeOK, wheelVars, encVars
  <2>10. CASE motor_run
    <3>1. speed' \in Int  BY <2>10, Int16Type DEF motor_run, TypeOK
    <3> QED  BY <2>10, <3>1 DEF motor_run, TypeOK, wheelVars, encVars, pidVars
  <2>11. CASE UNCHANGED vars
    BY <2>11 DEF vars, TypeOK, wheelVars, encVars, pidVars
  <2> QED  BY <2>1, <2>2, <2>3, <2>4, <2>5, <2>6, <2>7, <2>8, <2>9, <2>10, <2>11 DEF Next
<1> QED  BY <1>1, <1>2, PTL DEF Spec
-----------------------------------------------------------------------------
(* The controller *)

\* One step of the incremental form is one step of the positional form.
LEMMA SumIsPositional ==
    ASSUME TypeOK, NEW error \in Int,
           last_out = Kp * error_l + Ki * error_sum + Kd * (error_l - error_ll)
    PROVE  Sum(error) = Kp * error + Ki * (error_sum + error) + Kd * (error - error_l)
  <1>1. Kp \in Int /\ Ki \in Int /\ Kd \in Int
    BY GainAssumption
  <1>2. error_l \in Int /\ error_ll \in Int /\ error_sum \in Int
    BY DEF TypeOK
  <1> QED
    BY <1>1, <1>2 DEF Sum

\* Until it meets a limit the incremental controller computes the positional sum.
THEOREM PidCorrect == Spec => []PidIsPositional
<1>1. Init => PidIsPositional
  BY GainAssumption DEF Init, PidIsPositional
<1>2. TypeOK /\ PidIsPositional /\ [Next]_vars => PidIsPositional'
  <2> SUFFICES ASSUME TypeOK, PidIsPositional, [Next]_vars PROVE PidIsPositional'
    OBVIOUS
  <2>1. CASE Pid
    <3> SUFFICES ASSUME ~clamped'
                 PROVE  last_out' = Kp * error_l' + Ki * error_sum' + Kd * (error_l' - error_ll')
      BY DEF PidIsPositional
    <3> DEFINE error == target - Rpm
    <3>1. error \in Int  BY RpmType DEF TypeOK
    <3>2. ~clamped /\ last_out' = Sum(error)  BY <2>1 DEF Pid
    <3>3. error_l' = error /\ error_ll' = error_l /\ error_sum' = error_sum + error
      BY <2>1 DEF Pid
    <3> HIDE DEF error
    <3>4. Sum(error) = Kp * error + Ki * (error_sum + error) + Kd * (error - error_l)
      BY <3>1, <3>2, SumIsPositional DEF PidIsPositional
    <3> QED  BY <3>2, <3>3, <3>4
  <2>2. CASE UNCHANGED pidVars
    BY <2>2 DEF pidVars, PidIsPositional
  <2>3. [Next]_vars => Pid \/ UNCHANGED pidVars
    BY DEF Next, vars, Turn, encoder_isr, Tick, wheel_set_rpm, MeasureWaits, Measure, Mark,
           PidWaits, motor_run
  <2> QED  BY <2>1, <2>2, <2>3
<1> QED  BY <1>1, <1>2, TypeCorrect, PTL DEF Spec
-----------------------------------------------------------------------------
(* The encoder *)

\* What the handler and the two reads keep while every edge is served in time: the
\* count is the position, or one step from it while an edge waits, and last_value
\* is what the pins read at the count.
EncoderInv ==
    /\ ~late =>
        /\ last_value = Pins(pulse_count)
        /\ pending = {} => position = pulse_count
        /\ pending # {} => position \in {pulse_count - 1, pulse_count + 1}
        /\ \A k, l \in pending : k = l
    /\ IF thread = "mark" THEN pulse_count = measured + skipped
                          ELSE last_count = measured + skipped

\* The table holds the next reading in the forward direction and no other.
LEMMA TableIsForward ==
    ASSUME NEW p \in Int
    PROVE  /\ Pins(p) \in 0..3
           /\ AB_PHASE_ENCODER_TABLE[Pins(p)] = Pins(p + 1)
           /\ AB_PHASE_ENCODER_TABLE[Pins(p)] # Pins(p - 1)
  <1>1. p % 4 \in 0..3  OBVIOUS
  <1>2. /\ p % 4 = 0 => (p + 1) % 4 = 1 /\ (p - 1) % 4 = 3
        /\ p % 4 = 1 => (p + 1) % 4 = 2 /\ (p - 1) % 4 = 0
        /\ p % 4 = 2 => (p + 1) % 4 = 3 /\ (p - 1) % 4 = 1
        /\ p % 4 = 3 => (p + 1) % 4 = 0 /\ (p - 1) % 4 = 2
    OBVIOUS
  <1> QED  BY <1>1, <1>2 DEF Pins, AB_PHASE_ENCODER_TABLE

\* The invariant in the initial state.
LEMMA EncoderStarts == Init => EncoderInv
  <1>1. Pins(0) = 0  BY DEF Pins
  <1> QED  BY <1>1 DEF Init, EncoderInv

\* The invariant across one interrupt.
LEMMA IsrKeeps ==
    ASSUME TypeOK, EncoderInv, NEW l \in Line, encoder_isr(l)
    PROVE  EncoderInv'
  <1> DEFINE step == IF AB_PHASE_ENCODER_TABLE[last_value] = Pins(position) THEN 1 ELSE -1
  <1>1. /\ l \in pending /\ pending' = pending \ {l}
        /\ pulse_count' = pulse_count + step
        /\ last_value' = Pins(position)
        /\ skipped' = IF thread = "mark" THEN skipped + step ELSE skipped
        /\ UNCHANGED <<position, late, thread, measured, last_count>>
    BY DEF encoder_isr, wheelVars, encVars
  <1>2. ASSUME ~late PROVE pulse_count' = position /\ pending' = {}
    <2>1. position \in {pulse_count - 1, pulse_count + 1}
      BY <1>1, <1>2 DEF EncoderInv
    <2>2. position = pulse_count + step
      BY <1>2, <2>1, TableIsForward DEF EncoderInv, TypeOK
    <2>3. pending' = {}  BY <1>1, <1>2 DEF EncoderInv
    <2> QED  BY <1>1, <2>2, <2>3
  <1>3. step \in Int  OBVIOUS
  <1> HIDE DEF step
  <1>4. IF thread' = "mark" THEN pulse_count' = measured' + skipped'
                            ELSE last_count' = measured' + skipped'
    BY <1>1, <1>3 DEF EncoderInv, TypeOK
  <1>5. ~late' => /\ last_value' = Pins(pulse_count')
                  /\ position' = pulse_count' /\ pending' = {}
    BY <1>1, <1>2
  <1> QED  BY <1>4, <1>5 DEF EncoderInv, Pins

\* The distance is measured whole but for what the two reads lose.
THEOREM DistanceCorrect == Spec => []DistanceMeasured
<1>1. TypeOK /\ EncoderInv /\ [Next]_vars => EncoderInv'
  <2> SUFFICES ASSUME TypeOK, EncoderInv, [Next]_vars PROVE EncoderInv'
    OBVIOUS
  <2>1. ASSUME NEW d \in {-1, 1}, Turn(d) PROVE EncoderInv'
    <3> DEFINE line == IF Pins(position) \div 2 # Pins(position + d) \div 2 THEN "a" ELSE "b"
    <3>1. /\ pending' = pending \cup {line} /\ position' = position + d
          /\ late' = (late \/ pending # {})
          /\ UNCHANGED <<last_value, pulse_count, skipped, measured, last_count, thread>>
      BY <2>1 DEF Turn, encVars
    <3> HIDE DEF line
    <3>2. ~late' => pending = {} /\ ~late  BY <3>1
    <3>3. ~late' => /\ position' \in {pulse_count' - 1, pulse_count' + 1}
                    /\ pending' = {line}
      BY <3>1, <3>2 DEF EncoderInv, TypeOK
    <3>4. ~late' => last_value' = Pins(pulse_count')
      BY <3>1, <3>2 DEF EncoderInv, Pins
    <3> QED  BY <3>1, <3>3, <3>4 DEF EncoderInv
  <2>2. ASSUME NEW l \in Line, encoder_isr(l) PROVE EncoderInv'
    BY <2>2, IsrKeeps
  <2>3. CASE Measure
    <3>1. /\ thread = "idle" /\ thread' = "mark"
          /\ measured' = measured + (pulse_count - last_count)
          /\ UNCHANGED <<wheelVars, pending, last_value, pulse_count, skipped>>
      BY <2>3 DEF Measure
    <3>2. pulse_count' = measured' + skipped'
      BY <3>1 DEF EncoderInv, TypeOK
    <3> QED  BY <3>1, <3>2 DEF EncoderInv, Pins, wheelVars
  <2>4. CASE Mark
    BY <2>4 DEF Mark, EncoderInv, Pins, wheelVars
  <2>5. CASE /\ UNCHANGED <<wheelVars, pending, last_value, pulse_count, skipped, last_count,
                            measured>>
             /\ thread # "mark" /\ thread' # "mark"
    BY <2>5 DEF EncoderInv, Pins, wheelVars
  <2>6. CASE UNCHANGED <<wheelVars, pending, last_value, pulse_count, skipped, last_count,
                         measured, thread>>
    BY <2>6 DEF EncoderInv, Pins, wheelVars
  <2>7. MeasureWaits \/ PidWaits \/ Pid \/ motor_run =>
          /\ UNCHANGED <<wheelVars, pending, last_value, pulse_count, skipped, last_count,
                         measured>>
          /\ thread # "mark" /\ thread' # "mark"
    BY DEF MeasureWaits, PidWaits, Pid, motor_run, encVars
  <2>8. \/ Tick \/ UNCHANGED vars \/ \E rpm \in Targets : wheel_set_rpm(rpm)
        => UNCHANGED <<wheelVars, pending, last_value, pulse_count, skipped, last_count,
                       measured, thread>>
    BY DEF Tick, wheel_set_rpm, vars, encVars
  <2> QED  BY <2>1, <2>2, <2>3, <2>4, <2>5, <2>6, <2>7, <2>8 DEF Next
<1>2. TypeOK /\ EncoderInv => DistanceMeasured
  BY DEF TypeOK, EncoderInv, DistanceMeasured
<1> QED  BY EncoderStarts, <1>1, <1>2, TypeCorrect, PTL DEF Spec
=============================================================================
