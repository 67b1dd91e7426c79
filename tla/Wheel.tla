-------------------------------- MODULE Wheel --------------------------------
(***************************************************************************)
(* One wheel of the chassis: the quadrature encoder and its interrupt      *)
(* handler (ab_phase_encoder.c), the speed measurement (encoder.c), the    *)
(* incremental PID controller (inc_pid_controller.c) and the update that   *)
(* joins them (wheel.c).                                                   *)
(*                                                                         *)
(* The handler preempts the thread between any two of its statements and   *)
(* runs some time after the edge it serves.  Floats are integers here, so  *)
(* rounding is left out; what the heap held is any value of Garbage.       *)
(***************************************************************************)
EXTENDS Integers

CONSTANTS
    Targets,            \* speeds asked for, in rpm
    Garbage,            \* what an uninitialised number may be
    Kp, Ki, Kd,         \* PID_PARAM_KP, _KI, _KD
    Limit,              \* maximum and, negative, minimum of the controller
    PulseRevol,         \* PULSE_PER_REVOL
    SampleTime, PidSampleTime,      \* in ticks, which are milliseconds
    TickMod,            \* the tick counter wraps here; 2^32 in the program
    MaxEdges, MaxTicks  \* bounds on the edges and the ticks

ASSUME GainAssumption ==
    Kp \in Int /\ Ki \in Int /\ Kd \in Int /\ Limit \in Nat
ASSUME RangeAssumption == Targets \subseteq Int /\ Garbage \subseteq Int
ASSUME TimeAssumption ==
    /\ PulseRevol \in Nat \ {0} /\ SampleTime \in Nat \ {0} /\ PidSampleTime \in Nat \ {0}
    /\ TickMod \in Nat \ {0} /\ MaxEdges \in Nat /\ MaxTicks \in Nat

Line == {"a", "b"}

VARIABLES
    \* the wheel and its two pins
    position,       \* quarter steps from where it stood at the start
    pending,        \* lines whose interrupt has not been served
    \* struct encoder
    last_value, pulse_count, last_count, last_time, cps,
    \* struct inc_pid_controller
    target, output, error_l, error_ll, last_out, pid_last_time,
    thread,         \* where the thread is
    speed,          \* what motor_run was given last
    tick, edges, ticks,
    \* history
    late,           \* an edge came before the one ahead of it was served
    measured,       \* sum of the differences measured
    skipped,        \* counts between the two reads of encoder_measure_cps
    error_sum,      \* sum of the errors the controller has seen
    clamped         \* the controller's output met a limit

wheelVars == <<position, edges, late>>
encVars == <<last_count, last_time, cps, measured>>
pidVars == <<output, error_l, error_ll, last_out, pid_last_time, error_sum, clamped>>
vars == <<wheelVars, pending, last_value, pulse_count, skipped, encVars, target, pidVars,
          thread, speed, tick, ticks>>

\* What the pins read at a position: 2 * a + b along AB_PHASE_ENCODER_TABLE.
AB_PHASE_ENCODER_TABLE == [v \in 0..3 |-> CASE v = 0 -> 2 [] v = 1 -> 0 [] v = 2 -> 3 [] v = 3 -> 1]
Pins(p) == CASE p % 4 = 0 -> 0 [] p % 4 = 1 -> 2 [] p % 4 = 2 -> 3 [] p % 4 = 3 -> 1

\* C's division, toward zero, and the conversion to rt_int16_t.
Quot(x, y) == IF x >= 0 THEN x \div y ELSE -((-x) \div y)
Int16(x) == ((x + 32768) % 65536) - 32768

\* Mutant: the lower limit is forgotten.
ClampAbove(x) == IF x > Limit THEN Limit ELSE x

Clamp(x) == IF x > Limit THEN Limit ELSE IF x < -Limit THEN -Limit ELSE x

\* rt_tick_get() - since, unsigned.
Elapsed(since) == (tick - since) % TickMod
-----------------------------------------------------------------------------
\* After wheel_create; ab_phase_encoder_enable has armed the interrupts with the
\* wheel at rest.  controller.output, cps and the controller's last_time come
\* from rt_malloc; target is set before the first update.
Init ==
    /\ position = 0 /\ pending = {} /\ edges = 0 /\ late = FALSE
    /\ last_value = 0 /\ pulse_count = 0 /\ last_count = 0 /\ last_time = 0
    /\ cps \in Garbage
    /\ target \in Targets /\ output \in Garbage
    /\ error_l = 0 /\ error_ll = 0 /\ last_out = 0
    /\ pid_last_time \in {g % TickMod : g \in Garbage}
    /\ thread = "idle" /\ speed = 0
    /\ tick = 0 /\ ticks = 0
    /\ measured = 0 /\ skipped = 0 /\ error_sum = 0 /\ clamped = FALSE

\* The wheel turns by a quarter step: one line changes.
Turn(d) ==
    /\ edges < MaxEdges
    /\ edges' = edges + 1
    /\ position' = position + d
    /\ LET line == IF Pins(position) \div 2 # Pins(position + d) \div 2 THEN "a" ELSE "b"
       IN  pending' = pending \cup {line}
    /\ late' = (late \/ pending # {})
    /\ UNCHANGED <<last_value, pulse_count, skipped, encVars, target, pidVars, thread, speed,
                   tick, ticks>>

\* Mutant: the last value is kept when the wheel turns backward.
encoder_isrKeeps(line) ==
    LET val == Pins(position)
        step == IF AB_PHASE_ENCODER_TABLE[last_value] = val THEN 1 ELSE -1
    IN  /\ line \in pending
        /\ pending' = pending \ {line}
        /\ pulse_count' = pulse_count + step
        /\ last_value' = IF step = 1 THEN val ELSE last_value
        /\ skipped' = IF thread = "mark" THEN skipped + step ELSE skipped
        /\ UNCHANGED <<wheelVars, encVars, target, pidVars, thread, speed, tick, ticks>>

\* encoder_isr: everything that is not one step forward counts as one backward.
encoder_isr(line) ==
    LET val == Pins(position)
        step == IF AB_PHASE_ENCODER_TABLE[last_value] = val THEN 1 ELSE -1
    IN  /\ line \in pending
        /\ pending' = pending \ {line}
        /\ pulse_count' = pulse_count + step
        /\ last_value' = val
        /\ skipped' = IF thread = "mark" THEN skipped + step ELSE skipped
        /\ UNCHANGED <<wheelVars, encVars, target, pidVars, thread, speed, tick, ticks>>

Tick ==
    /\ ticks < MaxTicks
    /\ ticks' = ticks + 1
    /\ tick' = (tick + 1) % TickMod
    /\ UNCHANGED <<wheelVars, pending, last_value, pulse_count, skipped, encVars, target,
                   pidVars, thread, speed>>
-----------------------------------------------------------------------------
\* wheel_set_rpm.
wheel_set_rpm(rpm) ==
    /\ thread = "idle"
    /\ target' = rpm
    /\ UNCHANGED <<wheelVars, pending, last_value, pulse_count, skipped, encVars, pidVars,
                   thread, speed, tick, ticks>>

\* wheel_update up to encoder_measure_cps, which returns the old value too early ...
MeasureWaits ==
    /\ thread = "idle"
    /\ Elapsed(last_time) < SampleTime
    /\ thread' = "pid"
    /\ UNCHANGED <<wheelVars, pending, last_value, pulse_count, skipped, encVars, target,
                   pidVars, speed, tick, ticks>>

\* ... or takes the difference with the first read of pulse_count ...
Measure ==
    /\ thread = "idle"
    /\ Elapsed(last_time) >= SampleTime
    /\ LET diff_count == pulse_count - last_count IN
       /\ cps' = Int16(Quot(diff_count * 1000, SampleTime))
       /\ measured' = measured + diff_count
    /\ thread' = "mark"
    /\ UNCHANGED <<wheelVars, pending, last_value, pulse_count, skipped, last_count, last_time,
                   target, pidVars, speed, tick, ticks>>

\* ... and remembers a second one.
Mark ==
    /\ thread = "mark"
    /\ last_count' = pulse_count
    /\ last_time' = tick
    /\ thread' = "pid"
    /\ UNCHANGED <<wheelVars, pending, last_value, pulse_count, skipped, cps, measured,
                   target, pidVars, speed, tick, ticks>>

\* encoder_measure_rpm.
Rpm == Int16(Quot(cps * 60, PulseRevol))

\* inc_pid_controller_update: RT_EBUSY, the output stays.
PidWaits ==
    /\ thread = "pid"
    /\ Elapsed(pid_last_time) < PidSampleTime
    /\ thread' = "run"
    /\ UNCHANGED <<wheelVars, pending, last_value, pulse_count, skipped, encVars, target,
                   pidVars, speed, tick, ticks>>

\* The output for an error.
Sum(error) ==
    last_out + Kp * (error - error_l) + Ki * error + Kd * (error - 2 * error_l + error_ll)

\* Mutant: the error before the last one is not moved on.
PidStale ==
    LET error == target - Rpm IN
    /\ thread = "pid"
    /\ Elapsed(pid_last_time) >= PidSampleTime
    /\ pid_last_time' = tick
    /\ last_out' = Clamp(Sum(error))
    /\ output' = last_out'
    /\ error_l' = error /\ UNCHANGED error_ll
    /\ error_sum' = error_sum + error
    /\ clamped' = (clamped \/ last_out' # Sum(error))
    /\ thread' = "run"
    /\ UNCHANGED <<wheelVars, pending, last_value, pulse_count, skipped, encVars, target,
                   speed, tick, ticks>>

Pid ==
    LET error == target - Rpm IN
    /\ thread = "pid"
    /\ Elapsed(pid_last_time) >= PidSampleTime
    /\ pid_last_time' = tick
    /\ last_out' = Clamp(Sum(error))
    /\ output' = last_out'
    /\ error_l' = error /\ error_ll' = error_l
    /\ error_sum' = error_sum + error
    /\ clamped' = (clamped \/ last_out' # Sum(error))
    /\ thread' = "run"
    /\ UNCHANGED <<wheelVars, pending, last_value, pulse_count, skipped, encVars, target,
                   speed, tick, ticks>>

\* motor_run with whatever the output is.
motor_run ==
    /\ thread = "run"
    /\ speed' = Int16(output)
    /\ thread' = "idle"
    /\ UNCHANGED <<wheelVars, pending, last_value, pulse_count, skipped, encVars, target,
                   pidVars, tick, ticks>>

Next ==
    \/ \E d \in {-1, 1} : Turn(d)
    \/ \E l \in Line : encoder_isr(l)
    \/ Tick
    \/ \E rpm \in Targets : wheel_set_rpm(rpm)
    \/ MeasureWaits \/ Measure \/ Mark
    \/ PidWaits \/ Pid
    \/ motor_run

Spec == Init /\ [][Next]_vars
-----------------------------------------------------------------------------
\* Every variable has its type; the conversions keep the speeds in 16 bits, and
\* the controller stays within its limits whatever it was fed.
TypeOK ==
    /\ position \in Int /\ pending \subseteq Line /\ late \in BOOLEAN
    /\ last_value \in 0..3 /\ pulse_count \in Int /\ last_count \in Int
    /\ last_time \in Int /\ cps \in Int
    /\ target \in Int /\ output \in Int
    /\ error_l \in Int /\ error_ll \in Int /\ last_out \in Int
    /\ pid_last_time \in Int /\ tick \in Int
    /\ -Limit <= last_out /\ last_out <= Limit
    /\ thread \in {"idle", "mark", "pid", "run"} /\ speed \in Int
    /\ measured \in Int /\ skipped \in Int /\ error_sum \in Int /\ clamped \in BOOLEAN

\* The distance the wheel has turned is the sum of the differences that became a
\* speed, what is counted since, what is waiting to be served, and the counts the
\* two reads of pulse_count lost, as long as the handler serves an edge before the
\* next one comes.
DistanceMeasured ==
    ~late /\ pending = {} =>
        position = measured + skipped +
                   IF thread = "mark" THEN 0 ELSE pulse_count - last_count

\* The increments of inc_pid_controller_update add up to the positional law of
\* the textbooks: until it meets a limit the output is the weighted sum of the
\* last error, of all errors and of the last difference.
PidIsPositional ==
    ~clamped => last_out = Kp * error_l + Ki * error_sum + Kd * (error_l - error_ll)
=============================================================================
