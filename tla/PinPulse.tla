------------------------------- MODULE PinPulse -------------------------------
(***************************************************************************)
(* The application pin_pulse: pulse-width modulation of a pin, the share   *)
(* of the time the level is high growing and shrinking by a step per       *)
(* period.  The ratio is counted in parts of Unit.                         *)
(***************************************************************************)
EXTENDS Integers

CONSTANTS
    Unit,            \* a ratio of 1.0
    PulseConfigs     \* configurations: [periods |-> number of periods per pulse], or
                     \* [periods |-> Invalid] if one of the two values is zero

Invalid == -1

ASSUME UnitAssumption == Unit \in Nat \ {0}
ASSUME PulseConfigsAssumption ==
    \A c \in PulseConfigs : c.periods \in Nat \union {Invalid}

VARIABLES
    periods,    \* _periods_per_pulse of the current configuration
    direction,  \* _direction
    signal,     \* _curr_signal, which the pin has as well
    ratio,      \* _low_high_ratio
    delay,      \* the timer: until it fires, as a share of the period; 0 fires at once
    armed       \* whether it is going to fire

pulseVars == <<periods, direction, signal, ratio, delay, armed>>

\* A pulse shorter than a period has 0 periods and an infinite step
_ratio_step(n) == IF n = 0 THEN 2 * Unit ELSE Unit \div n

\* Adjust the ratio, schedule the falling edge
RisingEdge_Unclamped(n) ==
    LET r == ratio + (IF direction = "UP" THEN _ratio_step(n) ELSE -_ratio_step(n))
    IN  /\ ratio' = r
        /\ direction' = IF r > Unit THEN "DOWN" ELSE IF r < 0 THEN "UP" ELSE direction
        /\ delay' = ratio'
RisingEdge(n) ==
    LET r == ratio + (IF direction = "UP" THEN _ratio_step(n) ELSE -_ratio_step(n))
    IN  /\ ratio' = IF r > Unit THEN Unit ELSE IF r < 0 THEN 0 ELSE r
        /\ direction' = IF r > Unit THEN "DOWN" ELSE IF r < 0 THEN "UP" ELSE direction
        /\ delay' = ratio'

\* Schedule the rising edge
FallingEdge ==
    /\ delay' = Unit - ratio
    /\ UNCHANGED <<ratio, direction>>

HandleTimer(n) ==
    IF n = Invalid THEN UNCHANGED <<direction, signal, ratio, delay, armed>>
    ELSE /\ IF signal THEN FallingEdge ELSE RisingEdge(n)
         /\ signal' = ~signal
         /\ armed' = TRUE

Timeout ==
    /\ armed
    /\ IF periods = Invalid
       THEN armed' = FALSE /\ UNCHANGED <<direction, signal, ratio, delay>>
       ELSE HandleTimer(periods)
    /\ UNCHANGED periods

\* _handle_config ends with _handle_timer
HandleConfig(c) ==
    /\ periods' = c.periods
    /\ HandleTimer(c.periods)

\* Main::Main.  The timer is started by the first configuration, and fires only
\* once its signal handler has been registered.
PulseInit ==
    /\ periods = Invalid /\ direction = "UP" /\ signal = FALSE
    /\ ratio = 0 /\ delay = 0 /\ armed = FALSE

PulseNext == Timeout \/ \E c \in PulseConfigs : HandleConfig(c)

PulseFairness == WF_pulseVars(Timeout)

PulseSpec == PulseInit /\ [][PulseNext]_pulseVars /\ PulseFairness

(* Properties *)

\* Whatever configurations come at whatever phase, the ratio stays between 0
\* and 1.0, so that no negative time is converted to unsigned and handed to the
\* timer (trigger_once).
RatioInRange == ratio \in 0 .. Unit /\ delay \in 0 .. Unit

\* As long as the configuration is valid the brightness swells up and down again,
\* also after an invalid one had stopped the timer.
Pulsates ==
    <>[](periods # Invalid) => []<>(ratio = Unit /\ signal) /\ []<>(ratio = 0)

================================================================================
