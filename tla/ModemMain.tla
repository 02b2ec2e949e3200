------------------------------- MODULE ModemMain -------------------------------
(***************************************************************************)
(* Main program of the modem driver (modem/pinephone/main.cc) on top of    *)
(* the low-level power control (power.h).  Two state machines, power_state *)
(* of Main and power of Power, and the AT-protocol driver depend on each   *)
(* other; _handle_config runs them in a loop until they settle.            *)
(*                                                                         *)
(* The AT-protocol driver is reduced to what Main sees of it: which kind   *)
(* of command awaits its answer, whether a power-down is scheduled, and    *)
(* whether the modem has announced to be down (AtProtocol has the rest).   *)
(* Time passes in ticks of the 500 ms of the event timer.                  *)
(***************************************************************************)
EXTENDS Integers

CONSTANTS
    None,        \* no AT-protocol driver, no line received
    GraceTicks,  \* ticks of the 1000 ms after an AT shutdown
    LimitTicks,  \* ticks (more than one) until the AT shutdown is considered as failed
    Powers,      \* values of the power attribute: "on", "off", or "unset"
    MaxConfigs,  \* bound: number of configuration changes
    MaxBusy      \* bound: number of answers that tell that the modem is busy

ASSUME ModemMainAssumption ==
    /\ GraceTicks \in Nat \ {0} /\ LimitTicks \in Nat \ {0, 1}
    /\ Powers \subseteq {"on", "off", "unset"}
    /\ MaxConfigs \in Nat /\ MaxBusy \in Nat

VARIABLES
    config,       \* [power, at]: power on or off, with the AT protocol or without
    power_state,  \* Main::_power_state
    power,        \* Power::_state
    at,           \* the AT-protocol driver, None unless constructed
    age,          \* [shutdown, down, progress]: ticks since the recorded times
    timer,        \* Main::_timer_scheduled
    handling,     \* Main is within the loop of _handle_config
    before,       \* [busy, moved]: orig_busy_count, change of the AT version
    status,       \* status pin: the modem is on
    target,       \* what the modem has been told: to be on or off
    command,      \* kind of the last command that the modem has received, until answered
    line,         \* line from the modem that has not been read yet
    signal,       \* a signal of the terminal is pending
    announced,    \* observer: ticks since the modem has announced to be down
    left          \* configuration changes and busy answers that may still come

vars == <<config, power_state, power, at, age, timer, handling, before, status, target,
          command, line, signal, announced, left>>

--------------------------------------------------------------------------------
(* AT-protocol driver *)

AtDriver == [awaits : {"nothing", "other", "power_down"}, at_ok : BOOLEAN, ready : BOOLEAN,
             down : BOOLEAN, powered_down : BOOLEAN, busy : Nat, outbound : BOOLEAN]

\* What the modem sends
Lines == {"OK", "BUSY", "REBOOT", "POWERED DOWN"}

ASSUME NoneAssumption == None \notin AtDriver \cup Lines \cup {"other", "power_down"}

\* The kind of the command that awaits its answer, whether the modem reacts to AT
\* and has the echo turned off (ready), the power-down operation (down), ...
NewDriver == [awaits |-> "other", at_ok |-> FALSE, ready |-> FALSE, down |-> FALSE,
              powered_down |-> FALSE, busy |-> 0, outbound |-> FALSE]

PoweringDown(d) == d.down /\ ~d.powered_down
Outstanding(d)  == d # None /\ d.awaits # "nothing"
BusyCount(d)    == IF d = None THEN 0 ELSE d.busy

\* The command in flight is answered or cancelled; its operation is gone
Finished(d) == [d EXCEPT !.awaits = "nothing", !.down = @ /\ d.awaits # "power_down"]

\* Status and Control take the line l; the reboot of the modem drops everything
Read(d, l) ==
    CASE l = "OK"           -> [Finished(d) EXCEPT !.at_ok = TRUE, !.ready = TRUE]
      [] l = "REBOOT"       -> [Finished(d) EXCEPT !.at_ok = FALSE, !.ready = FALSE,
                                                   !.down = FALSE]
      [] l = "BUSY"         -> [Finished(d) EXCEPT !.busy = @ + 1]
      [] l = "POWERED DOWN" -> [d EXCEPT !.powered_down = TRUE]
      [] OTHER              -> d

\* Control schedules a power-down once the modem takes commands; it does not
\* withdraw it
Scheduled(d) ==
    [d EXCEPT !.down = @ \/ (config.power = "off" /\ d.ready /\ ~d.powered_down)]

\* It submits AT, the power-down, another command if there is any; a call may
\* begin or end
Submissions(d) ==
    IF d.awaits # "nothing" THEN {d}
    ELSE { [d EXCEPT !.awaits = a, !.outbound = o] :
             a \in IF ~d.at_ok \/ ~d.ready THEN {"other"}
                   ELSE IF d.down THEN {"power_down"} ELSE {"nothing", "other"},
             o \in BOOLEAN }

\* A command has been submitted between reading l in the state d and reaching e
Sent(d, l, e) == Read(d, l).awaits = "nothing" /\ e.awaits # "nothing"

\* Driver::apply
Applied(d, l) == Submissions(Scheduled(Read(d, l)))

--------------------------------------------------------------------------------
(* Power *)

\* _drive_power_up and _drive_power_down, repeated by power_enabled until the
\* state does not change any more
PowerUp(p) ==
    CASE p = "OFF"         -> IF status THEN "ON" ELSE "STARTING_UP"
      [] p = "STARTING_UP" -> IF status THEN "ON" ELSE p
      [] OTHER             -> p

PowerDown(p) ==
    CASE p \in {"STARTING_UP", "ON", "SHUTTING_DOWN"} ->
            IF status THEN "SHUTTING_DOWN" ELSE "OFF"
      [] OTHER -> p

Probed == IF power = "UNKNOWN" THEN (IF status THEN "ON" ELSE "OFF") ELSE power

PowerEnabled(enabled) == IF enabled THEN PowerUp(Probed) ELSE PowerDown(Probed)

\* The power key is pressed on leaving these states
KeyPressed(enabled) ==
    IF enabled THEN Probed = "OFF" ELSE Probed \in {"STARTING_UP", "ON"}

--------------------------------------------------------------------------------
(* Main *)

ShuttingDown(ps) == ps \in {"AT_SHUTDOWN", "AT_GRACE_DELAY", "POWERING_OFF"}
Drives(ps) == ps \in {"AT_PROTOCOL", "AT_SHUTDOWN"}

Off == config.power = "off"

\* A state of the machine of _apply_power_state
Same == [ps |-> power_state, power |-> power, at |-> at, age |-> age]

\* Cases AT_PROTOCOL and AT_BUSY
AtProtocolCase(s) ==
    IF ~Off THEN s
    ELSE LET s1 == [s EXCEPT !.age.shutdown = 0]
         IN  IF s.at = None THEN [s1 EXCEPT !.ps = "POWERING_OFF"]
             ELSE IF PoweringDown(s.at) \/ s.at.powered_down
             THEN [s1 EXCEPT !.ps = "AT_SHUTDOWN"]
             ELSE s1

\* Case POWERING_ON falls through, to allow triggering a power-off during startup
PoweringOnCase(s) ==
    LET s1 == [s EXCEPT !.power = PowerEnabled(TRUE)]
    IN  AtProtocolCase(
            IF s1.power # "ON" THEN s1
            ELSE IF config.at THEN [s1 EXCEPT !.at = NewDriver, !.ps = "AT_PROTOCOL"]
            ELSE [s1 EXCEPT !.ps = "POWER_ON"])

LimitReached == age.shutdown >= LimitTicks

\* The AT driver is kept when the modem does not answer
AtShutdownCase_Hasty ==
    IF at # None /\ at.powered_down
    THEN [Same EXCEPT !.at = None, !.ps = "POWERING_OFF"]
    ELSE IF LimitReached THEN [Same EXCEPT !.ps = "POWERING_OFF"] ELSE Same
AtShutdownCase ==
    LET s == IF at # None /\ at.powered_down
             THEN [Same EXCEPT !.at = None, !.age.down = 0, !.ps = "AT_GRACE_DELAY"]
             ELSE Same
    IN  IF LimitReached THEN [s EXCEPT !.ps = "POWERING_OFF"] ELSE s

PoweringOffCase_Impatient ==
    [Same EXCEPT !.power = PowerEnabled(FALSE), !.ps = "POWER_OFF"]
PoweringOffCase ==
    [Same EXCEPT !.power = PowerEnabled(FALSE),
                 !.ps = IF PowerEnabled(FALSE) = "OFF" THEN "POWER_OFF" ELSE @]

\* _apply_power_state
ApplyPowerState ==
    CASE power_state \in {"UNKNOWN", "POWER_OFF"} ->
            IF config.power = "on" THEN [Same EXCEPT !.ps = "POWERING_ON"] ELSE Same
      [] power_state = "POWER_ON" ->
            IF Off THEN [Same EXCEPT !.ps = "POWERING_OFF", !.age.shutdown = 0] ELSE Same
      [] power_state = "POWERING_ON" -> PoweringOnCase(Same)
      [] power_state \in {"AT_PROTOCOL", "AT_BUSY"} -> AtProtocolCase(Same)
      [] power_state = "AT_SHUTDOWN" -> AtShutdownCase
      [] power_state = "AT_GRACE_DELAY" ->
            IF age.down >= GraceTicks THEN [Same EXCEPT !.ps = "POWERING_OFF"] ELSE Same
      [] power_state = "POWERING_OFF" -> PoweringOffCase

\* Terms of need_polling
PollingNeeded_NotDuringStartup(ps, d) ==
    ps = "AT_BUSY" \/ ShuttingDown(ps) \/ Outstanding(d) \/ (d # None /\ d.outbound)
PollingNeeded(ps, d) ==
    \/ ps \in {"POWERING_ON", "AT_BUSY"} \/ ShuttingDown(ps)
    \/ Outstanding(d) \/ (d # None /\ d.outbound)

\* The power key, if pressed in this step, tells the modem what to do
Press ==
    target' = IF power_state = "POWERING_ON" /\ KeyPressed(TRUE) THEN TRUE
              ELSE IF power_state = "POWERING_OFF" /\ KeyPressed(FALSE) THEN FALSE
              ELSE target

\* One iteration of the loop of _handle_config and, if it is the last one, the rest
Iterate ==
    /\ handling
    /\ Press
    /\ LET s     == ApplyPowerState
           fresh == power_state = "POWERING_ON" /\ s.ps = "AT_PROTOCOL"
           l     == IF fresh THEN None ELSE line
           drive == s.at # None /\ Drives(s.ps)
       IN  \E d \in IF drive THEN Applied(s.at, l) ELSE {s.at} :
             LET moved    == s.at # at \/ (drive /\ (l # None \/ Sent(s.at, l, d)))
                 progress == s.power # power \/ moved
                 busy     == /\ d # None /\ BusyCount(d) # before.busy
                             /\ ~PoweringDown(d)
                 continue == progress /\ ~busy
                 ps       == IF busy THEN "AT_BUSY" ELSE s.ps
             IN  /\ power' = s.power /\ at' = d /\ power_state' = ps
                 /\ command' = IF target' = FALSE THEN None
                               ELSE IF fresh \/ (drive /\ status /\ Sent(s.at, l, d))
                               THEN d.awaits ELSE command
                 /\ line' = IF drive \/ fresh THEN None ELSE line
                 /\ handling' = continue
                 /\ before' = [before EXCEPT !.moved = @ \/ moved]
                 /\ age' = IF ~continue /\ (before.moved \/ moved)
                           THEN [s.age EXCEPT !.progress = 0] ELSE s.age
                 /\ timer' = (timer \/ (~continue /\ PollingNeeded(ps, d)))
                 /\ announced' = IF fresh THEN None
                                 ELSE IF drive /\ l = "POWERED DOWN" THEN 0 ELSE announced
    /\ UNCHANGED <<config, status, signal, left>>

\* _handle_config up to the loop, in the driver state d
Handle(d) ==
    /\ ~handling
    /\ handling' = TRUE
    /\ before' = [busy |-> BusyCount(d), moved |-> FALSE]

HandleSignal ==
    /\ signal
    /\ signal' = FALSE
    /\ Handle(at)
    /\ UNCHANGED <<config, power_state, power, at, age, timer, status, target, command, line,
                   announced, left>>

SetConfig(c) ==
    /\ left.configs > 0 /\ c # config
    /\ config' = c
    /\ left' = [left EXCEPT !.configs = @ - 1]
    /\ Handle(at)
    /\ UNCHANGED <<power_state, power, at, age, timer, status, target, command, line, signal,
                   announced>>

Tick(n, limit) == IF n < limit THEN n + 1 ELSE n

\* A command is granted 600 ms
CommandTicks == 2

\* _handle_timer; a hang-up is granted 90 seconds
HandleTimer ==
    /\ timer
    /\ timer' = FALSE
    /\ age' = [shutdown |-> Tick(age.shutdown, LimitTicks),
               down     |-> Tick(age.down, GraceTicks),
               progress |-> Tick(age.progress, CommandTicks)]
    /\ announced' = IF announced = None THEN None ELSE Tick(announced, GraceTicks)
    /\ power_state' = IF power_state = "AT_BUSY" THEN "AT_PROTOCOL" ELSE power_state
    /\ \E hang_up \in BOOLEAN :
          at' = IF /\ Outstanding(at) /\ age'.progress >= CommandTicks
                   /\ ~(hang_up /\ at.awaits = "other")
                THEN [Finished(at) EXCEPT !.at_ok = FALSE] ELSE at
    /\ Handle(at')
    /\ UNCHANGED <<config, power, status, target, command, line, signal, left>>

--------------------------------------------------------------------------------
(* The modem, as its use by the driver suggests *)

\* Some time after it has been told to be on or off, the status pin tells so
StatusFollows ==
    /\ status # target
    /\ status' = target
    /\ UNCHANGED <<config, power_state, power, at, age, timer, handling, before, target,
                   command, line, signal, announced, left>>

\* A modem that is up answers a command; to the power-down it may stay silent
Answers ==
    CASE command = "power_down" -> {"POWERED DOWN", "BUSY"}
      [] command = "other"      -> {"OK", "BUSY", "REBOOT"}
      [] OTHER                  -> {}

Answer(l) ==
    /\ l \in Answers /\ line = None
    /\ l \in {"BUSY", "REBOOT"} => left.busy > 0
    /\ left' = IF l \in {"BUSY", "REBOOT"} THEN [left EXCEPT !.busy = @ - 1] ELSE left
    /\ target' = (l # "POWERED DOWN")
    /\ command' = None /\ line' = l /\ signal' = TRUE
    /\ UNCHANGED <<config, power_state, power, at, age, timer, handling, before, status,
                   announced>>

--------------------------------------------------------------------------------
Configs == [power : Powers, at : BOOLEAN]

Init ==
    /\ config \in Configs
    /\ power_state = "UNKNOWN" /\ power = "UNKNOWN" /\ at = None
    /\ age = [shutdown |-> 0, down |-> 0, progress |-> 0]
    /\ timer = FALSE /\ handling = TRUE /\ before = [busy |-> 0, moved |-> FALSE]
    /\ status \in BOOLEAN /\ target = status
    /\ command = None /\ line = None /\ signal = FALSE /\ announced = None
    /\ left = [configs |-> MaxConfigs, busy |-> MaxBusy]

Next ==
    \/ Iterate \/ HandleSignal \/ HandleTimer \/ StatusFollows
    \/ \E c \in Configs : SetConfig(c)
    \/ \E l \in Lines : Answer(l)

Spec == Init /\ [][Next]_vars

\* Signals and timeouts are handled, the loop of _handle_config ends (lines do not
\* arrive as fast as it iterates), the status pin follows, and the modem answers
\* all commands except for the power-down, to which it may stay silent.
Fairness ==
    /\ WF_vars(Iterate) /\ SF_handling(Iterate /\ ~handling')
    /\ SF_vars(HandleSignal) /\ SF_vars(HandleTimer)
    /\ WF_vars(StatusFollows) /\ SF_vars(Answer("OK"))

FairSpec == Spec /\ Fairness

--------------------------------------------------------------------------------
(* Properties *)

\* The two state machines agree: Main reaches its phases only in matching states
\* of the power control and of the AT driver.  (An AT driver left over from a
\* failed shutdown can be at work while the modem is starting up.)  A modem
\* reported to be off is off, according to its status pin, and stays off.
StatesAgree ==
    /\ power_state \in {"AT_PROTOCOL", "AT_BUSY"} => at # None
    /\ power_state \in {"AT_PROTOCOL", "AT_BUSY", "AT_SHUTDOWN", "AT_GRACE_DELAY"}
          => power \in {"STARTING_UP", "ON"}
    /\ power_state = "AT_GRACE_DELAY" => at = None
    /\ power_state = "POWER_ON" => power = "ON"
    /\ power_state = "POWERING_ON" => power # "SHUTTING_DOWN"
    /\ power_state = "POWERING_OFF" => power # "UNKNOWN"
    /\ power_state = "POWER_OFF" => power = "OFF"
    /\ power_state = "POWER_OFF" /\ ~handling => ~status /\ ~target

\* Once the modem has announced to be down, the power key is not touched for
\* another second (driver.h:265).
GraceObserved ==
    [][(power = "ON" /\ power' # "ON")
          => announced = None \/ announced >= GraceTicks]_vars

\* Switched off, the modem is finally off, at the latest when the polite
\* shutdown has timed out (or it has never been switched on).
PowerOffHonoured ==
    <>[](config.power = "off") => <>[](power_state \in {"UNKNOWN", "POWER_OFF"})

\* Switched on, the driver finally takes the modem for on, whatever it was
\* doing before.
PowerOnHonoured ==
    <>[](config.power = "on") => <>[](power_state \in {"AT_PROTOCOL", "AT_BUSY", "POWER_ON"})

\* The last request is honoured, whatever the modem was doing when it came.
PowerHonoured == PowerOffHonoured /\ PowerOnHonoured

================================================================================
