------------------------------- MODULE PowerMain -------------------------------
(***************************************************************************)
(* The power driver of the PinePhone: interrupts of the power-management   *)
(* IC (PMIC), periodic polling, and the settings of the system ROM.        *)
(*                                                                         *)
(* A handler is a list of steps (todo), most of them programs executed by  *)
(* the SCP; those that write several registers take a step for each.  One  *)
(* handler runs at a time, and the PMIC and the user act at any time.      *)
(***************************************************************************)
EXTENDS Integers, Sequences

CONSTANT Systems   \* contents of the system ROM: [state, profile, brightness]

Profiles == {"performance", "economic", "none"}

ASSUME SystemsAssumption ==
    Systems \subseteq [state : {"", "reset", "poweroff"}, profile : Profiles,
                       brightness : 0 .. 100]

VARIABLES
    todo,       \* remaining steps of the handler that runs
    pmic,       \* the PMIC: power sources, pending interrupts, limit of the charge
                \* current, and the charging state in which the gauge was enabled;
                \* raced: charging changed while a poll had read it and not finished
    gic,        \* interrupt at the GIC: "open", or "masked" until acknowledged
    rintc,      \* the signal of the interrupt is pending
    board,      \* "running", "reset", "off"; clock of the CPU and its voltage
    pwm,        \* phase of the backlight, 0 .. 1023
    system,     \* the system ROM
    configured, \* whether the system ROM is configured
    changed,    \* pending signals of the two ROMs
    main,       \* members of Main: _pmic_info and that before, _power_profile, _brightness
    report,     \* the power report
    pressed     \* short presses that the handler could still report

powerVars == <<todo, pmic, gic, rintc, board, pwm, system, configured, changed, main, report, pressed>>
environment == <<system, configured, changed>>

Sources(r) == [ac |-> r.ac, charging |-> r.charging]

Idle == todo = <<>>
Running == board.power = "running"

(* PMIC, power button and interrupt controllers *)

\* Each event sets an interrupt status; charging stops when the charger goes
Irq == pmic.pok \/ pmic.event

Polled == {"power_info", "gauge"} \intersect {todo[i] : i \in 1 .. Len(todo)} = {"gauge"}

PlugOrUnplug ==
    /\ Running
    /\ pmic' = [pmic EXCEPT !.ac = ~@, !.charging = FALSE, !.event = TRUE,
                            !.raced = @ \/ (pmic.charging /\ Polled)]
    /\ UNCHANGED <<todo, gic, rintc, board, pwm, environment, main, report, pressed>>

StartCharging ==
    /\ Running /\ pmic.ac /\ ~pmic.charging
    /\ pmic' = [pmic EXCEPT !.charging = TRUE, !.event = TRUE, !.raced = @ \/ Polled]
    /\ UNCHANGED <<todo, gic, rintc, board, pwm, environment, main, report, pressed>>

ShortPress ==
    /\ Running
    /\ pmic' = [pmic EXCEPT !.pok = TRUE]
    /\ pressed' = TRUE
    /\ UNCHANGED <<todo, gic, rintc, board, pwm, environment, main, report>>

\* The R_INTC forwards the level of the PMIC's interrupt
SignalRintc ==
    /\ Running /\ Irq /\ gic = "open"
    /\ gic' = "masked" /\ rintc' = TRUE
    /\ UNCHANGED <<todo, pmic, board, pwm, environment, main, report, pressed>>

(* _handle_rintc *)

HandleRintc_ClearFirst ==
    /\ Running /\ Idle /\ rintc
    /\ rintc' = FALSE
    /\ todo' = <<"clear_pmic_irqs", "read_pok", "ack", "report_now">>
    /\ UNCHANGED <<pmic, gic, board, pwm, environment, main, report, pressed>>
HandleRintc ==
    /\ Running /\ Idle /\ rintc
    /\ rintc' = FALSE
    /\ todo' = <<"read_pok", "clear_pmic_irqs", "ack", "report_now">>
    /\ UNCHANGED <<pmic, gic, board, pwm, environment, main, report, pressed>>

\* Submits press and release of KEY_POWER
ReadPok ==
    /\ Head(todo) = "read_pok"
    /\ todo' = IF pmic.pok THEN <<"clear_pok">> \o Tail(todo) ELSE Tail(todo)
    /\ pressed' = (pressed /\ ~pmic.pok)
    /\ UNCHANGED <<pmic, gic, rintc, board, pwm, main, report>>

ClearPok ==
    /\ Head(todo) = "clear_pok"
    /\ pmic' = [pmic EXCEPT !.pok = FALSE]
    /\ todo' = Tail(todo)
    /\ UNCHANGED <<gic, rintc, board, pwm, main, report, pressed>>

ClearPmicIrqs ==
    /\ Head(todo) = "clear_pmic_irqs"
    /\ pmic' = [pmic EXCEPT !.pok = FALSE, !.event = FALSE]
    /\ todo' = Tail(todo)
    /\ UNCHANGED <<gic, rintc, board, pwm, main, report, pressed>>

Ack ==
    /\ Head(todo) = "ack"
    /\ gic' = "open"
    /\ todo' = Tail(todo)
    /\ UNCHANGED <<pmic, rintc, board, pwm, main, report, pressed>>

\* _update_power_report
UpdateReport ==
    /\ Head(todo) \in {"report", "report_now"}
    /\ report' = [sources |-> main.info, brightness |-> (pwm * 100) \div 1024]
    /\ todo' = Tail(todo)
    /\ UNCHANGED <<pmic, gic, rintc, board, pwm, main, pressed>>

(* _handle_timer *)

HandlePollTimer ==
    /\ Running /\ Idle
    /\ todo' = <<"power_info", "report", "limit", "gauge">>
    /\ UNCHANGED <<pmic, gic, rintc, board, pwm, environment, main, report, pressed>>

PowerInfo ==
    /\ Head(todo) = "power_info"
    /\ main' = [main EXCEPT !.info = Sources(pmic), !.orig = main.info]
    /\ pmic' = [pmic EXCEPT !.raced = @ /\ pmic.charging = main.info.charging]
    /\ todo' = Tail(todo)
    /\ UNCHANGED <<gic, rintc, board, pwm, report, pressed>>

RaiseLimit ==
    /\ Head(todo) = "limit"
    /\ pmic' = IF ~main.orig.ac /\ main.info.ac THEN [pmic EXCEPT !.limit = 1500] ELSE pmic
    /\ todo' = Tail(todo)
    /\ UNCHANGED <<gic, rintc, board, pwm, main, report, pressed>>

EnableGauge ==
    /\ Head(todo) = "gauge"
    /\ pmic' = IF main.orig.charging # main.info.charging
               THEN [pmic EXCEPT !.gauge = pmic.charging] ELSE pmic
    /\ main' = [main EXCEPT !.orig = main.info]
    /\ todo' = Tail(todo)
    /\ UNCHANGED <<gic, rintc, board, pwm, report, pressed>>

(* _handle_config and _apply_system *)

SetSystem(s) ==
    /\ Running /\ s # system
    /\ system' = s /\ changed' = TRUE
    /\ UNCHANGED <<todo, pmic, gic, rintc, board, pwm, configured, main, report, pressed>>

SetConfigured ==
    /\ Running
    /\ configured' = ~configured /\ changed' = TRUE
    /\ UNCHANGED <<todo, pmic, gic, rintc, board, pwm, system, main, report, pressed>>

\* The programs as the registers they write
PowerSteps(state) ==
    CASE state = "reset" -> <<"reset">> [] state = "poweroff" -> <<"off">> [] OTHER -> <<>>
ProfileSteps_VoltageFirst(profile) ==
    CASE profile = "performance" -> <<"high", "fast">>
      [] profile = "economic"    -> <<"mid", "slow", "low">>
      [] OTHER                   -> <<>>
ProfileSteps(profile) ==
    CASE profile = "performance" -> <<"high", "fast">>
      [] profile = "economic"    -> <<"slow", "mid", "low">>
      [] OTHER                   -> <<>>

ApplySystem_OneChange ==
    /\ main' = [main EXCEPT !.profile = system.profile, !.brightness = system.brightness]
    /\ todo' = PowerSteps(system.state) \o
               (IF system.profile # main.profile THEN ProfileSteps(system.profile)
                ELSE IF system.brightness # main.brightness THEN <<"brightness", "report">> ELSE <<>>)
ApplySystem ==
    /\ main' = [main EXCEPT !.profile = system.profile, !.brightness = system.brightness]
    /\ todo' = PowerSteps(system.state) \o
               (IF system.profile # main.profile THEN ProfileSteps(system.profile) ELSE <<>>) \o
               (IF system.brightness # main.brightness THEN <<"brightness", "report">> ELSE <<>>)

HandleConfig ==
    /\ Running /\ Idle /\ changed
    /\ changed' = FALSE
    /\ IF configured THEN ApplySystem ELSE UNCHANGED <<main, todo>>
    /\ UNCHANGED <<pmic, gic, rintc, board, pwm, system, configured, report, pressed>>

Register(write) ==
    CASE write \in {"reset", "off"}       -> "power"
      [] write \in {"fast", "slow"}       -> "clock"
      [] write \in {"high", "mid", "low"} -> "voltage"
      [] OTHER                            -> "none"

WriteBoard ==
    /\ Register(Head(todo)) # "none"
    /\ board' = [board EXCEPT ![Register(Head(todo))] = Head(todo)]
    /\ todo' = Tail(todo)
    /\ UNCHANGED <<pmic, gic, rintc, pwm, main, report, pressed>>

WriteBrightness ==
    /\ Head(todo) = "brightness"
    /\ pwm' = (main.brightness * 1023) \div 100
    /\ todo' = Tail(todo)
    /\ UNCHANGED <<pmic, gic, rintc, board, main, report, pressed>>

Step ==
    /\ Running /\ ~Idle
    /\ \/ ReadPok \/ ClearPok \/ ClearPmicIrqs \/ Ack \/ UpdateReport
       \/ PowerInfo \/ RaiseLimit \/ EnableGauge \/ WriteBoard \/ WriteBrightness
    /\ UNCHANGED environment

PowerInit ==
    /\ todo = <<>>
    /\ pmic = [ac |-> FALSE, charging |-> FALSE, pok |-> FALSE, event |-> FALSE,
               gauge |-> FALSE, limit |-> 500, raced |-> FALSE]
    /\ gic = "open" /\ rintc = FALSE
    /\ board = [power |-> "running", clock |-> "slow", voltage |-> "mid"]
    /\ pwm = 0
    /\ system \in Systems /\ configured = FALSE /\ changed = FALSE
    /\ main = [info |-> Sources(pmic), orig |-> Sources(pmic), profile |-> "none", brightness |-> 0]
    /\ report = [sources |-> Sources(pmic), brightness |-> 0]
    /\ pressed = FALSE

PowerNext ==
    \/ PlugOrUnplug \/ StartCharging \/ ShortPress \/ SignalRintc
    \/ HandleRintc \/ HandlePollTimer \/ HandleConfig \/ Step
    \/ SetConfigured \/ \E s \in Systems : SetSystem(s)

\* The entrypoint handles signals in the order of their arrival: none is
\* overtaken for ever (strong: a handler disables the others).
PowerFairness ==
    /\ WF_powerVars(SignalRintc) /\ WF_powerVars(Step)
    /\ SF_powerVars(HandleRintc) /\ SF_powerVars(HandlePollTimer) /\ SF_powerVars(HandleConfig)

PowerSpec == PowerInit /\ [][PowerNext]_powerVars /\ PowerFairness

(* Properties *)

\* The processor never runs at the high frequency without the increased voltage,
\* not even between two register writes of a profile change (_apply_system).
FastNeedsVoltage == board.clock = "fast" => board.voltage = "high"

\* A press of the power button is reported unless it falls between the reading of
\* its status bit and the clearing of all bits of the same run of the handler.
PressReported == (pressed /\ pmic.pok /\ Idle) ~> (~pressed \/ ~Running)

\* When the power sources have settled, polling brings the report, the gauge and
\* the charge limit in line with them, whatever happened between two polls; the
\* gauge is left behind only if charging changes twice around the end of a poll.
PollingFollows ==
    \A x \in {s \in [ac : BOOLEAN, charging : BOOLEAN] : s.charging => s.ac} :
        <>[](Running /\ Sources(pmic) = x) =>
            <>[](/\ report.sources = x
                 /\ pmic.gauge = x.charging \/ pmic.raced
                 /\ x.ac => pmic.limit = 1500)

\* The last profile and brightness of the system ROM are applied, and requests to
\* reset or power off are honoured, also when they come with other changes or
\* while the handlers are busy.
SettingsApplied ==
    \A s \in Systems :
        <>[](configured /\ system = s) =>
            <>[](\/ ~Running
                 \/ /\ s.state = ""
                    /\ s.profile = "performance" => board.clock = "fast"
                    /\ s.profile = "economic" => board.clock = "slow" /\ board.voltage = "low"
                    /\ pwm = (s.brightness * 1023) \div 100)

\* What the world and the configuration settle on takes effect in the end.
PowerFollows == PollingFollows /\ SettingsApplied

================================================================================
