-------------------------------- MODULE PinIrq --------------------------------
(***************************************************************************)
(* Interrupts of pins: from a change of the level at the pin through the   *)
(* registers of the PIO device, the interrupt controller, the pin driver   *)
(* and its IRQ sessions to the application pin_event, which logs the level.*)
(*                                                                         *)
(* A bank has one interrupt and one status register.  The level may change *)
(* between any two steps of the software.                                  *)
(***************************************************************************)
EXTENDS FiniteSets

CONSTANTS
    Pins,       \* pins with an IRQ session and a pin_event application each
    Trigger,    \* Irq_trigger of each pin
    Bank        \* bank of each pin

ASSUME TriggerAssumption ==
    Trigger \in [Pins -> {"RISING", "FALLING", "HIGH", "LOW", "EDGES"}]

Level == {"LOW", "HIGH"}
Banks == {Bank[p] : p \in Pins}
PinsOf(b) == {p \in Pins : Bank[p] = b}

VARIABLES
    level,     \* level at each pin
    status,    \* interrupt status of each pin
    control,   \* pins whose interrupts are delivered to the bank's interrupt
    gic,       \* each bank's interrupt at the GIC: "open"; "signalled" to the driver;
               \* "masked" until the driver acknowledges it
    notified,  \* applications with a pending signal
    app,       \* each application: "waiting" or "acked", about to read the state
    logged     \* what each application logged last

irqVars == <<level, status, control, gic, notified, app, logged>>

(* The PIO device (Irq_regs) *)

Fires(p, l) ==
    \/ Trigger[p] = "EDGES"
    \/ Trigger[p] \in {"RISING", "HIGH"} /\ l = "HIGH"
    \/ Trigger[p] \in {"FALLING", "LOW"} /\ l = "LOW"

\* A status that is cleared is set again at once while its level is still there
Persists(p) == Trigger[p] \in {"HIGH", "LOW"} /\ level[p] = Trigger[p]

Change(p) ==
    /\ level' = [level EXCEPT ![p] = IF @ = "LOW" THEN "HIGH" ELSE "LOW"]
    /\ status' = IF Fires(p, level'[p]) THEN status \union {p} ELSE status
    /\ UNCHANGED <<control, gic, notified, app, logged>>

irq_pending(p) == p \in status
Pending == {p \in Pins : irq_pending(p)}

\* A bit is set with the others of the register as they are read (Register_array),
\* and each bit that is written as 1 is cleared.
clear_irq_status(p) == (status \ PinsOf(Bank[p])) \union {q \in PinsOf(Bank[p]) : Persists(q)}

irq_enabled(p, enabled) == IF enabled THEN control \union {p} ELSE control \ {p}

\* The GIC signals the interrupt to the driver and masks it until it is acknowledged
Signal(b) ==
    /\ gic[b] = "open" /\ status \intersect control \intersect PinsOf(b) # {}
    /\ gic' = [gic EXCEPT ![b] = "signalled"]
    /\ UNCHANGED <<level, status, control, notified, app, logged>>

(* The pin driver *)

\* Main::handle_irq: whatever the bank, the sessions whose pin is pending get a signal, and no
\* further interrupt until they have acknowledged this one.
deliver_pin_irqs ==
    /\ notified' = notified \union Pending
    /\ control' = control \ Pending

HandleIrq(b) ==
    /\ gic[b] = "signalled"
    /\ deliver_pin_irqs
    /\ gic' = [gic EXCEPT ![b] = "open"]
    /\ UNCHANGED <<level, status, app, logged>>

\* The RPC ack_irq of the IRQ session
AckIrq(p) ==
    /\ status' = clear_irq_status(p)
    /\ control' = irq_enabled(p, TRUE)

(* The application pin_event *)

AppHandleIrq_ReadFirst(p) ==
    \/ /\ p \in notified /\ app[p] = "waiting"
       /\ logged' = [logged EXCEPT ![p] = level[p]]
       /\ app' = [app EXCEPT ![p] = "acked"] /\ notified' = notified \ {p}
       /\ UNCHANGED <<level, status, control, gic>>
    \/ /\ app[p] = "acked"
       /\ AckIrq(p)
       /\ app' = [app EXCEPT ![p] = "waiting"]
       /\ UNCHANGED <<level, gic, notified, logged>>
\* Main::_handle_irq acknowledges the interrupt, then reads and logs the state
AppHandleIrq(p) ==
    \/ /\ p \in notified /\ app[p] = "waiting"
       /\ AckIrq(p)
       /\ notified' = notified \ {p}
       /\ app' = [app EXCEPT ![p] = "acked"]
       /\ UNCHANGED <<level, gic, logged>>
    \/ /\ app[p] = "acked"
       /\ logged' = [logged EXCEPT ![p] = level[p]]
       /\ app' = [app EXCEPT ![p] = "waiting"]
       /\ UNCHANGED <<level, status, control, gic, notified>>

\* The driver has declared the pins, each application has acknowledged once
\* (Main::Main) and logged nothing yet; pins with a triggering level are pending.
IrqInit ==
    /\ level \in [Pins -> Level]
    /\ status = {p \in Pins : Persists(p)}
    /\ control = Pins
    /\ gic = [b \in Banks |-> "open"]
    /\ notified = {}
    /\ app = [p \in Pins |-> "waiting"]
    /\ logged = level

IrqNext ==
    \/ \E b \in Banks : Signal(b) \/ HandleIrq(b)
    \/ \E p \in Pins : Change(p) \/ AppHandleIrq(p)

IrqSpec == IrqInit /\ [][IrqNext]_irqVars

\* The GIC, the driver and the applications make progress; levels change as they like
IrqFairness ==
    /\ \A b \in Banks : WF_irqVars(Signal(b)) /\ WF_irqVars(HandleIrq(b))
    /\ \A p \in Pins : WF_irqVars(AppHandleIrq(p))

IrqFairSpec == IrqSpec /\ IrqFairness

(* Properties *)

\* With a trigger at both edges, what was logged last is finally the level of a
\* pin that has settled, however short the pulses before were (README of the pin
\* driver: "triggered on both rising and falling signal edges").
LastEdgeLogged ==
    \A p \in Pins : Trigger[p] = "EDGES" =>
        \A l \in Level : <>[](level[p] = l) => <>[](logged[p] = l)

\* An application with a level trigger hears about the level again and again as
\* long as it lasts.
LevelRepeated ==
    \A p \in Pins : Trigger[p] \in Level =>
        (<>[](level[p] = Trigger[p]) => []<>(app[p] = "acked"))

\* An application is not disturbed for ever by a pin that has settled on a level
\* that does not trigger, however often other pins do.
QuietWhenSettled ==
    \A p \in Pins : Trigger[p] # "EDGES" =>
        \A l \in Level : ~Fires(p, l) /\ <>[](level[p] = l) => <>[](app[p] = "waiting")
================================================================================
