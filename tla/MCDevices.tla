------------------------------- MODULE MCDevices -------------------------------
(***************************************************************************)
(* Devices that share nothing.  A behaviour is one of                      *)
(*   - the declarations and sessions of the pin driver, with an <out> pin  *)
(*     with and one without default, an <in> pin, two control sessions, an *)
(*     IRQ and a state session;                                            *)
(*   - the applications of a64_pio.run side by side: pin_event at two      *)
(*     pins, whose interrupts the driver handles, and pin_pulse;           *)
(*   - the camera driver;                                                  *)
(*   - the touchscreen driver;                                             *)
(*   - the audio control;                                                  *)
(*   - the line reader of the modem driver.                                *)
(***************************************************************************)
EXTENDS PioDriver, PinIrq, PinPulse, MCCamera, GoodixInput, LineBuffer,
        AudioCodec, TLC

CONSTANTS
    l1, l2, l3,      \* locations
    c1, c2, i1, s1,  \* sessions
    p, q             \* pins with a pin_event application

MCKind == (c1 :> "control") @@ (c2 :> "control") @@ (i1 :> "irq") @@ (s1 :> "state")

Out(default, id)  == [name |-> "led", fn |-> "OUTPUT", default |-> default, id |-> id]
Reset             == [name |-> "reset", fn |-> "OUTPUT", default |-> "HIGH_IMPEDANCE", id |-> l2]
In(fn)            == [name |-> "button", fn |-> fn, default |-> "HIGH_IMPEDANCE", id |-> l3]
Policy(a, b, c)   == (c1 :> a) @@ (c2 :> b) @@ (i1 :> c) @@ (s1 :> "button")

\* Names keep their location and direction; the first three are those of a64_pio.run
StableConfigs ==
    {[nodes |-> nodes, policy |-> policy] :
        nodes  \in {<<Out("HIGH_IMPEDANCE", l1), In("IRQ")>>, <<Out("LOW", l1), In("IRQ")>>,
                    <<Out("HIGH", l1), In("IRQ")>>, <<Out("HIGH", l1), Reset, In("INPUT")>>,
                    <<Out("LOW", None), Reset>>, <<In("IRQ"), Reset>>},
        policy \in {Policy("led", "reset", "button"), Policy("led", "led", None)}}

ASSUME StableConfigsAssumption ==
    /\ Stable(("led" :> l1) @@ ("reset" :> l2) @@ ("button" :> l3),
              ("led" :> "OUT") @@ ("reset" :> "OUT") @@ ("button" :> "IN"))
    /\ Countable

MCTrigger == (p :> "EDGES") @@ (q :> "HIGH")
TwoBanks  == (p :> "H") @@ (q :> "L")
MCConfigs == [periods : {Invalid, 0, 2}]

\* All bits cleared, all bits set
MCLeftovers == {[opcode \in 0 .. 14 |-> value] : value \in {0, 255}}

VARIABLE running   \* the driver, or "clients" of the pin driver

MCLevel == [pin \in Pins |-> "LOW"]
Running == {"pin", "clients", "camera", "touch", "lines", "audio_control"}

DevicesInit ==
    /\ Init /\ IrqInit /\ PulseInit /\ CameraInit /\ InputInit /\ LineInit
    /\ AudioControlInit
    /\ running \in Running
    /\ running # "camera"  => lx_config = NoRom
    /\ running # "clients" => level = MCLevel
    /\ running # "audio_control" => analog[0] = 0

Others(r) ==
    /\ r # "pin"     => UNCHANGED pioVars
    /\ r # "camera"  => UNCHANGED cameraVars
    /\ r # "touch"   => UNCHANGED inputVars
    /\ r # "lines"   => UNCHANGED lineVars
    /\ r # "clients" => UNCHANGED <<irqVars, pulseVars>>
    /\ r # "audio_control" => UNCHANGED audioVars

DevicesNext ==
    /\ \/ running = "pin"     /\ Next
       \/ running = "clients" /\ IrqNext /\ UNCHANGED pulseVars
       \/ running = "clients" /\ PulseNext /\ UNCHANGED irqVars
       \/ running = "camera"  /\ CameraNext
       \/ running = "touch"   /\ InputNext
       \/ running = "lines"   /\ LineNext
       \/ running = "audio_control" /\ AudioControlNext
    /\ Others(running)
    /\ UNCHANGED running

DevicesSpec ==
    /\ DevicesInit
    /\ [][DevicesNext]_<<pioVars, irqVars, pulseVars, cameraVars, inputVars, lineVars, audioVars,
                     running>>
    /\ running = "clients" => IrqFairness /\ PulseFairness
    /\ running = "camera"  => CameraFairness

(***************************************************************************)
(* In behaviours of another device, the applications stand still: what     *)
(* they promise is stated for their own behaviours.                        *)
(***************************************************************************)

\* The log of pin_event ends with the level of the pin, a level that persists is
\* logged again and again, a pin without events is left alone, and the pulse of
\* pin_pulse goes on and stays in its range, whatever is configured.
ClientsServed ==
    running = "clients" =>
        LastEdgeLogged /\ LevelRepeated /\ QuietWhenSettled /\ Pulsates /\ []RatioInRange
================================================================================
