------------------------------ MODULE ButtonDriver ------------------------------
(***************************************************************************)
(* The driver of the PinePhone's volume buttons: the key ADC has one value *)
(* for the pressed key, and raises an interrupt when a key goes down or up.*)
(* The user acts between any two steps of the driver.                      *)
(***************************************************************************)

Keys == {"volume_up", "volume_down"}

VARIABLES
    key,         \* the key that is pressed, or "none"; the value of the ADC
    ints,        \* interrupt status of the ADC
    irq,         \* interrupt at the GIC: "open", "signalled", "masked"
    step,        \* step of handle_data: "idle", "read", "cleared"
    _key_state,  \* the keys the driver takes for pressed
    shown,       \* keys down according to the events, in the view of their receiver
    missed       \* the key changed after its last reading, before ints was cleared

buttonVars == <<key, ints, irq, step, _key_state, shown, missed>>

ChangeKey ==
    /\ key' \in (Keys \union {"none"}) \ {key}
    /\ ints' = TRUE
    /\ missed' = (step = "read")
    /\ UNCHANGED <<irq, step, _key_state, shown>>

SignalKeyadc ==
    /\ ints /\ irq = "open"
    /\ irq' = "signalled"
    /\ UNCHANGED <<key, ints, step, _key_state, shown, missed>>

Pressed(data) == IF data = "none" THEN {} ELSE {data}

\* The data is read and the batch of press and release events submitted
ReadData ==
    /\ irq = "signalled" /\ step = "idle"
    /\ irq' = "masked" /\ step' = "read"
    /\ _key_state' = Pressed(key)
    /\ shown' = (shown \ (_key_state \ _key_state')) \union (_key_state' \ _key_state)
    /\ UNCHANGED <<key, ints, missed>>

ClearInts ==
    /\ step = "read"
    /\ ints' = FALSE /\ step' = "cleared"
    /\ UNCHANGED <<key, irq, _key_state, shown, missed>>

AckKeyadc ==
    /\ step = "cleared"
    /\ irq' = "open" /\ step' = "idle"
    /\ UNCHANGED <<key, ints, _key_state, shown, missed>>

\* Form with a plausible mistake: acknowledged at the GIC, not at the device
HandleData_WithoutClear ==
    \/ ReadData
    \/ /\ step = "read"
       /\ irq' = "masked" /\ step' = "idle" /\ ints' = FALSE
       /\ UNCHANGED <<key, _key_state, shown, missed>>
HandleData == ReadData \/ ClearInts \/ AckKeyadc

ButtonInit ==
    /\ key = "none" /\ ints = FALSE /\ irq = "open" /\ step = "idle"
    /\ _key_state = {} /\ shown = {} /\ missed = FALSE

ButtonNext == ChangeKey \/ SignalKeyadc \/ HandleData

ButtonFairness == WF_buttonVars(SignalKeyadc) /\ WF_buttonVars(HandleData)

ButtonSpec == ButtonInit /\ [][ButtonNext]_buttonVars /\ ButtonFairness

(* Properties *)

\* A key that stays pressed, or released, is finally shown as such, unless it
\* changed between the reading of the data and the clearing of the interrupt
\* status, where nothing tells the driver (handle_data).
KeyFinallyShown ==
    \A k \in Keys \union {"none"} :
        <>[](key = k) => <>[](shown = Pressed(k) \/ missed)
================================================================================
