-------------------------------- MODULE MCPhone --------------------------------
(***************************************************************************)
(* The drivers behind the buttons and the speakers of the phone.  They     *)
(* share nothing, so a behaviour is one of the power driver, one of the    *)
(* button driver or one of the audio driver.                               *)
(***************************************************************************)
EXTENDS PowerMain, ButtonDriver, AudioDriver

MCSystems == {[state |-> "", profile |-> "performance", brightness |-> 50],
              [state |-> "", profile |-> "economic", brightness |-> 100],
              [state |-> "poweroff", profile |-> "none", brightness |-> 50]}

VARIABLE running   \* the driver

PhoneInit == /\ PowerInit /\ ButtonInit /\ Init
             /\ running \in {"power", "button", "audio"}
             /\ running # "power" => system.state = "poweroff"

PhoneNext ==
    /\ \/ running = "power"  /\ PowerNext  /\ UNCHANGED <<buttonVars, vars>>
       \/ running = "button" /\ ButtonNext /\ UNCHANGED <<powerVars, vars>>
       \/ running = "audio"  /\ Next       /\ UNCHANGED <<powerVars, buttonVars>>
    /\ UNCHANGED running

PhoneSpec ==
    /\ PhoneInit /\ [][PhoneNext]_<<powerVars, buttonVars, vars, running>>
    /\ \/ running = "power"  /\ PowerFairness
       \/ running = "button" /\ ButtonFairness
       \/ running = "audio"  /\ Fairness
================================================================================
