----------------------------- MODULE MCAtProtocol ------------------------------
(* Instances of AtProtocol for model checking. *)
EXTENDS AtProtocol

CONSTANTS usbnet, smsri, good, bad, n1

Cfg(pin, off, call, ring) == [pin |-> pin, off |-> off, call |-> call, ring |-> ring]
Call(n, state) == [number |-> n, state |-> state]

MCNoEntries == {}
MCEntries == {usbnet, smsri}
MCPins == {good, bad}
MCNumbers == {n1}

MCNone == {}
MCSlow == {"set_pin", "power_down"}
MCQueryErrors == {"query_qcfg"}
MCErrors == {"query_qcfg", "power_down"}

\* Start-up without a PIN, with a wrong or the right PIN, power off
MCStartup == {Cfg(None, FALSE, None, FALSE), Cfg(bad, FALSE, None, FALSE),
              Cfg(good, FALSE, None, FALSE), Cfg(good, TRUE, None, FALSE)}
\* The right PIN, power on and off
MCGoodPin == {Cfg(good, FALSE, None, FALSE), Cfg(good, TRUE, None, FALSE)}
\* No call, a call to be initiated, accepted or rejected, with a sound when it
\* rings and without
CallConfigs(ring) ==
    {Cfg(good, FALSE, call, ring) :
        call \in {None} \union {Call(n1, state) : state \in {"none", "accepted", "rejected"}}}
MCCalls == CallConfigs(TRUE)
MCSilentCalls == CallConfigs(FALSE)

================================================================================
