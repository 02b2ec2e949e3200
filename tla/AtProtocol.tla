------------------------------- MODULE AtProtocol ------------------------------
(***************************************************************************)
(* The AT-protocol driver (at_protocol/{driver,control,status,qcfg}.h) in  *)
(* dialogue with a modem that behaves like the one of the repository's     *)
(* test (test/at_protocol/modem.h), over a terminal that delays lines.     *)
(*                                                                         *)
(*   st   Status:  what the lines received from the modem tell             *)
(*   ct   Control: the operations, one command each, and their state       *)
(*                                                                         *)
(* Driver::apply reads the lines that have arrived and then applies the    *)
(* configuration once: a number of ReadLine steps followed by ApplyConfig, *)
(* with no timer in between.                                               *)
(***************************************************************************)
EXTENDS Integers, Sequences, FiniteSets, SequencesExt

CONSTANTS
    Configs,     \* configurations the user switches between
    Entries,     \* names of the Qcfg entries
    Pins,        \* PINs that appear in configurations
    GoodPin,     \* the PIN of the SIM card
    Numbers,     \* phone numbers
    None,        \* an object that is not constructed
    Slow,        \* operations whose answer may take longer than the timeouts
    Errors,      \* operations the modem may refuse with a plain ERROR
    MaxCalls,    \* bound: number of calls that come in
    MaxRings,    \* bound: number of RING lines of all calls
    MaxConfigs,  \* bound: number of configuration changes
    MaxErrors,   \* bound: number of refused commands
    MaxBacklog   \* bound: commands and lines underway when the timer overtakes them

ASSUME AtProtocolAssumption ==
    /\ GoodPin \in Pins /\ None \notin Entries \union Pins \union Numbers
    /\ {MaxCalls, MaxRings, MaxConfigs, MaxErrors, MaxBacklog} \subseteq Nat

\* In the order of Control::_apply_to_operations
Operations == << "check_ready", "disable_echo", "power_down", "ring", "set_pin",
                 "request_pin_state", "request_pin_count", "reboot", "query_qcfg",
                 "assign_qcfg", "hang_up", "request_call_list", "initiate_call",
                 "accept_call" >>

Ops == Range(Operations)

\* What a command may carry; None is told apart from what is constructed
Args == Entries \union Pins \union Numbers \union {None}

ASSUME NoneAssumption ==
    /\ None \notin [op : Ops, arg : Args]
    /\ None \notin [state : {"PENDING", "SUBMITTED"}, arg : Args]
    /\ None \notin [call : [number : Numbers, stat : {"DIALING", "ACTIVE"}],
                   no_carrier_count : Nat]

VARIABLES
    config,     \* [pin, off, call, ring] of the configuration in effect
    st, ct,     \* Status and Control of the driver
    applying,   \* a signal is being handled, the configuration not applied yet
    shutdown,   \* Main is in the power state AT_SHUTDOWN
    command,    \* commands on their way to the modem
    line,       \* lines on their way to the driver
    modem,      \* [run, echo, sim, tries, setting, call] of the modem
    left        \* bounded events that may still happen

vars == <<config, st, ct, applying, shutdown, command, line, modem, left>>

--------------------------------------------------------------------------------
(* Status *)

QcfgStates == {"UNKNOWN", "CONFIRMED", "MISMATCH", "MODIFIED"}

InitStatus ==
    [at_ok |-> FALSE, echo_disabled |-> FALSE, powered_down |-> FALSE, ok |-> FALSE,
     rdy |-> TRUE, error |-> FALSE, cme_error |-> FALSE, clcc_up_to_date |-> FALSE,
     ring_count |-> 0, no_carrier_count |-> 0, cpin |-> None, current_call |-> None,
     pending |-> None, qcfg |-> [e \in Entries |-> "UNKNOWN"]]

\* A line of the modem: its kind, its value, the command it answers (observer)
Line(kind, arg, re) == [kind |-> kind, arg |-> arg, re |-> re]

Cme(l) == l.kind \in {"CME BUSY", "CME 16"}

\* +CPIN, +CME ERROR, the simple flags and counters
ApplyFlags(s, l) ==
    [s EXCEPT
        !.powered_down     = l.kind = "POWERED DOWN",
        !.cpin             = IF l.kind = "CPIN" THEN l.arg
                             ELSE IF l.kind = "CME 16" THEN None ELSE @,
        !.cme_error        = @ \/ Cme(l),
        !.ok               = @ \/ l.kind = "OK",
        !.error            = @ \/ l.kind = "ERROR",
        !.rdy              = @ \/ l.kind = "RDY",
        !.ring_count       = IF l.kind = "RING" THEN @ + 1 ELSE @,
        !.no_carrier_count = IF l.kind = "NO CARRIER" THEN @ + 1 ELSE @]

\* _apply_qcfg_response: the answer to a query, the OK to an assignment
ApplyQcfgResponse(s, l) ==
    IF l.kind = "QCFG"
    THEN [s EXCEPT !.qcfg[l.arg[1]] = IF l.arg[2] THEN "CONFIRMED" ELSE "MISMATCH"]
    ELSE IF l.kind = "OK" /\ s.pending # None /\ s.pending.op = "assign_qcfg"
    THEN [s EXCEPT !.qcfg[s.pending.arg] = "MODIFIED"]
    ELSE s

ClccOutOfDate(s) == [s EXCEPT !.clcc_up_to_date = FALSE, !.current_call = None]

\* +CLCC, and the lines that announce that the call list has changed
ApplyCallList(s, l) ==
    IF l.kind = "CLCC" THEN [s EXCEPT !.current_call = l.arg]
    ELSE IF l.kind \in {"NO CARRIER", "RING"} THEN ClccOutOfDate(s)
    ELSE s

\* A call list that does not end with OK is accepted as well
AcceptCallList(s) ==
    IF s.current_call # None THEN [s EXCEPT !.clcc_up_to_date = TRUE] ELSE s

\* The modem has confirmed the reboot: nothing is known of it any more
Rebooted_QcfgKept(s) ==
    [ClccOutOfDate(s) EXCEPT
        !.at_ok = FALSE, !.echo_disabled = FALSE, !.rdy = FALSE, !.cpin = None,
        !.cme_error = FALSE]
Rebooted_EchoKept(s) ==
    [ClccOutOfDate(s) EXCEPT
        !.at_ok = FALSE, !.rdy = FALSE, !.cpin = None, !.cme_error = FALSE,
        !.qcfg = [e \in Entries |-> "UNKNOWN"]]
Rebooted(s) ==
    [ClccOutOfDate(s) EXCEPT
        !.at_ok = FALSE, !.echo_disabled = FALSE, !.rdy = FALSE, !.cpin = None,
        !.cme_error = FALSE, !.qcfg = [e \in Entries |-> "UNKNOWN"]]

\* The OK to the pending command p
ApplyOk(s, p) ==
    CASE p.op = "check_ready" -> [s EXCEPT !.at_ok = TRUE]
      [] p.op = "disable_echo" -> [s EXCEPT !.echo_disabled = TRUE]
      [] p.op = "reboot" -> Rebooted(s)
      [] p.op = "request_call_list" -> [s EXCEPT !.clcc_up_to_date = TRUE]
      [] p.op \in {"initiate_call", "hang_up", "accept_call"} -> ClccOutOfDate(s)
      [] OTHER -> s

\* Status::apply_line
ApplyLine(s, l) ==
    LET s1 == AcceptCallList(ApplyCallList(ApplyFlags(ApplyQcfgResponse(s, l), l), l))
        s2 == IF l.kind = "OK" /\ s.pending # None THEN ApplyOk(s1, s.pending) ELSE s1
    IN  IF l.kind \in {"OK", "ERROR"} \/ Cme(l) THEN [s2 EXCEPT !.pending = None] ELSE s2

ResetCommand(s) ==
    [s EXCEPT !.pending = None, !.ok = FALSE, !.error = FALSE, !.cme_error = FALSE]

CommandSubmitted(s, cmd) ==
    LET s1 == [ResetCommand(s) EXCEPT !.pending = cmd]
    IN  IF cmd.op = "request_call_list" THEN ClccOutOfDate(s1) ELSE s1

--------------------------------------------------------------------------------
(* Control: c is the Control object; st the status it refers to.  An         *)
(* operation is None unless constructed.                                     *)

InitControl == [op |-> [o \in Ops |-> None], current_pin |-> None,
                current_ring_count |-> 0, outbound |-> None]

Constructed(c, o) == c.op[o] # None
Submitted(c, o)   == Constructed(c, o) /\ c.op[o].state = "SUBMITTED"

Construct(c, o, a) == [c EXCEPT !.op[o] = [state |-> "PENDING", arg |-> a]]
Destruct(c, o)     == [c EXCEPT !.op[o] = None]
Assure(c, o, a)    == IF Constructed(c, o) THEN c ELSE Construct(c, o, a)

Conditional(c, o, cond) == IF cond THEN Assure(c, o, None) ELSE Destruct(c, o)

InFlight(c) == {o \in Ops : Submitted(c, o)}

\* _cancel_all_operations
CancelAll(c) == [c EXCEPT !.op = [o \in Ops |-> None]]

\* Control::cancel_command
CancelSubmitted_None(c) == c
CancelSubmitted(c) == [c EXCEPT !.op = [o \in Ops |-> IF Submitted(c, o) THEN None ELSE @[o]]]

\* _any_operation_in_flight
SubmitAllowed_Always(c) == TRUE
SubmitAllowed(c) == InFlight(c) = {}

\* _complete_operation: of several operations in flight, the first only
CompleteOperation_Unanswered(c) ==
    LET first == SelectInSeq(Operations, LAMBDA o : Submitted(c, o))
    IN  IF first # 0 THEN Destruct(c, Operations[first]) ELSE c
CompleteOperation(c) ==
    LET first == SelectInSeq(Operations, LAMBDA o : Submitted(c, o))
    IN  IF st.ok /\ first # 0 THEN Destruct(c, Operations[first]) ELSE c

InState(q) == {e \in Entries : st.qcfg[e] = q}

RebootNeeded == /\ InState("UNKNOWN") = {} /\ InState("MISMATCH") = {}
                /\ InState("MODIFIED") # {}

\* A reboot takes the place of everything else; the SIM will be locked again
StartReboot(c) == [Construct(CancelAll(c), "reboot", None) EXCEPT !.current_pin = None]

ApplyQcfg(c) ==
    LET c1 == IF Submitted(c, "query_qcfg") /\ st.error THEN Destruct(c, "query_qcfg") ELSE c
        c2 == IF InState("UNKNOWN") = {} THEN c1
              ELSE Assure(c1, "query_qcfg", CHOOSE e \in InState("UNKNOWN") : TRUE)
        c3 == IF InState("MISMATCH") = {} THEN c2
              ELSE Assure(c2, "assign_qcfg", CHOOSE e \in InState("MISMATCH") : TRUE)
    IN  IF RebootNeeded /\ ~Constructed(c3, "reboot")
        THEN StartReboot(c3) ELSE c3

\* _apply_pin: the PIN is not submitted when none is configured, and not twice
UsablePin_EvenTwice(c, pin) == pin # None
UsablePin(c, pin) == pin # None /\ pin # c.current_pin

ApplyPin(c, pin) ==
    LET c1 == IF Submitted(c, "request_pin_state") /\ st.cme_error
              THEN Destruct(c, "request_pin_state") ELSE c
    IN  IF Submitted(c1, "set_pin") /\ st.cme_error
        THEN Assure(Destruct(c1, "set_pin"), "request_pin_count", None)
        ELSE IF st.cpin = None
        THEN Assure(c1, "request_pin_state", None)
        ELSE IF st.cpin = "SIM PIN" /\ UsablePin(c1, pin)
        THEN [Construct(c1, "set_pin", pin) EXCEPT !.current_pin = pin]
        ELSE c1

ApplyPower(c, off) ==
    LET c1 == IF Submitted(c, "power_down") /\ st.error THEN Destruct(c, "power_down") ELSE c
    IN  IF off /\ ~st.powered_down THEN Assure(c1, "power_down", None) ELSE c1

Rejected(call) == call # None /\ call.state = "rejected"

HangUpStates == {"INCOMING", "ACTIVE"}

ApplyHangUp(c, call) ==
    LET c1 == IF c.outbound # None /\ (call = None \/ Rejected(call))
              THEN [Construct(c, "hang_up", None) EXCEPT !.outbound = None]
              ELSE c
    IN  IF Constructed(c, "hang_up") THEN c
        ELSE IF /\ st.current_call # None /\ Rejected(call)
                /\ st.current_call.stat \in HangUpStates
        THEN Construct(c1, "hang_up", None)
        ELSE c1

ReadyForTelephony == st.cpin = "READY"

KeepCallListUpToDate_NoRequest(c) ==
    IF ReadyForTelephony /\ st.clcc_up_to_date THEN Destruct(c, "request_call_list") ELSE c
KeepCallListUpToDate(c) ==
    IF ~ReadyForTelephony THEN c
    ELSE IF st.clcc_up_to_date THEN Destruct(c, "request_call_list")
    ELSE Assure(c, "request_call_list", None)

\* _apply_call: note the call, accept it, forget another one, initiate one
NoteCall(c) ==
    IF st.current_call # None /\ c.outbound # None
    THEN [c EXCEPT !.outbound.call = st.current_call] ELSE c

AcceptCall(c, accepted) ==
    IF st.current_call # None /\ st.current_call.stat = "INCOMING" /\ accepted
    THEN Assure(c, "accept_call", None) ELSE c

ForgetOutbound(c, number) ==
    IF c.outbound # None /\ c.outbound.call.number # number
    THEN [c EXCEPT !.outbound = None] ELSE c

InitiateCall(c, number, accepted) ==
    IF /\ st.current_call = None /\ accepted
       /\ c.outbound = None         \* neither _rejected nor _outbound
       /\ ~Constructed(c, "initiate_call")
    THEN [Construct(c, "initiate_call", number) EXCEPT
            !.outbound = [call |-> [number |-> number, stat |-> "DIALING"],
                          no_carrier_count |-> st.no_carrier_count]]
    ELSE c

ApplyCall(c, call) ==
    IF call = None \/ ~ReadyForTelephony \/ ~st.clcc_up_to_date THEN c
    ELSE LET accepted == call.state \in {"none", "accepted"}
         IN  InitiateCall(ForgetOutbound(AcceptCall(NoteCall(c), accepted), call.number),
                          call.number, accepted)

ApplyRing(c, ring) ==
    IF ring /\ c.current_ring_count # st.ring_count
    THEN [Construct(c, "ring", None) EXCEPT !.current_ring_count = st.ring_count] ELSE c

\* Control::_apply_config
ControlApplyConfig(c, cfg) ==
    IF Constructed(c, "reboot") \/ ~st.rdy THEN c
    ELSE LET c1 == Conditional(c, "disable_echo", ~st.echo_disabled /\ st.at_ok)
             c2 == ApplyPower(ApplyPin(ApplyQcfg(c1), cfg.pin), cfg.off)
             c3 == KeepCallListUpToDate(ApplyHangUp(c2, cfg.call))
         IN  IF ~st.echo_disabled THEN c1
             ELSE ApplyRing(ApplyCall(c3, cfg.call), cfg.ring)

\* _submit_one_pending_operation: the first pending one, 0 if there is none
NextPending(c) ==
    SelectInSeq(Operations, LAMBDA o : Constructed(c, o) /\ c.op[o].state = "PENDING")

--------------------------------------------------------------------------------
(* Driver *)

\* Main destructs the driver once a modem to be shut down is down
Destructed == shutdown /\ st.powered_down /\ ~applying

\* Read_buffer and Status take the next line that has arrived
ReadLine ==
    /\ line # <<>> /\ ~Destructed
    /\ st' = ApplyLine(st, Head(line))
    /\ line' = Tail(line)
    /\ applying' = TRUE
    /\ UNCHANGED <<config, ct, shutdown, command, modem, left>>

\* Main::_apply_power_state, then Control::apply_config
ApplyConfig ==
    /\ ~Destructed
    /\ shutdown' = (shutdown \/ (config.off /\ (Constructed(ct, "power_down") \/ st.powered_down)))
    /\ LET c == ControlApplyConfig(
                    Conditional(CompleteOperation(ct), "check_ready", ~st.at_ok), config)
           i == NextPending(c)
       IN  IF SubmitAllowed(c) /\ i # 0
           THEN LET o   == Operations[i]
                    cmd == [op |-> o, arg |-> c.op[o].arg]
                IN  /\ command' = Append(command, cmd)
                    /\ ct' = [c EXCEPT !.op[o].state = "SUBMITTED"]
                    /\ st' = CommandSubmitted(st, cmd)
           ELSE /\ ct' = c
                /\ UNCHANGED <<st, command>>
    /\ applying' = FALSE
    /\ UNCHANGED <<config, line, modem, left>>

\* Unless an operation is slow, the modem answers within the 500 ms of the timer,
\* which are less than the 600 ms granted by command_timeout_ms
TimerPossible ==
    \/ command = <<>> /\ line = <<>>
    \/ /\ st.pending # None /\ st.pending.op \in Slow
       /\ Len(command) + Len(line) <= MaxBacklog

\* The call list is polled while an outbound call is in progress
InvalidateCallList(s) ==
    IF ct.outbound # None THEN [s EXCEPT !.clcc_up_to_date = FALSE] ELSE s

\* Main::_handle_timer of the modem driver, up to the next apply
HandleTimer(timeout) ==
    /\ ~applying /\ ~Destructed /\ TimerPossible
    /\ timeout => st.pending # None
    /\ LET s == InvalidateCallList(st)
       IN  IF timeout
           THEN /\ st' = [ResetCommand(s) EXCEPT !.at_ok = FALSE]
                /\ ct' = CancelSubmitted(ct)
           ELSE st' = s /\ UNCHANGED ct
    /\ applying' = TRUE
    /\ UNCHANGED <<config, shutdown, command, line, modem, left>>

SetConfig(cfg) ==
    /\ left.configs > 0 /\ cfg # config /\ ~applying
    /\ config' = cfg
    /\ left' = [left EXCEPT !.configs = @ - 1]
    /\ applying' = TRUE
    /\ UNCHANGED <<st, ct, shutdown, command, line, modem>>

--------------------------------------------------------------------------------
(* Modem *)

InitModem == [run |-> "up", echo |-> TRUE, sim |-> "SIM PIN", tries |-> 3,
              setting |-> [e \in Entries |-> FALSE], call |-> None]

\* The modem sends the lines ls and becomes m
Sends(m, ls) == modem' = m /\ line' = line \o ls

CallLine(re) == IF modem.call = None THEN <<>> ELSE << Line("CLCC", modem.call, re) >>

\* What the modem does with a command when it is up (_handle_command)
Respond(cmd) ==
    LET re   == cmd.op
        OK   == Line("OK", None, re)
        a    == cmd.arg
    IN  CASE re \in {"check_ready", "ring", "request_pin_count"} ->
                Sends(modem, <<OK>>)
          [] re = "disable_echo" ->
                Sends([modem EXCEPT !.echo = FALSE], <<OK>>)
          [] re = "request_pin_state" ->
                IF modem.sim = "BUSY"
                THEN Sends(modem, <<Line("CME BUSY", None, re)>>)
                ELSE Sends(modem, <<Line("CPIN", modem.sim, re), OK>>)
          [] re = "set_pin" ->
                IF modem.sim # "SIM PIN"
                THEN Sends(modem, <<Line("CME BUSY", None, re)>>)
                ELSE IF a = GoodPin
                THEN Sends([modem EXCEPT !.sim = "READY", !.tries = 3],
                           <<OK, Line("CPIN", "READY", None)>>)
                ELSE Sends([modem EXCEPT !.tries = @ - 1,
                                         !.sim = IF modem.tries = 1 THEN "SIM PUK" ELSE @],
                           <<Line("CME 16", None, re)>>)
          [] re = "power_down" ->
                Sends([modem EXCEPT !.run = "off", !.call = None],
                      <<Line("POWERED DOWN", None, re)>>)
          [] re = "reboot" ->
                Sends([modem EXCEPT !.run = "boot", !.echo = TRUE, !.sim = "BUSY",
                                     !.call = None], <<OK>>)
          [] re = "query_qcfg" ->
                Sends(modem, <<Line("QCFG", <<a, modem.setting[a]>>, re), OK>>)
          [] re = "assign_qcfg" ->
                Sends([modem EXCEPT !.setting[a] = TRUE], <<OK>>)
          [] re = "request_call_list" ->
                Sends(modem, CallLine(re) \o <<OK>>)
          [] re = "initiate_call" ->
                IF modem.call = None
                THEN Sends([modem EXCEPT !.call = [number |-> a, stat |-> "DIALING"]], <<OK>>)
                ELSE Sends(modem, <<OK>>)
          [] re = "accept_call" ->
                IF modem.call # None /\ modem.call.stat = "INCOMING"
                THEN Sends([modem EXCEPT !.call.stat = "ACTIVE"], <<OK>>)
                ELSE Sends(modem, <<Line("NO CARRIER", None, re)>>)
          [] re = "hang_up" ->
                Sends([modem EXCEPT !.call = None], <<OK>>)

\* A modem that boots or is off ignores what it receives
ModemAnswers ==
    /\ command # <<>>
    /\ command' = Tail(command)
    /\ IF modem.run = "up" THEN Respond(Head(command)) ELSE UNCHANGED <<modem, line>>
    /\ UNCHANGED <<config, st, ct, applying, shutdown, left>>

\* A modem that has just started refuses some commands
ModemRefuses ==
    /\ left.errors > 0 /\ modem.run = "up"
    /\ command # <<>> /\ Head(command).op \in Errors
    /\ command' = Tail(command)
    /\ Sends(modem, <<Line("ERROR", None, Head(command).op)>>)
    /\ left' = [left EXCEPT !.errors = @ - 1]
    /\ UNCHANGED <<config, st, ct, applying, shutdown>>

\* End of a reboot; the SIM card becomes available some time later
ModemBoots ==
    /\ modem.run = "boot"
    /\ Sends([modem EXCEPT !.run = "up"], <<Line("RDY", None, None)>>)
    /\ UNCHANGED <<config, st, ct, applying, shutdown, command, left>>

SimAvailable ==
    /\ modem.run = "up" /\ modem.sim = "BUSY"
    /\ modem' = [modem EXCEPT !.sim = "SIM PIN"]
    /\ UNCHANGED <<config, st, ct, applying, shutdown, command, line, left>>

\* A remote party calls, lets it ring again, picks up, or hangs up
RemoteCalls(n) ==
    /\ left.calls > 0 /\ modem.run = "up" /\ modem.sim = "READY" /\ modem.call = None
    /\ Sends([modem EXCEPT !.call = [number |-> n, stat |-> "INCOMING"]],
             <<Line("RING", None, None)>>)
    /\ left' = [left EXCEPT !.calls = @ - 1]
    /\ UNCHANGED <<config, st, ct, applying, shutdown, command>>

RingsAgain ==
    /\ left.rings > 0 /\ modem.call # None /\ modem.call.stat = "INCOMING"
    /\ line' = Append(line, Line("RING", None, None))
    /\ left' = [left EXCEPT !.rings = @ - 1]
    /\ UNCHANGED <<config, st, ct, applying, shutdown, command, modem>>

RemotePicksUp ==
    /\ modem.call # None /\ modem.call.stat = "DIALING"
    /\ modem' = [modem EXCEPT !.call.stat = "ACTIVE"]
    /\ UNCHANGED <<config, st, ct, applying, shutdown, command, line, left>>

RemoteHangsUp ==
    /\ modem.call # None
    /\ Sends([modem EXCEPT !.call = None], <<Line("NO CARRIER", None, None)>>)
    /\ UNCHANGED <<config, st, ct, applying, shutdown, command, left>>

--------------------------------------------------------------------------------
Init ==
    /\ config \in Configs
    /\ st = InitStatus /\ ct = InitControl /\ applying = TRUE /\ shutdown = FALSE
    /\ command = <<>> /\ line = <<>>
    /\ \E run \in {"up", "boot"} : modem = [InitModem EXCEPT !.run = run]
    /\ left = [calls |-> MaxCalls, rings |-> MaxRings, configs |-> MaxConfigs,
               errors |-> MaxErrors]

DriverNext ==
    \/ ReadLine
    \/ ApplyConfig
    \/ \E timeout \in BOOLEAN : HandleTimer(timeout)
    \/ \E cfg \in Configs : SetConfig(cfg)

ModemNext ==
    \/ ModemAnswers \/ ModemRefuses \/ ModemBoots \/ SimAvailable
    \/ \E n \in Numbers : RemoteCalls(n)
    \/ RingsAgain \/ RemotePicksUp \/ RemoteHangsUp

Next == DriverNext \/ ModemNext

Spec == Init /\ [][Next]_vars

\* The modem answers, boots and makes its SIM card available; lines are read,
\* the configuration is applied after a signal, and the timer fires again and
\* again while an answer or a call is awaited, with a growing distance from the
\* last progress.
Fairness ==
    /\ WF_vars(ReadLine) /\ WF_applying(applying' = FALSE)
    /\ SF_vars(HandleTimer(TRUE)) /\ SF_vars(HandleTimer(FALSE))
    /\ WF_vars(ModemAnswers) /\ WF_vars(ModemBoots) /\ WF_vars(SimAvailable)

FairSpec == Spec /\ Fairness

--------------------------------------------------------------------------------
(* Properties *)

\* Of all operations, at most one waits for an answer of the modem, although
\* operations are built and dropped by eight independent rules.
OneInFlight == Cardinality(InFlight(ct)) <= 1

\* A wrong PIN in the configuration never costs the last attempt of the SIM
\* card, in spite of retries, timeouts and a reboot of the modem.
SimNotBlocked == modem.sim # "SIM PUK"

\* The command that a step submits
Sent == Last(command')
Submits(ops) == Len(command') > Len(command) /\ Sent.op \in ops

\* What the proofs about the dialogue take: the modem answers in time, nobody calls or
\* is called, and all configurations have the same PIN, or none.  A late answer is taken
\* for that of the next command (driver.h:222), so is the OK after a call list
\* (status.h:299), and a second PIN is submitted before the first is answered
\* (control.h:350).
OnePromptUser ==
    /\ Slow = {} /\ MaxCalls = 0
    /\ \E p \in Pins : \A c \in Configs : c.pin \in {None, p} /\ c.call = None

\* A line of the modem completes a command only if it is the answer to that
\* command ("a consistent protocol state where the next command submitted is
\* recognised by the modem", driver.h).
AnswerMatchesCommand ==
    [][(st.pending # None /\ st'.pending = None /\ Len(line') < Len(line))
          => Head(line).re = st.pending.op]_<<st, line>>

\* A modem that still echoes what it receives gets nothing but AT and ATE0,
\* also after a reboot, which turns the echo on again (control.h:503).
EchoOff ==
    [][Submits(Ops \ {"check_ready", "disable_echo"}) => ~modem.echo]_vars

\* The settings of the modem are finally as configured and known to be, after
\* querying, assigning, rebooting and querying again (control.h:471).
SettingsConfirmed ==
    [](~config.off) => <>[](\A e \in Entries : st.qcfg[e] = "CONFIRMED")

\* The SIM card is finally unlocked with the PIN, although a reboot for the
\* sake of the settings locks it again (_current_pin is forgotten).
SimUnlocked ==
    ([](~config.off) /\ <>[](config.pin = GoodPin)) => <>[](modem.sim = "READY")

\* Nothing is taken for granted that the modem forgets by the reboot which its
\* settings require: the settings are confirmed and the SIM card is unlocked.
RebootRecovered == SettingsConfirmed /\ SimUnlocked

\* A user who switches the modem off gets it powered down, whatever command
\* was in flight or got refused.
PowerDownHonoured == (<>[]config.off) => <>(modem.run = "off")

\* A call that ended is not dialled again by itself: as long as nobody else has
\* called, every dialling after a disconnect is due to a change of the
\* configuration (_outbound, control.h:434).
NoRedial ==
    [][(Submits({"initiate_call"}) /\ left.calls = MaxCalls)
          => st.no_carrier_count <= MaxConfigs - left.configs]_vars

\* What the proof of NoRedial takes: the user has one number to call, if any.  Of two, the
\* one called first may be found in a call list that is read after the other was
\* dialled, and makes the driver forget the latter (control.h:427).
OneNumber == \E n \in Numbers : \A c \in Configs : c.call = None \/ c.call.number = n

\* The number in the configuration gets called.
DialledCallMade ==
    \A n \in Numbers :
        [](config.call # None /\ config.call.number = n /\ config.call.state = "none")
            => <>(modem.call # None /\ modem.call.number = n)

\* The modem does not tell when the callee picks up; polling finds it out.
OutboundFollowed ==
    <>[](ct.outbound # None /\ modem.call # None /\ modem.call.stat = "ACTIVE")
        => []<>(st.current_call # None /\ st.current_call.stat = "ACTIVE")

\* Once all lines are read, call information taken for up to date tells whether
\* there is a call ("only with up-to-date current-call info", control.h:405).
UpToDateMeansTrue ==
    (st.clcc_up_to_date /\ command = <<>> /\ line = <<>>)
        => (st.current_call = None <=> modem.call = None)

CallIs(state) == config.call # None /\ config.call.state = state

\* An accepted call does not keep ringing.
AcceptedCallAnswered ==
    <>[]CallIs("accepted") => []<>(modem.call = None \/ modem.call.stat # "INCOMING")

\* With calls rejected all the time, none lasts.
IncomingRejected == []CallIs("rejected") => []<>(modem.call = None)

\* Calls are as the user decides: made, noticed as accepted by the callee,
\* answered or ended, and not made once more by themselves.
CallsFollowed ==
    NoRedial /\ DialledCallMade /\ OutboundFollowed /\ AcceptedCallAnswered /\ IncomingRejected

================================================================================
