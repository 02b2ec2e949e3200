----------------------------- MODULE ModemMainProof -----------------------------
(***************************************************************************)
(* Proofs about ModemMain, for any number of ticks, configuration changes  *)
(* and busy answers.                                                       *)
(*                                                                         *)
(* The argument: a modem that has been told to be off gets no command and  *)
(* so cannot tell otherwise (SilentOK), hence it stays off once the power  *)
(* control has seen it off (OffOK).  While _handle_config iterates, the AT *)
(* driver has reported no busy answer that did not end the loop, unless it *)
(* powers the modem down (BusyOK), so AT_BUSY replaces no other phase than *)
(* those in which the AT driver is at work.                                *)
(*                                                                         *)
(* For the grace delay, GraceInv says where Main is within the delay: from *)
(* the announcement of the modem on it notices that the AT driver is down  *)
(* before the time limit, which is more than one tick, is looked at again. *)
(***************************************************************************)
EXTENDS ModemMain, TLAPS

Phases == {"UNKNOWN", "POWER_OFF", "POWER_ON", "POWERING_ON", "AT_PROTOCOL", "AT_BUSY",
           "AT_SHUTDOWN", "AT_GRACE_DELAY", "POWERING_OFF"}
PowerStates == {"UNKNOWN", "OFF", "STARTING_UP", "ON", "SHUTTING_DOWN"}
Up == {"STARTING_UP", "ON"}
AtAny == AtDriver \cup {None}

TypeInv ==
    /\ power_state \in Phases /\ power \in PowerStates
    /\ at \in AtAny
    /\ status \in BOOLEAN /\ target \in BOOLEAN /\ handling \in BOOLEAN
    /\ before \in [busy : Nat, moved : BOOLEAN]

\* The phases of Main ps, the power control p and the AT driver d agree.
Agree(ps, p, d) ==
    /\ ps \in {"AT_PROTOCOL", "AT_BUSY"} => d # None
    /\ ps \in {"AT_PROTOCOL", "AT_BUSY", "AT_SHUTDOWN", "AT_GRACE_DELAY"} => p \in Up
    /\ ps = "AT_GRACE_DELAY" => d = None
    /\ ps = "POWER_ON" => p = "ON"
    /\ ps = "POWERING_ON" => p # "SHUTTING_DOWN"
    /\ ps = "POWERING_OFF" => p # "UNKNOWN"
    /\ ps = "POWER_OFF" => p = "OFF"
    /\ ps = "UNKNOWN" => p = "UNKNOWN"
    /\ p = "SHUTTING_DOWN" => ps = "POWERING_OFF"

SilentOK == ~target => command = None

OffOK ==
    /\ power = "SHUTTING_DOWN" => ~target
    /\ power = "OFF" /\ power_state \in {"POWERING_OFF", "POWER_OFF"} => ~status /\ ~target

BusyOK == handling /\ at # None => at.busy = before.busy \/ PoweringDown(at)

IInv == TypeInv /\ Agree(power_state, power, at) /\ SilentOK /\ OffOK /\ BusyOK

-----------------------------------------------------------------------------
(* The states of the AT driver *)

LEMMA FieldTypes ==
    ASSUME NEW d \in AtDriver
    PROVE  /\ \A a \in {"nothing", "other", "power_down"} : [d EXCEPT !.awaits = a] \in AtDriver
           /\ \A b \in BOOLEAN :
                /\ [d EXCEPT !.at_ok = b] \in AtDriver
                /\ [d EXCEPT !.ready = b] \in AtDriver
                /\ [d EXCEPT !.down = b] \in AtDriver
                /\ [d EXCEPT !.powered_down = b] \in AtDriver
                /\ [d EXCEPT !.outbound = b] \in AtDriver
           /\ [d EXCEPT !.busy = @ + 1] \in AtDriver
  <1>1. \A a \in {"nothing", "other", "power_down"} : [d EXCEPT !.awaits = a] \in AtDriver
    BY DEF AtDriver
  <1>2. \A b \in BOOLEAN : [d EXCEPT !.at_ok = b] \in AtDriver
    BY DEF AtDriver
  <1>3. \A b \in BOOLEAN : [d EXCEPT !.ready = b] \in AtDriver
    BY DEF AtDriver
  <1>4. \A b \in BOOLEAN : [d EXCEPT !.down = b] \in AtDriver
    BY DEF AtDriver
  <1>5. \A b \in BOOLEAN : [d EXCEPT !.powered_down = b] \in AtDriver
    BY DEF AtDriver
  <1>6. \A b \in BOOLEAN : [d EXCEPT !.outbound = b] \in AtDriver
    BY DEF AtDriver
  <1>7. [d EXCEPT !.busy = @ + 1] \in AtDriver
    BY DEF AtDriver
  <1> QED BY <1>1, <1>2, <1>3, <1>4, <1>5, <1>6, <1>7

LEMMA FinishedType ==
    ASSUME NEW d \in AtDriver
    PROVE  Finished(d) \in AtDriver
  <1> DEFINE e == [d EXCEPT !.awaits = "nothing"]
             b == d.down /\ d.awaits # "power_down"
  <1>1. e \in AtDriver
    BY FieldTypes
  <1>2. [e EXCEPT !.down = b] \in AtDriver
    BY <1>1, FieldTypes
  <1>3. Finished(d) = [e EXCEPT !.down = b]
    BY DEF Finished, AtDriver
  <1> QED BY <1>2, <1>3

LEMMA NewDriverType == NewDriver \in AtDriver
  BY DEF NewDriver, AtDriver

LEMMA ReadType ==
    ASSUME NEW d \in AtDriver, NEW l
    PROVE  Read(d, l) \in AtDriver
  <1> DEFINE f == Finished(d)
  <1>0. f \in AtDriver
    BY FinishedType
  <1> HIDE DEF f
  <1>1. [f EXCEPT !.at_ok = TRUE, !.ready = TRUE] \in AtDriver
    <2>1. [f EXCEPT !.at_ok = TRUE] \in AtDriver
      BY <1>0, FieldTypes
    <2>2. [[f EXCEPT !.at_ok = TRUE] EXCEPT !.ready = TRUE] \in AtDriver
      BY <2>1, FieldTypes
    <2>3. [f EXCEPT !.at_ok = TRUE, !.ready = TRUE]
            = [[f EXCEPT !.at_ok = TRUE] EXCEPT !.ready = TRUE]
      BY <1>0 DEF AtDriver
    <2> QED BY <2>2, <2>3
  <1>2. [f EXCEPT !.at_ok = FALSE, !.ready = FALSE, !.down = FALSE] \in AtDriver
    <2> DEFINE g == [f EXCEPT !.at_ok = FALSE]
               h == [g EXCEPT !.ready = FALSE]
    <2>1. g \in AtDriver
      BY <1>0, FieldTypes
    <2>2. h \in AtDriver
      BY <2>1, FieldTypes
    <2>3. [h EXCEPT !.down = FALSE] \in AtDriver
      BY <2>2, FieldTypes
    <2>4. [f EXCEPT !.at_ok = FALSE, !.ready = FALSE, !.down = FALSE] = [h EXCEPT !.down = FALSE]
      BY <1>0 DEF AtDriver
    <2> QED BY <2>3, <2>4
  <1>3. [f EXCEPT !.busy = @ + 1] \in AtDriver
    BY <1>0, FieldTypes
  <1>4. [d EXCEPT !.powered_down = TRUE] \in AtDriver
    BY FieldTypes
  <1>5. \/ Read(d, l) = [f EXCEPT !.at_ok = TRUE, !.ready = TRUE]
        \/ Read(d, l) = [f EXCEPT !.at_ok = FALSE, !.ready = FALSE, !.down = FALSE]
        \/ Read(d, l) = [f EXCEPT !.busy = @ + 1]
        \/ Read(d, l) = [d EXCEPT !.powered_down = TRUE]
        \/ Read(d, l) = d
    BY DEF Read, f
  <1> QED BY <1>1, <1>2, <1>3, <1>4, <1>5

LEMMA AppliedType ==
    ASSUME NEW d \in AtDriver, NEW l, NEW e \in Applied(d, l)
    PROVE  e \in AtDriver
  <1> DEFINE r == Read(d, l)
             s == Scheduled(r)
             b == r.down \/ (config.power = "off" /\ r.ready /\ ~r.powered_down)
  <1>1. r \in AtDriver
    BY ReadType
  <1> HIDE DEF r
  <1>2. b \in BOOLEAN /\ s = [r EXCEPT !.down = b]
    BY <1>1 DEF Scheduled, AtDriver
  <1>3. s \in AtDriver
    <2> HIDE DEF b, s
    <2> QED BY <1>1, <1>2, FieldTypes
  <1> HIDE DEF b, s
  <1>4. e \in Submissions(s)
    BY DEF Applied, s, r
  <1>5. CASE s.awaits # "nothing"
    BY <1>3, <1>4, <1>5 DEF Submissions
  <1>6. CASE s.awaits = "nothing"
    <2>1. PICK a \in {"nothing", "other", "power_down"}, o \in BOOLEAN :
             e = [s EXCEPT !.awaits = a, !.outbound = o]
      <3> DEFINE A == IF ~s.at_ok \/ ~s.ready THEN {"other"}
                      ELSE IF s.down THEN {"power_down"} ELSE {"nothing", "other"}
      <3> DEFINE F(a, o) == [s EXCEPT !.awaits = a, !.outbound = o]
      <3>1. Submissions(s) = {F(a, o) : a \in A, o \in BOOLEAN}
        BY <1>6 DEF Submissions
      <3>2. A \subseteq {"nothing", "other", "power_down"}
        OBVIOUS
      <3> HIDE DEF A, F
      <3>3. PICK a \in A, o \in BOOLEAN : e = F(a, o)
        BY <1>4, <3>1
      <3> QED BY <3>2, <3>3 DEF F
    <2>2. [s EXCEPT !.awaits = a] \in AtDriver
      BY <1>3, FieldTypes
    <2>3. [[s EXCEPT !.awaits = a] EXCEPT !.outbound = o] \in AtDriver
      BY <2>2, FieldTypes
    <2>4. e = [[s EXCEPT !.awaits = a] EXCEPT !.outbound = o]
      BY <1>3, <2>1 DEF AtDriver
    <2> QED BY <2>3, <2>4
  <1> QED BY <1>5, <1>6

-----------------------------------------------------------------------------

LEMMA InitIInv == Init => IInv
  BY DEF Init, IInv, TypeInv, Agree, SilentOK, OffOK, BusyOK, Phases, PowerStates, AtAny

-----------------------------------------------------------------------------
(* One iteration of the loop of _handle_config *)

\* What the machine of _apply_power_state leads to, before the AT driver is
\* applied: the phases agree; who is not in one of the two phases that drive it
\* keeps the AT driver or has none.
Outcome(s) ==
    /\ s.ps \in Phases /\ s.power \in PowerStates /\ s.at \in AtAny
    /\ Agree(s.ps, s.power, s.at)
    /\ Drives(s.ps) => s.power \in Up
    /\ ~Drives(s.ps) /\ s.at # None => s.at = at
    /\ s.power = "SHUTTING_DOWN" => power_state = "POWERING_OFF"
    /\ s.power = "OFF" /\ s.ps \in {"POWERING_OFF", "POWER_OFF"}
         => power_state \in {"POWERING_OFF", "POWER_OFF"}

LEMMA PowerTypes ==
    ASSUME TypeInv
    PROVE  /\ Probed \in PowerStates \ {"UNKNOWN"}
           /\ power # "SHUTTING_DOWN" => PowerEnabled(TRUE) \in Up
           /\ PowerEnabled(FALSE) \in {"OFF", "SHUTTING_DOWN"}
  BY DEF TypeInv, PowerStates, Probed, PowerEnabled, PowerUp, PowerDown, Up

\* Cases AT_PROTOCOL and AT_BUSY, also after falling through from POWERING_ON
LEMMA AtProtocolOutcome ==
    ASSUME IInv, NEW s, s.ps \in {"POWERING_ON", "POWER_ON", "AT_PROTOCOL", "AT_BUSY"},
           s.power \in Up, s.ps = "POWER_ON" => s.power = "ON",
           s.at \in AtAny, s.ps # "AT_PROTOCOL" => s.at = at,
           s.ps \in {"AT_PROTOCOL", "AT_BUSY"} => s.at # None,
           s = [ps |-> s.ps, power |-> s.power, at |-> s.at, age |-> s.age]
    PROVE  Outcome(AtProtocolCase(s))
  <1> DEFINE s1 == [s EXCEPT !.age.shutdown = 0]
  <1>1. s1.ps = s.ps /\ s1.power = s.power /\ s1.at = s.at
    OBVIOUS
  <1>2. \A ps : /\ [s1 EXCEPT !.ps = ps].ps = ps
                /\ [s1 EXCEPT !.ps = ps].power = s.power
                /\ [s1 EXCEPT !.ps = ps].at = s.at
    OBVIOUS
  <1>3. \/ AtProtocolCase(s) = s
        \/ AtProtocolCase(s) = s1
        \/ s.at = None /\ AtProtocolCase(s) = [s1 EXCEPT !.ps = "POWERING_OFF"]
        \/ s.at # None /\ AtProtocolCase(s) = [s1 EXCEPT !.ps = "AT_SHUTDOWN"]
    BY <1>1 DEF AtProtocolCase
  <1> HIDE DEF s1
  <1> DEFINE t == AtProtocolCase(s)
  <1>4. /\ t.power = s.power /\ t.at = s.at
        /\ \/ t.ps = s.ps
           \/ t.ps = "POWERING_OFF" /\ s.at = None
           \/ t.ps = "AT_SHUTDOWN" /\ s.at # None
    <2>1. CASE t = s
      BY <2>1
    <2>2. CASE t = s1
      BY <1>1, <2>2
    <2>3. CASE s.at = None /\ t = [s1 EXCEPT !.ps = "POWERING_OFF"]
      BY <1>2, <2>3
    <2>4. CASE s.at # None /\ t = [s1 EXCEPT !.ps = "AT_SHUTDOWN"]
      BY <1>2, <2>4
    <2> QED BY <1>3, <2>1, <2>2, <2>3, <2>4
  <1> HIDE DEF t
  <1>5. Agree(t.ps, t.power, t.at)
    BY <1>4 DEF Agree, Up
  <1> QED BY <1>4, <1>5 DEF Outcome, Drives, Phases, PowerStates, Up, t

LEMMA ApplyOutcome == IInv => Outcome(ApplyPowerState)
  <1> SUFFICES ASSUME IInv PROVE Outcome(ApplyPowerState)
    OBVIOUS
  <1>0. TypeInv /\ Agree(power_state, power, at)
    BY DEF IInv
  <1>1. Outcome(Same)
    BY <1>0 DEF Outcome, Same, TypeInv, Agree, Drives, Up, IInv, PowerStates
  <1>2. CASE power_state \in {"UNKNOWN", "POWER_OFF"}
    <2>1. Outcome([Same EXCEPT !.ps = "POWERING_ON"])
      BY <1>0, <1>2 DEF Outcome, Same, TypeInv, Agree, Drives, Phases
    <2> QED BY <1>1, <1>2, <2>1 DEF ApplyPowerState
  <1>3. CASE power_state = "POWER_ON"
    <2>1. Outcome([Same EXCEPT !.ps = "POWERING_OFF", !.age.shutdown = 0])
      BY <1>0, <1>3 DEF Outcome, Same, TypeInv, Agree, Drives, Phases
    <2> QED BY <1>1, <1>3, <2>1 DEF ApplyPowerState
  <1>4. CASE power_state = "POWERING_ON"
    <2> DEFINE p  == PowerEnabled(TRUE)
               s1 == [ps |-> "POWERING_ON", power |-> p, at |-> at, age |-> age]
               s2 == [ps |-> "AT_PROTOCOL", power |-> p, at |-> NewDriver, age |-> age]
               s3 == [ps |-> "POWER_ON", power |-> p, at |-> at, age |-> age]
    <2>1. p \in Up
      BY <1>0, <1>4, PowerTypes DEF Agree
    <2>2. at \in AtAny /\ NewDriver \in AtAny /\ NewDriver # None
      BY <1>0, NewDriverType, NoneAssumption DEF TypeInv, AtAny
    <2>3. ApplyPowerState = PoweringOnCase(Same)
      BY <1>4 DEF ApplyPowerState
    <2>4. PoweringOnCase(Same) = AtProtocolCase(IF p # "ON" THEN s1 ELSE IF config.at THEN s2 ELSE s3)
      <3> HIDE DEF p
      <3>1. [Same EXCEPT !.power = p] = s1
        BY <1>4 DEF Same
      <3>2. [s1 EXCEPT !.at = NewDriver, !.ps = "AT_PROTOCOL"] = s2
        <4> DEFINE n == NewDriver
                   t == [ps |-> "POWERING_ON", power |-> p, at |-> n, age |-> age]
        <4> HIDE DEF n
        <4>1. [s1 EXCEPT !.at = n] = t
          OBVIOUS
        <4>2. [t EXCEPT !.ps = "AT_PROTOCOL"] = [ps |-> "AT_PROTOCOL", power |-> p, at |-> n, age |-> age]
          OBVIOUS
        <4>3. [s1 EXCEPT !.at = n, !.ps = "AT_PROTOCOL"] = [[s1 EXCEPT !.at = n] EXCEPT !.ps = "AT_PROTOCOL"]
          OBVIOUS
        <4> QED BY <4>1, <4>2, <4>3 DEF n
      <3>3. [s1 EXCEPT !.ps = "POWER_ON"] = s3
        OBVIOUS
      <3>4. s1.power = p
        OBVIOUS
      <3> HIDE DEF s1, s2, s3
      <3> QED BY <3>1, <3>2, <3>3, <3>4 DEF PoweringOnCase, p
    <2> HIDE DEF p
    <2>5. Outcome(AtProtocolCase(s1))
      BY <2>1, <2>2, AtProtocolOutcome
    <2>6. Outcome(AtProtocolCase(s2))
      BY <2>1, <2>2, AtProtocolOutcome
    <2>7. p = "ON" => Outcome(AtProtocolCase(s3))
      BY <2>1, <2>2, AtProtocolOutcome
    <2> HIDE DEF s1, s2, s3
    <2> QED BY <2>3, <2>4, <2>5, <2>6, <2>7
  <1>5. CASE power_state \in {"AT_PROTOCOL", "AT_BUSY"}
    <2>1. Outcome(AtProtocolCase(Same))
      <3>1. Same.ps = power_state /\ Same.power = power /\ Same.at = at
        BY DEF Same
      <3>2. power \in Up /\ at # None /\ at \in AtAny
        BY <1>0, <1>5 DEF Agree, TypeInv
      <3>3. Same = [ps |-> Same.ps, power |-> Same.power, at |-> Same.at, age |-> Same.age]
        BY DEF Same
      <3> QED BY <1>5, <3>1, <3>2, <3>3, AtProtocolOutcome
    <2> QED BY <1>5, <2>1 DEF ApplyPowerState
  <1>6. CASE power_state = "AT_SHUTDOWN"
    <2> DEFINE t == [Same EXCEPT !.at = None, !.age.down = 0, !.ps = "AT_GRACE_DELAY"]
    <2>1. Outcome(t) /\ Outcome([t EXCEPT !.ps = "POWERING_OFF"])
      BY <1>0, <1>6 DEF Outcome, Same, TypeInv, Agree, Drives, Phases, AtAny, Up
    <2>2. Outcome([Same EXCEPT !.ps = "POWERING_OFF"])
      BY <1>0, <1>6 DEF Outcome, Same, TypeInv, Agree, Drives, Phases, AtAny, Up
    <2>3. ApplyPowerState = AtShutdownCase
      BY <1>6 DEF ApplyPowerState
    <2>4. \/ AtShutdownCase = Same \/ AtShutdownCase = t
          \/ AtShutdownCase = [t EXCEPT !.ps = "POWERING_OFF"]
          \/ AtShutdownCase = [Same EXCEPT !.ps = "POWERING_OFF"]
      BY DEF AtShutdownCase
    <2> HIDE DEF t
    <2> QED BY <1>1, <2>1, <2>2, <2>3, <2>4
  <1>7. CASE power_state = "AT_GRACE_DELAY"
    <2>1. Outcome([Same EXCEPT !.ps = "POWERING_OFF"])
      BY <1>0, <1>7 DEF Outcome, Same, TypeInv, Agree, Drives, Phases, AtAny, Up
    <2> QED BY <1>1, <1>7, <2>1 DEF ApplyPowerState
  <1>8. CASE power_state = "POWERING_OFF"
    <2> DEFINE p == PowerEnabled(FALSE)
               q == IF p = "OFF" THEN "POWER_OFF" ELSE "POWERING_OFF"
    <2>1. p \in {"OFF", "SHUTTING_DOWN"}
      BY <1>0, PowerTypes
    <2>2. ApplyPowerState = [ps |-> q, power |-> p, at |-> at, age |-> age]
      BY <1>8 DEF ApplyPowerState, PoweringOffCase, Same
    <2> HIDE DEF p
    <2> QED BY <1>0, <1>8, <2>1, <2>2
            DEF Outcome, TypeInv, Agree, Drives, Phases, PowerStates, Up
  <1> QED BY <1>0, <1>2, <1>3, <1>4, <1>5, <1>6, <1>7, <1>8 DEF TypeInv, Phases

\* The power key is pressed in the two phases that drive the power control.
LEMMA PressOff ==
    ASSUME IInv, Press, ApplyPowerState.power \in {"OFF", "SHUTTING_DOWN"},
           power_state = "POWERING_OFF"
    PROVE  ~target' /\ (ApplyPowerState.power = "OFF" => ~status)
  <1>1. ApplyPowerState.power = PowerEnabled(FALSE)
    BY DEF ApplyPowerState, PoweringOffCase, Same
  <1>2. power \in PowerStates \ {"UNKNOWN"} /\ Probed = power /\ status \in BOOLEAN
    BY DEF IInv, TypeInv, Agree, Probed
  <1>3. CASE power \in Up
    BY <1>1, <1>2, <1>3 DEF Press, KeyPressed, PowerEnabled, PowerDown, Up
  <1>4. CASE power \notin Up
    <2>1. ~target
      BY <1>2, <1>4 DEF IInv, OffOK, PowerStates, Up
    <2>2. target' = target
      BY <1>2, <1>4 DEF Press, KeyPressed, Up
    <2> QED BY <1>1, <1>2, <1>4, <2>1, <2>2 DEF IInv, OffOK, PowerEnabled, PowerDown, Up, PowerStates
  <1> QED BY <1>3, <1>4

LEMMA IterateInv == IInv /\ Iterate => IInv'
  <1> SUFFICES ASSUME IInv, Iterate PROVE IInv'
    OBVIOUS
  <1> DEFINE s     == ApplyPowerState
             fresh == power_state = "POWERING_ON" /\ s.ps = "AT_PROTOCOL"
             l     == IF fresh THEN None ELSE line
             drive == s.at # None /\ Drives(s.ps)
  <1>1. PICK d \in IF drive THEN Applied(s.at, l) ELSE {s.at} :
          /\ power' = s.power /\ at' = d
          /\ power_state' = IF d # None /\ BusyCount(d) # before.busy /\ ~PoweringDown(d)
                            THEN "AT_BUSY" ELSE s.ps
          /\ handling' \in BOOLEAN
          /\ handling' => ~(d # None /\ BusyCount(d) # before.busy /\ ~PoweringDown(d))
          /\ command' = IF target' = FALSE THEN None
                        ELSE IF fresh \/ (drive /\ status /\ Sent(s.at, l, d))
                        THEN d.awaits ELSE command
          /\ \E m \in BOOLEAN : before' = [before EXCEPT !.moved = m]
    BY DEF Iterate
  <1>2. Outcome(s)
    BY ApplyOutcome
  <1>3. handling /\ Press /\ UNCHANGED status
    BY DEF Iterate
  <1> HIDE DEF s
  <1>12. before' \in [busy : Nat, moved : BOOLEAN] /\ before'.busy = before.busy
    BY <1>1 DEF IInv, TypeInv
  <1>4. target' \in BOOLEAN
    BY <1>3 DEF Press, IInv, TypeInv
  <1>5. d \in AtAny /\ (d = None <=> s.at = None)
    <2>1. CASE drive
      <3>1. s.at \in AtDriver
        BY <1>2, <2>1 DEF Outcome, AtAny
      <3>2. d \in AtDriver
        BY <1>1, <2>1, <3>1, AppliedType
      <3> QED BY <2>1, <3>2, NoneAssumption DEF AtAny
    <2>2. CASE ~drive
      BY <1>1, <1>2, <2>2 DEF Outcome
    <2> QED BY <2>1, <2>2
  <1> DEFINE busy == d # None /\ BusyCount(d) # before.busy /\ ~PoweringDown(d)
  <1>6. busy => Drives(s.ps)
    <2> SUFFICES ASSUME ~Drives(s.ps), d # None PROVE ~busy
      OBVIOUS
    <2>1. d = s.at /\ s.at = at
      BY <1>1, <1>2, <1>5 DEF Outcome
    <2> QED BY <1>3, <2>1 DEF IInv, BusyOK, BusyCount
  <1>7. Agree(power_state', power', at')
    <2>1. Agree(s.ps, s.power, s.at) /\ (Drives(s.ps) => s.power \in Up)
      BY <1>2 DEF Outcome
    <2>2. CASE busy
      BY <1>1, <1>6, <2>1, <2>2 DEF Agree, Up
    <2>3. CASE ~busy
      BY <1>1, <1>5, <2>1, <2>3 DEF Agree
    <2> QED BY <2>2, <2>3
  <1>8. TypeInv'
    BY <1>1, <1>2, <1>3, <1>4, <1>5, <1>12 DEF IInv, TypeInv, Outcome, Phases
  <1>9. SilentOK'
    BY <1>1 DEF SilentOK
  <1>10. OffOK'
    <2>1. ASSUME s.power = "SHUTTING_DOWN" PROVE ~target'
      BY <1>2, <1>3, <2>1, PressOff DEF Outcome, s
    <2>2. ASSUME s.power = "OFF", s.ps \in {"POWERING_OFF", "POWER_OFF"}
          PROVE  ~status /\ ~target'
      <3>1. CASE power_state = "POWERING_OFF"
        BY <1>3, <2>2, <3>1, PressOff DEF s
      <3>2. CASE power_state = "POWER_OFF"
        <4>1. target' = target
          BY <1>3, <3>2 DEF Press
        <4>2. power = "OFF"
          BY <3>2 DEF IInv, Agree
        <4> QED BY <3>2, <4>1, <4>2 DEF IInv, OffOK
      <3> QED BY <1>2, <2>2, <3>1, <3>2 DEF Outcome
    <2>3. power_state' \in {"POWERING_OFF", "POWER_OFF"} => power_state' = s.ps
      BY <1>1
    <2> QED BY <1>1, <1>3, <2>1, <2>2, <2>3 DEF OffOK
  <1>11. BusyOK'
    BY <1>1, <1>12 DEF BusyOK, BusyCount
  <1> QED BY <1>7, <1>8, <1>9, <1>10, <1>11 DEF IInv

-----------------------------------------------------------------------------
(* The other steps *)

LEMMA HandlerInv == IInv /\ (HandleSignal \/ \E c \in Configs : SetConfig(c)) => IInv'
  <1> SUFFICES ASSUME IInv, HandleSignal \/ \E c \in Configs : SetConfig(c) PROVE IInv'
    OBVIOUS
  <1>1. /\ UNCHANGED <<power_state, power, at, status, target, command>>
        /\ handling' = TRUE /\ before' = [busy |-> BusyCount(at), moved |-> FALSE]
    BY DEF HandleSignal, SetConfig, Handle
  <1>2. BusyCount(at) \in Nat
    BY DEF BusyCount, IInv, TypeInv, AtAny, AtDriver
  <1>3. TypeInv'
    BY <1>1, <1>2 DEF IInv, TypeInv
  <1>4. BusyOK'
    BY <1>1 DEF BusyOK, BusyCount
  <1> QED BY <1>1, <1>3, <1>4 DEF IInv, Agree, SilentOK, OffOK

LEMMA TimerInv == IInv /\ HandleTimer => IInv'
  <1> SUFFICES ASSUME IInv, HandleTimer PROVE IInv'
    OBVIOUS
  <1>1. /\ UNCHANGED <<power, status, target, command>>
        /\ power_state' = IF power_state = "AT_BUSY" THEN "AT_PROTOCOL" ELSE power_state
        /\ handling' = TRUE /\ before' = [busy |-> BusyCount(at'), moved |-> FALSE]
    BY DEF HandleTimer, Handle
  <1>2. at' \in AtAny /\ (at' = None <=> at = None)
    <2>1. CASE at' = at
      BY <2>1 DEF IInv, TypeInv
    <2>2. CASE at' # at
      <3>1. at # None /\ at' = [Finished(at) EXCEPT !.at_ok = FALSE]
        BY <2>2 DEF HandleTimer, Outstanding
      <3>2. at \in AtDriver
        BY <3>1 DEF IInv, TypeInv, AtAny
      <3>3. at' \in AtDriver
        BY <3>1, <3>2, FinishedType, FieldTypes
      <3> QED BY <3>1, <3>3, NoneAssumption DEF AtAny
    <2> QED BY <2>1, <2>2
  <1>3. BusyCount(at') \in Nat
    BY <1>2 DEF BusyCount, AtAny, AtDriver
  <1>4. TypeInv'
    BY <1>1, <1>2, <1>3 DEF IInv, TypeInv, Phases
  <1>5. BusyOK'
    BY <1>1 DEF BusyOK, BusyCount
  <1>6. Agree(power_state', power', at')
    BY <1>1, <1>2 DEF IInv, Agree
  <1> QED BY <1>1, <1>4, <1>5, <1>6 DEF IInv, SilentOK, OffOK

LEMMA ModemInv == IInv /\ (StatusFollows \/ \E l : Answer(l)) => IInv'
  <1> SUFFICES ASSUME IInv, StatusFollows \/ \E l : Answer(l) PROVE IInv'
    OBVIOUS
  <1>1. UNCHANGED <<power_state, power, at, handling, before>>
    BY DEF StatusFollows, Answer
  <1>2. CASE StatusFollows
    BY <1>1, <1>2 DEF StatusFollows, IInv, TypeInv, Agree, SilentOK, OffOK, BusyOK
  <1>3. CASE \E l : Answer(l)
    <2>1. PICK l : Answer(l)
      BY <1>3
    <2>2. command # None
      <3>1. Answers # {}
        BY <2>1 DEF Answer
      <3> QED BY <3>1, NoneAssumption DEF Answers
    <2>3. target /\ command' = None /\ UNCHANGED status /\ target' \in BOOLEAN
      BY <2>1, <2>2 DEF Answer, IInv, SilentOK, TypeInv
    <2> QED BY <1>1, <2>3 DEF IInv, TypeInv, Agree, SilentOK, OffOK, BusyOK
  <1> QED BY <1>2, <1>3

LEMMA NextInv == IInv /\ [Next]_vars => IInv'
  <1> SUFFICES ASSUME IInv, [Next]_vars PROVE IInv'
    OBVIOUS
  <1>1. CASE UNCHANGED vars
    BY <1>1 DEF vars, IInv, TypeInv, Agree, SilentOK, OffOK, BusyOK
  <1> QED BY <1>1, IterateInv, HandlerInv, TimerInv, ModemInv DEF Next

(* The phases of Main, the power control, the AT driver and the modem fit  *)
(* together in every state (_apply_power_state, _handle_config).           *)
THEOREM PhasesAgree == Spec => []IInv
  BY InitIInv, NextInv, PTL DEF Spec

(* Main reaches its phases only in matching states of the power control    *)
(* and of the AT driver, and a modem reported to be off is and stays off.  *)
THEOREM StatesAlwaysAgree == Spec => []StatesAgree
  <1>1. IInv => StatesAgree
    BY DEF IInv, Agree, OffOK, StatesAgree, Up
  <1> QED BY PhasesAgree, <1>1, PTL


-----------------------------------------------------------------------------
(* The grace delay.  From the announcement of the modem on, Main notices   *)
(* that the AT driver is down before the time limit is looked at again,    *)
(* and then counts from a moment that is not earlier than the announcement *)
(* has been read.                                                          *)

Ages == [shutdown : Nat, down : Nat, progress : Nat]

AgeInv == age \in Ages /\ (announced # None => announced \in Nat)

Recent == announced # None /\ announced < GraceTicks

\* Where Main is within the delay
Announced(ps, d, a, h, n) ==
    \/ ps \in {"AT_PROTOCOL", "AT_BUSY"} /\ d.powered_down
    \/ /\ ps = "AT_SHUTDOWN" /\ d # None /\ d.powered_down
       /\ a.shutdown < LimitTicks /\ (h \/ a.shutdown = 0)
    \/ ps = "AT_GRACE_DELAY" /\ a.down <= n

GraceInv == Recent => Announced(power_state, at, age, handling, announced)

GInv == IInv /\ AgeInv /\ GraceInv

\* What is submitted does not touch powered_down
LEMMA SubmissionsKeep ==
    ASSUME NEW d \in AtDriver, NEW l, NEW e \in Applied(d, l)
    PROVE  e.powered_down = Scheduled(Read(d, l)).powered_down
  <1> DEFINE r == Read(d, l)
             s == Scheduled(r)
             b == r.down \/ (config.power = "off" /\ r.ready /\ ~r.powered_down)
  <1>1. r \in AtDriver
    BY ReadType
  <1> HIDE DEF r
  <1>2. b \in BOOLEAN /\ s = [r EXCEPT !.down = b]
    BY <1>1 DEF Scheduled, AtDriver
  <1>3. s \in AtDriver
    <2> HIDE DEF b, s
    <2> QED BY <1>1, <1>2, FieldTypes
  <1> HIDE DEF b, s
  <1>4. e \in Submissions(s)
    BY DEF Applied, s, r
  <1>5. CASE s.awaits # "nothing"
    <2>1. e = s
      BY <1>4, <1>5 DEF Submissions
    <2> QED BY <2>1 DEF s, r
  <1>6. CASE s.awaits = "nothing"
    <2> DEFINE A == IF ~s.at_ok \/ ~s.ready THEN {"other"}
                    ELSE IF s.down THEN {"power_down"} ELSE {"nothing", "other"}
    <2> DEFINE F(a, o) == [s EXCEPT !.awaits = a, !.outbound = o]
    <2>1. Submissions(s) = {F(a, o) : a \in A, o \in BOOLEAN}
      BY <1>6 DEF Submissions
    <2> HIDE DEF A, F
    <2>2. PICK a \in A, o \in BOOLEAN : e = F(a, o)
      BY <1>4, <2>1
    <2>3. e.powered_down = s.powered_down
      BY <1>3, <2>2 DEF AtDriver, F
    <2> QED BY <2>3 DEF s, r
  <1> QED BY <1>5, <1>6

LEMMA PoweredDownKept ==
    ASSUME NEW d \in AtDriver, NEW l, NEW e \in Applied(d, l),
           d.powered_down = TRUE \/ l = "POWERED DOWN"
    PROVE  e.powered_down = TRUE
  <1> DEFINE f == Finished(d)
             r == Read(d, l)
             b == r.down \/ (config.power = "off" /\ r.ready /\ ~r.powered_down)
             s == Scheduled(r)
  <1>7. e.powered_down = s.powered_down
    BY SubmissionsKeep
  <1>1. f \in AtDriver /\ f.powered_down = d.powered_down
    <2>1. f \in AtDriver
      BY FinishedType
    <2>2. f.powered_down = d.powered_down
      <3> DEFINE g == [d EXCEPT !.awaits = "nothing"]
                 c == d.down /\ d.awaits # "power_down"
      <3>1. g \in AtDriver /\ g.powered_down = d.powered_down
        BY FieldTypes DEF AtDriver
      <3>2. f = [g EXCEPT !.down = c]
        BY DEF Finished, AtDriver
      <3> HIDE DEF g, c, f
      <3> QED BY <3>1, <3>2 DEF AtDriver
    <2> QED BY <2>1, <2>2
  <1> HIDE DEF f
  <1>2. r \in AtDriver
    BY ReadType
  <1>3. r.powered_down
    <2>1. l = "POWERED DOWN" => r.powered_down = TRUE
      BY DEF Read, AtDriver
    <2>2. l # "POWERED DOWN" => r.powered_down = d.powered_down
      <3>1. l # "POWERED DOWN" =>
              \/ r = [f EXCEPT !.at_ok = TRUE, !.ready = TRUE]
              \/ r = [f EXCEPT !.at_ok = FALSE, !.ready = FALSE, !.down = FALSE]
              \/ r = [f EXCEPT !.busy = @ + 1]
              \/ r = d
        BY DEF Read, f
      <3> HIDE DEF r
      <3> QED BY <1>1, <3>1 DEF AtDriver
    <2> HIDE DEF r
    <2> QED BY <2>1, <2>2
  <1> HIDE DEF r
  <1>4. s \in AtDriver /\ s.powered_down = r.powered_down
    <2>1. b \in BOOLEAN /\ s = [r EXCEPT !.down = b]
      BY <1>2 DEF Scheduled, AtDriver
    <2> HIDE DEF b, s
    <2>2. s \in AtDriver
      BY <1>2, <2>1, FieldTypes
    <2>3. s.powered_down = r.powered_down
      BY <1>2, <2>1 DEF AtDriver
    <2> QED BY <2>2, <2>3
  <1> HIDE DEF s
  <1> QED BY <1>3, <1>4, <1>7

\* Off, a driver that is down leads to AT_SHUTDOWN with a fresh time limit
LEMMA AtProtocolAge ==
    ASSUME NEW p, NEW w, NEW d, NEW a \in Ages
    PROVE  LET t == AtProtocolCase([ps |-> p, power |-> w, at |-> d, age |-> a])
           IN  /\ t.age \in Ages /\ t.at = d /\ t.power = w
               /\ \/ t.ps = p
                  \/ t.ps = "POWERING_OFF" /\ d = None
                  \/ t.ps = "AT_SHUTDOWN" /\ t.age.shutdown = 0
  <1> DEFINE s == [ps |-> p, power |-> w, at |-> d, age |-> a]
             b == [a EXCEPT !.shutdown = 0]
             T(ps, x) == [ps |-> ps, power |-> w, at |-> d, age |-> x]
             t == AtProtocolCase(s)
  <1>1. b \in Ages /\ b.shutdown = 0
    BY DEF Ages
  <1>2. [s EXCEPT !.age.shutdown = 0] = T(p, b)
    OBVIOUS
  <1> HIDE DEF b
  <1>3. \A ps : [T(p, b) EXCEPT !.ps = ps] = T(ps, b)
    OBVIOUS
  <1>4. T(p, b).at = d /\ s.at = d
    OBVIOUS
  <1>5. \/ t = T(p, a) \/ t = T(p, b)
        \/ t = T("POWERING_OFF", b) /\ d = None
        \/ t = T("AT_SHUTDOWN", b)
    BY <1>2, <1>3, <1>4 DEF AtProtocolCase
  <1>6. \A ps, x : T(ps, x).ps = ps /\ T(ps, x).power = w /\ T(ps, x).at = d /\ T(ps, x).age = x
    OBVIOUS
  <1> HIDE DEF t, T
  <1>7. /\ t.age \in Ages /\ t.at = d /\ t.power = w
        /\ \/ t.ps = p
           \/ t.ps = "POWERING_OFF" /\ d = None
           \/ t.ps = "AT_SHUTDOWN" /\ t.age.shutdown = 0
    BY <1>1, <1>5, <1>6
  <1> QED BY <1>7 DEF t

\* What the machine of _apply_power_state leads to, as to the delay
GraceOutcome(s) ==
    /\ s.age \in Ages
    /\ power_state \in {"AT_PROTOCOL", "AT_BUSY"} /\ at # None =>
          s.at = at /\ (s.ps = power_state \/ s.ps = "AT_SHUTDOWN")
    /\ power_state = "AT_SHUTDOWN" /\ at # None /\ at.powered_down /\ ~LimitReached =>
          s.ps = "AT_GRACE_DELAY" /\ s.at = None /\ s.age.down = 0
    /\ power_state = "AT_GRACE_DELAY" /\ age.down < GraceTicks =>
          s.ps = power_state /\ s.at = at /\ s.age = age
    /\ s.ps = "AT_SHUTDOWN" =>
          \/ s.age.shutdown = 0
          \/ power_state = "AT_SHUTDOWN" /\ ~LimitReached
    /\ s.ps = "AT_SHUTDOWN" /\ power_state = "AT_SHUTDOWN" => s.age = age
    /\ power = "ON" /\ s.power # "ON" => power_state = "POWERING_OFF"

LEMMA ApplyGraceOutcome == IInv /\ AgeInv => GraceOutcome(ApplyPowerState)
  <1> SUFFICES ASSUME IInv, AgeInv PROVE GraceOutcome(ApplyPowerState)
    OBVIOUS
  <1>0. age \in Ages /\ GraceTicks \in Nat /\ LimitTicks \in Nat
    BY ModemMainAssumption DEF AgeInv
  <1> DEFINE s == ApplyPowerState
             S(ps, w, d, a) == [ps |-> ps, power |-> w, at |-> d, age |-> a]
             down == [age EXCEPT !.down = 0]
             shutdown == [age EXCEPT !.shutdown = 0]
  <1> SUFFICES GraceOutcome(s)
    OBVIOUS
  <1>1. /\ Same = S(power_state, power, at, age)
        /\ \A ps : [Same EXCEPT !.ps = ps] = S(ps, power, at, age)
    BY DEF Same
  <1>2. down \in Ages /\ down.down = 0 /\ shutdown \in Ages
    BY <1>0 DEF Ages
  <1>3. \A ps, w, d, a : /\ S(ps, w, d, a).ps = ps /\ S(ps, w, d, a).power = w
                         /\ S(ps, w, d, a).at = d /\ S(ps, w, d, a).age = a
    OBVIOUS
  <1>4. CASE power_state \in {"UNKNOWN", "POWER_OFF", "POWER_ON", "AT_GRACE_DELAY"}
    <2>1. [Same EXCEPT !.ps = "POWERING_OFF", !.age.shutdown = 0]
             = S("POWERING_OFF", power, at, shutdown)
      <3> DEFINE t == [Same EXCEPT !.ps = "POWERING_OFF"]
      <3>1. t = S("POWERING_OFF", power, at, age)
        BY <1>1
      <3>2. [S("POWERING_OFF", power, at, age) EXCEPT !.age.shutdown = 0]
              = S("POWERING_OFF", power, at, shutdown)
        OBVIOUS
      <3>3. [Same EXCEPT !.ps = "POWERING_OFF", !.age.shutdown = 0]
              = [t EXCEPT !.age.shutdown = 0]
        BY DEF Same
      <3> HIDE DEF t
      <3> QED BY <3>1, <3>2, <3>3
    <2> HIDE DEF S, shutdown
    <2>2. \/ s = S(power_state, power, at, age)
          \/ s = S("POWERING_ON", power, at, age) /\ power_state # "AT_GRACE_DELAY"
          \/ s = S("POWERING_OFF", power, at, shutdown) /\ power_state = "POWER_ON"
          \/ s = S("POWERING_OFF", power, at, age) /\ age.down >= GraceTicks
      BY <1>1, <1>4, <2>1 DEF ApplyPowerState
    <2> HIDE DEF s
    <2>3. age.down >= GraceTicks => ~(age.down < GraceTicks)
      BY <1>0 DEF Ages
    <2> QED BY <1>0, <1>2, <1>3, <1>4, <2>2, <2>3 DEF GraceOutcome
  <1>5. CASE power_state \in {"AT_PROTOCOL", "AT_BUSY"}
    <2>1. s = AtProtocolCase(S(power_state, power, at, age))
      BY <1>1, <1>5 DEF ApplyPowerState
    <2>2. /\ s.age \in Ages /\ s.at = at /\ s.power = power
          /\ \/ s.ps = power_state
             \/ s.ps = "POWERING_OFF" /\ at = None
             \/ s.ps = "AT_SHUTDOWN" /\ s.age.shutdown = 0
      BY <1>0, <2>1, AtProtocolAge
    <2> HIDE DEF s
    <2> QED BY <1>5, <2>2 DEF GraceOutcome
  <1>6. CASE power_state = "POWERING_ON"
    <2> DEFINE w == PowerEnabled(TRUE)
               x == S("POWERING_ON", w, at, age)
               y == S("AT_PROTOCOL", w, NewDriver, age)
               z == S("POWER_ON", w, at, age)
    <2>1. power = "ON" => w = "ON"
      BY DEF PowerEnabled, PowerUp, Probed
    <2>2. s \in {AtProtocolCase(x), AtProtocolCase(y), AtProtocolCase(z)}
      <3> HIDE DEF w
      <3>1. [Same EXCEPT !.power = w] = x
        BY <1>6 DEF Same
      <3>2. [x EXCEPT !.at = NewDriver, !.ps = "AT_PROTOCOL"] = y
        <4> DEFINE n == NewDriver
        <4> HIDE DEF n
        <4>1. [x EXCEPT !.at = n] = S("POWERING_ON", w, n, age)
          OBVIOUS
        <4>2. [S("POWERING_ON", w, n, age) EXCEPT !.ps = "AT_PROTOCOL"]
                = S("AT_PROTOCOL", w, n, age)
          OBVIOUS
        <4>3. [x EXCEPT !.at = n, !.ps = "AT_PROTOCOL"]
                = [[x EXCEPT !.at = n] EXCEPT !.ps = "AT_PROTOCOL"]
          OBVIOUS
        <4> QED BY <4>1, <4>2, <4>3 DEF n
      <3>3. [x EXCEPT !.ps = "POWER_ON"] = z
        OBVIOUS
      <3>4. x.power = w
        OBVIOUS
      <3> HIDE DEF x, y, z
      <3> QED BY <1>6, <3>1, <3>2, <3>3, <3>4 DEF ApplyPowerState, PoweringOnCase, w
    <2> HIDE DEF w
    <2>3. \A p, d : LET t == AtProtocolCase(S(p, w, d, age)) IN
            /\ t.age \in Ages /\ t.power = w
            /\ t.ps # "AT_SHUTDOWN" \/ t.age.shutdown = 0 \/ p = "AT_SHUTDOWN"
      BY <1>0, AtProtocolAge
    <2>4. /\ s.age \in Ages /\ s.power = w
          /\ s.ps # "AT_SHUTDOWN" \/ s.age.shutdown = 0
      <3> HIDE DEF S, s
      <3> QED BY <2>2, <2>3
    <2> HIDE DEF s
    <2> QED BY <1>6, <2>1, <2>4 DEF GraceOutcome
  <1>7. CASE power_state = "AT_SHUTDOWN"
    <2>1. [Same EXCEPT !.at = None, !.age.down = 0, !.ps = "AT_GRACE_DELAY"]
            = S("AT_GRACE_DELAY", power, None, down)
      <3> DEFINE t == [Same EXCEPT !.at = None]
                 u == [t EXCEPT !.age.down = 0]
      <3>1. t = S("AT_SHUTDOWN", power, None, age)
        BY <1>7 DEF Same
      <3>2. [S("AT_SHUTDOWN", power, None, age) EXCEPT !.age.down = 0]
              = S("AT_SHUTDOWN", power, None, down)
        OBVIOUS
      <3>3. [S("AT_SHUTDOWN", power, None, down) EXCEPT !.ps = "AT_GRACE_DELAY"]
              = S("AT_GRACE_DELAY", power, None, down)
        OBVIOUS
      <3>4. [Same EXCEPT !.at = None, !.age.down = 0, !.ps = "AT_GRACE_DELAY"]
              = [u EXCEPT !.ps = "AT_GRACE_DELAY"]
        BY DEF Same
      <3>5. u = S("AT_SHUTDOWN", power, None, down)
        <4> HIDE DEF t, S, down
        <4> QED BY <3>1, <3>2
      <3> HIDE DEF t, u, S, down
      <3> QED BY <3>3, <3>4, <3>5
    <2>2. [S("AT_GRACE_DELAY", power, None, down) EXCEPT !.ps = "POWERING_OFF"]
            = S("POWERING_OFF", power, None, down)
      OBVIOUS
    <2> HIDE DEF S, down
    <2>3. \/ s = S("AT_GRACE_DELAY", power, None, down)
          \/ s = S("POWERING_OFF", power, None, down) /\ LimitReached
          \/ s = S("POWERING_OFF", power, at, age) /\ LimitReached
          \/ s = S("AT_SHUTDOWN", power, at, age) /\ ~LimitReached /\ ~(at # None /\ at.powered_down)
      BY <1>1, <1>7, <2>1, <2>2 DEF ApplyPowerState, AtShutdownCase
    <2> HIDE DEF s
    <2> QED BY <1>0, <1>2, <1>3, <1>7, <2>3 DEF GraceOutcome
  <1>8. CASE power_state = "POWERING_OFF"
    <2> DEFINE w == PowerEnabled(FALSE)
               q == IF w = "OFF" THEN "POWER_OFF" ELSE "POWERING_OFF"
    <2>1. s = S(q, w, at, age)
      BY <1>8 DEF ApplyPowerState, PoweringOffCase, Same
    <2>2. q # "AT_SHUTDOWN"
      OBVIOUS
    <2> HIDE DEF S, s, w, q
    <2> QED BY <1>0, <1>3, <1>8, <2>1, <2>2 DEF GraceOutcome
  <1> QED BY <1>4, <1>5, <1>6, <1>7, <1>8 DEF IInv, TypeInv, Phases

LEMMA IterateGrace == GInv /\ Iterate => AgeInv' /\ GraceInv'
  <1> SUFFICES ASSUME GInv, Iterate PROVE AgeInv' /\ GraceInv'
    OBVIOUS
  <1>0. /\ IInv /\ AgeInv /\ GraceInv /\ IInv'
        /\ GraceTicks \in Nat /\ LimitTicks \in Nat /\ LimitTicks > 1
    BY IterateInv, ModemMainAssumption DEF GInv
  <1> DEFINE s     == ApplyPowerState
             fresh == power_state = "POWERING_ON" /\ s.ps = "AT_PROTOCOL"
             l     == IF fresh THEN None ELSE line
             drive == s.at # None /\ Drives(s.ps)
             Busy(d) == d # None /\ BusyCount(d) # before.busy /\ ~PoweringDown(d)
  <1>1. PICK d \in IF drive THEN Applied(s.at, l) ELSE {s.at} :
          /\ at' = d
          /\ power_state' = IF Busy(d) THEN "AT_BUSY" ELSE s.ps
          /\ drive /\ l # None => (handling' \/ Busy(d))
          /\ age' = s.age \/ age' = [s.age EXCEPT !.progress = 0]
          /\ announced' = IF fresh THEN None
                          ELSE IF drive /\ l = "POWERED DOWN" THEN 0 ELSE announced
    BY DEF Iterate
  <1>2. GraceOutcome(s) /\ Outcome(s)
    BY <1>0, ApplyGraceOutcome, ApplyOutcome
  <1> HIDE DEF s
  <1>3. age' \in Ages /\ age'.shutdown = s.age.shutdown /\ age'.down = s.age.down
    <2>1. s.age \in Ages
      BY <1>2 DEF GraceOutcome
    <2>2. CASE age' = s.age
      BY <2>1, <2>2
    <2>3. CASE age' = [s.age EXCEPT !.progress = 0]
      BY <2>1, <2>3 DEF Ages
    <2> QED BY <1>1, <2>2, <2>3
  <1>4. AgeInv'
    BY <1>0, <1>1, <1>3 DEF AgeInv
  <1>5. ASSUME drive, s.at.powered_down \/ l = "POWERED DOWN"
        PROVE  d # None /\ d.powered_down
    <2>1. s.at \in AtDriver /\ d \in Applied(s.at, l)
      BY <1>1, <1>2, <1>5 DEF Outcome, AtAny
    <2> HIDE DEF l, drive
    <2>2. d \in AtDriver
      BY <2>1, AppliedType
    <2>3. d.powered_down
      BY <1>5, <2>1, PoweredDownKept
    <2> QED BY <2>2, <2>3, NoneAssumption
  <1> HIDE DEF Busy
  <1>6. GraceInv'
    <2> SUFFICES ASSUME Recent' PROVE Announced(power_state', at', age', handling', announced')
      BY DEF GraceInv
    <2>1. ~fresh
      BY <1>1 DEF Recent
    <2>2. CASE drive /\ l = "POWERED DOWN"
      <3>1. d # None /\ d.powered_down
        BY <1>5, <2>2
      <3>2. s.ps \in {"AT_PROTOCOL", "AT_SHUTDOWN"}
        BY <2>2 DEF Drives
      <3>3. CASE power_state' \in {"AT_PROTOCOL", "AT_BUSY"}
        BY <1>1, <3>1, <3>3 DEF Announced
      <3>4. CASE power_state' = "AT_SHUTDOWN"
        <4>1. s.ps = "AT_SHUTDOWN" /\ ~Busy(d)
          BY <1>1, <3>4
        <4>2. "POWERED DOWN" # None
          BY NoneAssumption DEF Lines
        <4>3. handling' \/ age'.shutdown = 0
          BY <1>1, <2>2, <4>1, <4>2
        <4>4. age'.shutdown < LimitTicks
          BY <1>0, <1>2, <1>3, <4>1 DEF GraceOutcome, LimitReached, AgeInv, Ages
        <4> QED BY <1>1, <3>1, <3>4, <4>3, <4>4 DEF Announced
      <3> QED BY <1>1, <3>2, <3>3, <3>4
    <2>3. CASE ~(drive /\ l = "POWERED DOWN")
      <3>1. announced' = announced /\ Recent /\ announced \in Nat
        BY <1>0, <1>1, <2>1, <2>3 DEF Recent, AgeInv
      <3>2. Announced(power_state, at, age, handling, announced)
        BY <1>0, <3>1 DEF GraceInv
      <3>3. CASE power_state \in {"AT_PROTOCOL", "AT_BUSY"}
        <4>1. at # None /\ at.powered_down
          BY <1>0, <3>2, <3>3 DEF Announced, IInv, Agree
        <4>2. s.at = at /\ s.ps \in {"AT_PROTOCOL", "AT_BUSY", "AT_SHUTDOWN"}
          BY <1>2, <3>3, <4>1 DEF GraceOutcome
        <4>3. d # None /\ d.powered_down
          <5>1. CASE drive
            BY <1>5, <4>1, <4>2, <5>1
          <5>2. CASE ~drive
            BY <1>1, <4>1, <4>2, <5>2
          <5> QED BY <5>1, <5>2
        <4>4. s.ps = "AT_SHUTDOWN" => age'.shutdown = 0
          BY <1>2, <1>3, <3>3 DEF GraceOutcome
        <4>5. CASE power_state' \in {"AT_PROTOCOL", "AT_BUSY"}
          BY <1>1, <4>3, <4>5 DEF Announced
        <4>6. CASE power_state' = "AT_SHUTDOWN"
          <5>1. s.ps = "AT_SHUTDOWN"
            BY <1>1, <4>6
          <5>2. age'.shutdown = 0 /\ age'.shutdown < LimitTicks
            BY <1>0, <4>4, <5>1
          <5> QED BY <1>1, <4>3, <4>6, <5>2 DEF Announced
        <4> QED BY <1>1, <4>2, <4>5, <4>6
      <3>4. CASE power_state = "AT_SHUTDOWN"
        <4>1. at # None /\ at.powered_down /\ ~LimitReached
          BY <1>0, <3>2, <3>4 DEF Announced, LimitReached, AgeInv, Ages
        <4>2. s.ps = "AT_GRACE_DELAY" /\ s.at = None /\ s.age.down = 0
          BY <1>2, <3>4, <4>1 DEF GraceOutcome
        <4>3. d = None /\ ~Busy(d)
          BY <1>1, <4>2 DEF Busy
        <4> QED BY <1>1, <1>3, <3>1, <4>2, <4>3 DEF Announced
      <3>5. CASE power_state = "AT_GRACE_DELAY"
        <4>1. at = None /\ age.down <= announced /\ age.down < GraceTicks
          BY <1>0, <3>1, <3>2, <3>5 DEF Announced, IInv, Agree, Recent, AgeInv, Ages
        <4>2. s.ps = power_state /\ s.at = at /\ s.age = age
          BY <1>2, <3>5, <4>1 DEF GraceOutcome
        <4>3. d = None /\ ~Busy(d)
          BY <1>1, <4>1, <4>2 DEF Busy
        <4> QED BY <1>1, <1>3, <3>1, <3>5, <4>1, <4>2, <4>3 DEF Announced
      <3> QED BY <3>2, <3>3, <3>4, <3>5 DEF Announced
    <2> QED BY <2>2, <2>3
  <1> QED BY <1>4, <1>6

LEMMA TimerGrace == GInv /\ HandleTimer => AgeInv' /\ GraceInv'
  <1> SUFFICES ASSUME GInv, HandleTimer PROVE AgeInv' /\ GraceInv'
    OBVIOUS
  <1>0. /\ IInv /\ AgeInv /\ GraceInv /\ age \in Ages
        /\ GraceTicks \in Nat /\ LimitTicks \in Nat /\ LimitTicks > 1
    BY ModemMainAssumption DEF GInv, AgeInv
  <1>1. /\ age' = [shutdown |-> Tick(age.shutdown, LimitTicks),
                   down     |-> Tick(age.down, GraceTicks),
                   progress |-> Tick(age.progress, CommandTicks)]
        /\ announced' = IF announced = None THEN None ELSE Tick(announced, GraceTicks)
        /\ power_state' = IF power_state = "AT_BUSY" THEN "AT_PROTOCOL" ELSE power_state
        /\ ~handling /\ handling'
        /\ at' = at \/ (at # None /\ at' = [Finished(at) EXCEPT !.at_ok = FALSE])
    BY DEF HandleTimer, Handle, Outstanding
  <1>2. \A n \in Nat, m \in Nat : Tick(n, m) \in Nat
    BY DEF Tick
  <1>3. age' \in Ages
    BY <1>0, <1>1, <1>2 DEF Ages, CommandTicks
  <1>4. AgeInv'
    BY <1>0, <1>1, <1>2, <1>3 DEF AgeInv
  <1>5. ASSUME at # None, at.powered_down PROVE at' # None /\ at'.powered_down
    <2>1. CASE at' = at
      BY <1>5, <2>1
    <2>2. CASE at' = [Finished(at) EXCEPT !.at_ok = FALSE]
      <3> DEFINE f == Finished(at)
      <3>1. at \in AtDriver
        BY <1>0, <1>5 DEF IInv, TypeInv, AtAny
      <3>2. f \in AtDriver
        BY <3>1, FinishedType
      <3>3. f.powered_down = at.powered_down
        <4> DEFINE g == [at EXCEPT !.awaits = "nothing"]
                   c == at.down /\ at.awaits # "power_down"
        <4>1. g \in AtDriver /\ g.powered_down = at.powered_down
          BY <3>1, FieldTypes DEF AtDriver
        <4>2. f = [g EXCEPT !.down = c]
          BY <3>1 DEF Finished, AtDriver
        <4> HIDE DEF g, c, f
        <4> QED BY <4>1, <4>2 DEF AtDriver
      <3>4. at' = [f EXCEPT !.at_ok = FALSE]
        BY <2>2
      <3> HIDE DEF f
      <3>5. at' \in AtDriver
        BY <3>2, <3>4, FieldTypes
      <3>6. at'.powered_down = f.powered_down
        BY <3>2, <3>4 DEF AtDriver
      <3> QED BY <1>5, <3>3, <3>5, <3>6, NoneAssumption
    <2> QED BY <1>1, <2>1, <2>2
  <1>6. GraceInv'
    <2> SUFFICES ASSUME Recent' PROVE Announced(power_state', at', age', handling', announced')
      BY DEF GraceInv
    <2>1. announced # None /\ announced \in Nat
      BY <1>0, <1>1 DEF Recent, AgeInv
    <2>2. announced < GraceTicks /\ announced' = announced + 1
      BY <1>0, <1>1, <2>1 DEF Recent, Tick
    <2>3. Announced(power_state, at, age, handling, announced)
      BY <1>0, <2>1, <2>2 DEF GraceInv, Recent
    <2>4. CASE power_state \in {"AT_PROTOCOL", "AT_BUSY"}
      <3>1. at # None /\ at.powered_down
        BY <1>0, <2>3, <2>4 DEF Announced, IInv, Agree
      <3> QED BY <1>1, <1>5, <2>4, <3>1 DEF Announced
    <2>5. CASE power_state = "AT_SHUTDOWN"
      <3>1. at # None /\ at.powered_down /\ age.shutdown = 0
        BY <1>1, <2>3, <2>5 DEF Announced
      <3>2. age'.shutdown < LimitTicks
        BY <1>0, <1>1, <3>1 DEF Tick
      <3> QED BY <1>1, <1>5, <2>5, <3>1, <3>2 DEF Announced
    <2>6. CASE power_state = "AT_GRACE_DELAY"
      <3>1. age.down <= announced /\ age.down \in Nat
        BY <1>0, <2>3, <2>6 DEF Announced, Ages
      <3>2. age'.down <= announced'
        BY <1>0, <1>1, <2>1, <2>2, <3>1 DEF Tick
      <3> QED BY <1>1, <2>6, <3>2 DEF Announced
    <2> QED BY <2>3, <2>4, <2>5, <2>6 DEF Announced
  <1> QED BY <1>4, <1>6

LEMMA GraceInductive == GInv /\ [Next]_vars => GInv'
  <1> SUFFICES ASSUME GInv, [Next]_vars PROVE GInv'
    OBVIOUS
  <1>0. IInv'
    BY NextInv DEF GInv
  <1>1. ASSUME UNCHANGED <<power_state, at, age, announced>>, handling' = handling \/ handling'
        PROVE  AgeInv' /\ GraceInv'
    BY <1>1 DEF GInv, AgeInv, GraceInv, Recent, Announced
  <1>2. CASE Iterate
    BY <1>0, <1>2, IterateGrace DEF GInv
  <1>3. CASE HandleTimer
    BY <1>0, <1>3, TimerGrace DEF GInv
  <1>4. CASE HandleSignal \/ \E c \in Configs : SetConfig(c)
    BY <1>0, <1>1, <1>4 DEF HandleSignal, SetConfig, Handle, GInv
  <1>5. CASE StatusFollows \/ \E l \in Lines : Answer(l)
    BY <1>0, <1>1, <1>5 DEF StatusFollows, Answer, GInv
  <1>6. CASE UNCHANGED vars
    BY <1>0, <1>1, <1>6 DEF vars, GInv
  <1> QED BY <1>2, <1>3, <1>4, <1>5, <1>6 DEF Next

(* Once the modem has announced to be down, the power key is not touched   *)
(* before the grace delay has passed (AT_GRACE_DELAY), for any delay, and  *)
(* any time limit that exceeds one tick of the timer.                      *)
THEOREM GraceAlwaysObserved == Spec => GraceObserved
  <1>1. Init => GInv
    BY InitIInv DEF Init, GInv, AgeInv, Ages, GraceInv, Recent
  <1>2. Spec => []GInv
    BY <1>1, GraceInductive, PTL DEF Spec
  <1>3. GInv /\ [Next]_vars =>
          [(power = "ON" /\ power' # "ON") => announced = None \/ announced >= GraceTicks]_vars
    <2> SUFFICES ASSUME GInv, [Next]_vars, power = "ON", power' # "ON"
                 PROVE  announced = None \/ announced >= GraceTicks
      OBVIOUS
    <2>1. Iterate
      BY DEF Next, vars, HandleSignal, SetConfig, HandleTimer, StatusFollows, Answer
    <2>2. power_state = "POWERING_OFF"
      <3>1. power' = ApplyPowerState.power
        BY <2>1 DEF Iterate
      <3>2. GraceOutcome(ApplyPowerState)
        BY ApplyGraceOutcome DEF GInv
      <3> QED BY <3>1, <3>2 DEF GraceOutcome
    <2>3. ~Recent
      BY <2>2 DEF GInv, GraceInv, Announced
    <2> QED BY <2>3, ModemMainAssumption DEF Recent, GInv, AgeInv
  <1> QED BY <1>2, <1>3, PTL DEF Spec, GraceObserved
====
