--------------------------- MODULE AtProtocolProof ---------------------------
(***************************************************************************)
(* Proofs about the dialogue with the modem:                               *)
(*                                                                         *)
(*   - the AT protocol has one command in flight at most,                  *)
(*   - when the modem is prompt and the user has one PIN and no calls, an  *)
(*     answer completes no other command than its own, a modem that echoes *)
(*     is told nothing but to stop it, and the SIM card is never blocked,  *)
(*   - for a user with one number, a call that ended is not dialled again, *)
(*   - the line reader below it hands over the modem's lines unharmed.     *)
(***************************************************************************)
EXTENDS AtProtocol, LineBuffer, FiniteSetTheorems, FunctionTheorems, SequenceTheorems,
        WellFoundedInduction, TLAPS

(***************************************************************************)
(* One command in flight.  No rule of Control submits an operation.        *)
(***************************************************************************)
\* Control has a state for each operation
Shape(c) == "op" \in DOMAIN c /\ DOMAIN c.op = Ops

\* d follows from c without a command being submitted
Quiet(c, d) == Shape(d) /\ \A o \in Ops : Submitted(d, o) => Submitted(c, o)

InFlightInv ==
    /\ Shape(ct)
    /\ \A o, p \in Ops : Submitted(ct, o) /\ Submitted(ct, p) => o = p

-------------------------------------------------------------------------------
(* The steps the rules are made of *)

LEMMA QuietSame == ASSUME NEW c, Shape(c) PROVE Quiet(c, c)
BY DEF Quiet

LEMMA QuietTransitive ==
    ASSUME NEW b, NEW c, NEW d, Quiet(b, c), Quiet(c, d)
    PROVE  Quiet(b, d)
BY DEF Quiet

LEMMA ConstructQuiet ==
    ASSUME NEW c, Shape(c), NEW o, NEW a
    PROVE  Quiet(c, Construct(c, o, a))
<1>   DEFINE new == [state |-> "PENDING", arg |-> a]
             op == [c.op EXCEPT ![o] = new]
             d == [c EXCEPT !.op = op]
<1>1. Construct(c, o, a) = d
      BY DEF Construct
<1>2. new.state = "PENDING"
      OBVIOUS
<1>   HIDE DEF new
<1>3. DOMAIN op = Ops /\ \A p \in Ops : op[p] = IF p = o THEN new ELSE c.op[p]
      BY DEF Shape
<1>   HIDE DEF op
<1>4. "op" \in DOMAIN d /\ d.op = op
      BY DEF Shape
<1>   HIDE DEF d
<1>   QED BY <1>1, <1>2, <1>3, <1>4 DEF Quiet, Shape, Submitted, Constructed

LEMMA DestructQuiet ==
    ASSUME NEW c, Shape(c), NEW o
    PROVE  Quiet(c, Destruct(c, o))
<1>   DEFINE op == [c.op EXCEPT ![o] = None]
             d == [c EXCEPT !.op = op]
<1>1. Destruct(c, o) = d
      BY DEF Destruct
<1>2. DOMAIN op = Ops /\ \A p \in Ops : op[p] = IF p = o THEN None ELSE c.op[p]
      BY DEF Shape
<1>   HIDE DEF op
<1>3. "op" \in DOMAIN d /\ d.op = op
      BY DEF Shape
<1>   HIDE DEF d
<1>   QED BY <1>1, <1>2, <1>3 DEF Quiet, Shape, Submitted, Constructed

LEMMA AssureQuiet ==
    ASSUME NEW c, Shape(c), NEW o, NEW a
    PROVE  Quiet(c, Assure(c, o, a))
BY ConstructQuiet, QuietSame DEF Assure

LEMMA ConditionalQuiet ==
    ASSUME NEW c, Shape(c), NEW o, NEW cond
    PROVE  Quiet(c, Conditional(c, o, cond))
BY AssureQuiet, DestructQuiet DEF Conditional

\* Members other than the operations may change
LEMMA MembersQuiet ==
    ASSUME NEW c, Shape(c), NEW x
    PROVE  /\ Quiet(c, [c EXCEPT !.current_pin = x])
           /\ Quiet(c, [c EXCEPT !.current_ring_count = x])
           /\ Quiet(c, [c EXCEPT !.outbound = x])
<1>1. ASSUME NEW d, "op" \in DOMAIN d, d.op = c.op PROVE Quiet(c, d)
      BY <1>1 DEF Quiet, Shape, Submitted, Constructed
<1>   QED BY <1>1 DEF Shape

LEMMA CancelAllQuiet ==
    ASSUME NEW c, Shape(c)
    PROVE  Quiet(c, CancelAll(c))
<1>   DEFINE op == [o \in Ops |-> None]
             d == [c EXCEPT !.op = op]
<1>1. CancelAll(c) = d
      BY DEF CancelAll
<1>2. DOMAIN op = Ops /\ \A o \in Ops : op[o] = None
      OBVIOUS
<1>   HIDE DEF op
<1>3. "op" \in DOMAIN d /\ d.op = op
      BY DEF Shape
<1>   HIDE DEF d
<1>   QED BY <1>1, <1>2, <1>3 DEF Quiet, Shape, Submitted, Constructed

LEMMA CancelSubmittedQuiet ==
    ASSUME NEW c, Shape(c)
    PROVE  Quiet(c, CancelSubmitted(c))
<1>   DEFINE op == [o \in Ops |-> IF Submitted(c, o) THEN None ELSE c.op[o]]
             d == [c EXCEPT !.op = op]
<1>1. CancelSubmitted(c) = d
      BY DEF CancelSubmitted
<1>2. /\ DOMAIN op = Ops
      /\ \A o \in Ops : op[o] = IF Submitted(c, o) THEN None ELSE c.op[o]
      OBVIOUS
<1>   HIDE DEF op
<1>3. "op" \in DOMAIN d /\ d.op = op
      BY DEF Shape
<1>   HIDE DEF d
<1>   QED BY <1>1, <1>2, <1>3 DEF Quiet, Shape, Submitted, Constructed

LEMMA CompleteQuiet ==
    ASSUME NEW c, Shape(c)
    PROVE  Quiet(c, CompleteOperation(c))
<1>   DEFINE first == SelectInSeq(Operations, LAMBDA o : Submitted(c, o))
<1>1. CompleteOperation(c) = IF st.ok /\ first # 0 THEN Destruct(c, Operations[first]) ELSE c
      BY DEF CompleteOperation
<1>   HIDE DEF first
<1>   QED BY <1>1, DestructQuiet, QuietSame

-------------------------------------------------------------------------------
(* The rules of _apply_config *)

LEMMA QcfgQuiet ==
    ASSUME NEW c, Shape(c)
    PROVE  Quiet(c, ApplyQcfg(c))
<1>   DEFINE c1 == IF Submitted(c, "query_qcfg") /\ st.error
                   THEN Destruct(c, "query_qcfg") ELSE c
             c2 == IF InState("UNKNOWN") = {} THEN c1
                   ELSE Assure(c1, "query_qcfg", CHOOSE e \in InState("UNKNOWN") : TRUE)
             c3 == IF InState("MISMATCH") = {} THEN c2
                   ELSE Assure(c2, "assign_qcfg", CHOOSE e \in InState("MISMATCH") : TRUE)
<1>1. ApplyQcfg(c) = IF RebootNeeded /\ ~Constructed(c3, "reboot")
                     THEN StartReboot(c3) ELSE c3
      BY DEF ApplyQcfg
<1>2. Quiet(c, c1)
      BY DestructQuiet, QuietSame
<1>   HIDE DEF c1
<1>3. Quiet(c1, c2)
      BY <1>2, AssureQuiet, QuietSame DEF Quiet
<1>   HIDE DEF c2
<1>4. Quiet(c2, c3)
      BY <1>3, AssureQuiet, QuietSame DEF Quiet
<1>   HIDE DEF c3
<1>5. Quiet(c, c3)
      BY <1>2, <1>3, <1>4, QuietTransitive
<1>6. Quiet(c3, StartReboot(c3))
  <2>   DEFINE d == CancelAll(c3)
               e == Construct(d, "reboot", None)
  <2>1. Quiet(c3, d)
        BY <1>5, CancelAllQuiet DEF Quiet
  <2>   HIDE DEF d
  <2>2. Quiet(d, e)
        BY <2>1, ConstructQuiet DEF Quiet
  <2>   HIDE DEF e
  <2>3. Quiet(e, [e EXCEPT !.current_pin = None])
        BY <2>2, MembersQuiet DEF Quiet
  <2>   QED BY <2>1, <2>2, <2>3, QuietTransitive DEF StartReboot, d, e
<1>   QED BY <1>1, <1>5, <1>6, QuietTransitive

LEMMA PinQuiet ==
    ASSUME NEW c, Shape(c), NEW pin
    PROVE  Quiet(c, ApplyPin(c, pin))
<1>   DEFINE c1 == IF Submitted(c, "request_pin_state") /\ st.cme_error
                   THEN Destruct(c, "request_pin_state") ELSE c
             failed == Assure(Destruct(c1, "set_pin"), "request_pin_count", None)
             asked == Assure(c1, "request_pin_state", None)
             set == Construct(c1, "set_pin", pin)
<1>1. Quiet(c, c1)
      BY DestructQuiet, QuietSame
<1>2. ApplyPin(c, pin) \in {failed, asked, [set EXCEPT !.current_pin = pin], c1}
      BY DEF ApplyPin
<1>   HIDE DEF c1
<1>3. Quiet(c1, failed)
  <2>   DEFINE d == Destruct(c1, "set_pin")
  <2>1. Quiet(c1, d)
        BY <1>1, DestructQuiet DEF Quiet
  <2>   HIDE DEF d
  <2>2. Quiet(d, Assure(d, "request_pin_count", None))
        BY <2>1, AssureQuiet DEF Quiet
  <2>   QED BY <2>1, <2>2, QuietTransitive DEF d
<1>4. Quiet(c1, asked)
      BY <1>1, AssureQuiet DEF Quiet
<1>5. Quiet(c1, [set EXCEPT !.current_pin = pin])
  <2>1. Quiet(c1, set)
        BY <1>1, ConstructQuiet DEF Quiet
  <2>   HIDE DEF set
  <2>2. Quiet(set, [set EXCEPT !.current_pin = pin])
        BY <2>1, MembersQuiet DEF Quiet
  <2>   QED BY <2>1, <2>2, QuietTransitive
<1>   HIDE DEF failed, asked, set
<1>   QED BY <1>1, <1>2, <1>3, <1>4, <1>5, QuietTransitive

LEMMA PowerQuiet ==
    ASSUME NEW c, Shape(c), NEW off
    PROVE  Quiet(c, ApplyPower(c, off))
<1>   DEFINE c1 == IF Submitted(c, "power_down") /\ st.error
                   THEN Destruct(c, "power_down") ELSE c
<1>1. Quiet(c, c1)
      BY DestructQuiet, QuietSame
<1>2. ApplyPower(c, off) \in {Assure(c1, "power_down", None), c1}
      BY DEF ApplyPower
<1>   HIDE DEF c1
<1>3. Quiet(c1, Assure(c1, "power_down", None))
      BY <1>1, AssureQuiet DEF Quiet
<1>   QED BY <1>1, <1>2, <1>3, QuietTransitive

LEMMA HangUpQuiet ==
    ASSUME NEW c, Shape(c), NEW call
    PROVE  Quiet(c, ApplyHangUp(c, call))
<1>   DEFINE d == Construct(c, "hang_up", None)
             c1 == IF c.outbound # None /\ (call = None \/ Rejected(call))
                   THEN [d EXCEPT !.outbound = None] ELSE c
<1>1. ApplyHangUp(c, call) \in {c, c1, Construct(c1, "hang_up", None)}
      BY DEF ApplyHangUp
<1>2. Quiet(c, d)
      BY ConstructQuiet
<1>3. Quiet(c, [d EXCEPT !.outbound = None])
  <2>   HIDE DEF d
  <2>1. Quiet(d, [d EXCEPT !.outbound = None])
        BY <1>2, MembersQuiet DEF Quiet
  <2>   QED BY <1>2, <2>1, QuietTransitive
<1>4. Quiet(c, c1)
      BY <1>3, QuietSame
<1>   HIDE DEF c1
<1>5. Quiet(c1, Construct(c1, "hang_up", None))
      BY <1>4, ConstructQuiet DEF Quiet
<1>   QED BY <1>1, <1>4, <1>5, QuietTransitive, QuietSame

LEMMA CallListQuiet ==
    ASSUME NEW c, Shape(c)
    PROVE  Quiet(c, KeepCallListUpToDate(c))
BY DestructQuiet, AssureQuiet, QuietSame DEF KeepCallListUpToDate

LEMMA CallQuiet ==
    ASSUME NEW c, Shape(c), NEW call
    PROVE  Quiet(c, ApplyCall(c, call))
<1>1. ASSUME NEW b, Shape(b) PROVE Quiet(b, NoteCall(b))
  <2>   DEFINE x == [b.outbound EXCEPT !.call = st.current_call]
  <2>1. NoteCall(b) \in {[b EXCEPT !.outbound = x], b}
        BY DEF NoteCall
  <2>   HIDE DEF x
  <2>   QED BY <1>1, <2>1, MembersQuiet, QuietSame
<1>2. ASSUME NEW b, Shape(b), NEW accepted PROVE Quiet(b, AcceptCall(b, accepted))
      BY <1>2, AssureQuiet, QuietSame DEF AcceptCall
<1>3. ASSUME NEW b, Shape(b), NEW number PROVE Quiet(b, ForgetOutbound(b, number))
      BY <1>3, MembersQuiet, QuietSame DEF ForgetOutbound
<1>4. ASSUME NEW b, Shape(b), NEW number, NEW accepted
      PROVE  Quiet(b, InitiateCall(b, number, accepted))
  <2>   DEFINE x == [call |-> [number |-> number, stat |-> "DIALING"],
                     no_carrier_count |-> st.no_carrier_count]
               d == Construct(b, "initiate_call", number)
  <2>1. InitiateCall(b, number, accepted) \in {[d EXCEPT !.outbound = x], b}
        BY DEF InitiateCall
  <2>2. Quiet(b, d)
        BY <1>4, ConstructQuiet
  <2>   HIDE DEF x, d
  <2>3. Quiet(d, [d EXCEPT !.outbound = x])
        BY <2>2, MembersQuiet DEF Quiet
  <2>   QED BY <1>4, <2>1, <2>2, <2>3, QuietTransitive, QuietSame
<1>   DEFINE accepted == call.state \in {"none", "accepted"}
             c1 == NoteCall(c)
             c2 == AcceptCall(c1, accepted)
             c3 == ForgetOutbound(c2, call.number)
             c4 == InitiateCall(c3, call.number, accepted)
<1>5. ApplyCall(c, call) \in {c, c4}
      BY DEF ApplyCall
<1>   HIDE DEF accepted
<1>6. Quiet(c, c1)
      BY <1>1
<1>   HIDE DEF c1
<1>7. Quiet(c1, c2)
      BY <1>2, <1>6 DEF Quiet
<1>   HIDE DEF c2
<1>8. Quiet(c2, c3)
      BY <1>3, <1>7 DEF Quiet
<1>   HIDE DEF c3
<1>9. Quiet(c3, c4)
      BY <1>4, <1>8 DEF Quiet
<1>   HIDE DEF c4
<1>   QED BY <1>5, <1>6, <1>7, <1>8, <1>9, QuietTransitive, QuietSame

LEMMA RingQuiet ==
    ASSUME NEW c, Shape(c), NEW ring
    PROVE  Quiet(c, ApplyRing(c, ring))
<1>   DEFINE d == Construct(c, "ring", None)
<1>1. ApplyRing(c, ring) \in {[d EXCEPT !.current_ring_count = st.ring_count], c}
      BY DEF ApplyRing
<1>2. Quiet(c, d)
      BY ConstructQuiet
<1>   HIDE DEF d
<1>3. Quiet(d, [d EXCEPT !.current_ring_count = st.ring_count])
      BY <1>2, MembersQuiet DEF Quiet
<1>   QED BY <1>1, <1>2, <1>3, QuietTransitive, QuietSame

LEMMA RulesQuiet ==
    ASSUME NEW c, Shape(c), NEW cfg
    PROVE  Quiet(c, ControlApplyConfig(c, cfg))
<1>   DEFINE c1 == Conditional(c, "disable_echo", ~st.echo_disabled /\ st.at_ok)
             q == ApplyQcfg(c1)
             p == ApplyPin(q, cfg.pin)
             c2 == ApplyPower(p, cfg.off)
             h == ApplyHangUp(c2, cfg.call)
             c3 == KeepCallListUpToDate(h)
             c4 == ApplyCall(c3, cfg.call)
             c5 == ApplyRing(c4, cfg.ring)
<1>1. ControlApplyConfig(c, cfg) \in {c, c1, c5}
      BY DEF ControlApplyConfig
<1>2. Quiet(c, c1)
      BY ConditionalQuiet
<1>   HIDE DEF c1
<1>3. Quiet(c1, q)
      BY <1>2, QcfgQuiet DEF Quiet
<1>   HIDE DEF q
<1>4. Quiet(q, p)
      BY <1>3, PinQuiet DEF Quiet
<1>   HIDE DEF p
<1>5. Quiet(p, c2)
      BY <1>4, PowerQuiet DEF Quiet
<1>   HIDE DEF c2
<1>6. Quiet(c2, h)
      BY <1>5, HangUpQuiet DEF Quiet
<1>   HIDE DEF h
<1>7. Quiet(h, c3)
      BY <1>6, CallListQuiet DEF Quiet
<1>   HIDE DEF c3
<1>8. Quiet(c3, c4)
      BY <1>7, CallQuiet DEF Quiet
<1>   HIDE DEF c4
<1>9. Quiet(c4, c5)
      BY <1>8, RingQuiet DEF Quiet
<1>   HIDE DEF c5
<1>10. Quiet(c, q) /\ Quiet(q, c2) /\ Quiet(c2, c3) /\ Quiet(c3, c5)
       BY <1>2, <1>3, <1>4, <1>5, <1>6, <1>7, <1>8, <1>9, QuietTransitive
<1>   QED BY <1>1, <1>2, <1>10, QuietTransitive, QuietSame

-------------------------------------------------------------------------------
(* The driver *)

LEMMA QuietKeeps ==
    ASSUME InFlightInv, NEW d, Quiet(ct, d)
    PROVE  Shape(d) /\ \A o, p \in Ops : Submitted(d, o) /\ Submitted(d, p) => o = p
BY DEF InFlightInv, Quiet

LEMMA ApplyConfigInv == InFlightInv /\ ApplyConfig => InFlightInv'
<1>   SUFFICES ASSUME InFlightInv, ApplyConfig PROVE InFlightInv'
      OBVIOUS
<1>   DEFINE d == CompleteOperation(ct)
             e == Conditional(d, "check_ready", ~st.at_ok)
             c == ControlApplyConfig(e, config)
             i == NextPending(c)
             submitted == [c EXCEPT !.op[Operations[i]].state = "SUBMITTED"]
<1>1. ct' = IF SubmitAllowed(c) /\ i # 0 THEN submitted ELSE c
      BY DEF ApplyConfig
<1>2. Quiet(ct, d)
      BY CompleteQuiet DEF InFlightInv
<1>   HIDE DEF d
<1>3. Quiet(d, e)
      BY <1>2, ConditionalQuiet DEF Quiet
<1>   HIDE DEF e
<1>4. Quiet(e, c)
      BY <1>3, RulesQuiet DEF Quiet
<1>   HIDE DEF c, i
<1>5. Quiet(ct, c)
      BY <1>2, <1>3, <1>4, QuietTransitive
<1>6. CASE ct' = c
      BY <1>5, <1>6, QuietKeeps DEF InFlightInv, Shape, Submitted, Constructed
<1>7. CASE SubmitAllowed(c) /\ ct' = submitted
  <2>   DEFINE o == Operations[i]
               x == [c.op[o] EXCEPT !.state = "SUBMITTED"]
               op == [c.op EXCEPT ![o] = x]
               s == [c EXCEPT !.op = op]
  <2>1. ct' = s
        BY <1>7
  <2>2. \A p \in Ops : ~Submitted(c, p)
        BY <1>7 DEF SubmitAllowed, InFlight
  <2>   HIDE DEF o, x
  <2>3. DOMAIN op = Ops /\ \A p \in Ops : p # o => op[p] = c.op[p]
        BY <1>5 DEF Quiet, Shape
  <2>   HIDE DEF op
  <2>4. "op" \in DOMAIN s /\ s.op = op
        BY <1>5 DEF Quiet, Shape
  <2>   HIDE DEF s
  <2>5. Shape(ct') /\ \A p \in Ops : Submitted(ct', p) => p = o
        BY <2>1, <2>2, <2>3, <2>4 DEF Shape, Submitted, Constructed
  <2>   QED BY <2>5 DEF InFlightInv
<1>   QED BY <1>1, <1>6, <1>7

LEMMA InitInv == Init => InFlightInv
<1>   SUFFICES ASSUME Init PROVE InFlightInv
      OBVIOUS
<1>1. "op" \in DOMAIN ct /\ ct.op = [o \in Ops |-> None]
      BY DEF Init, InitControl
<1>2. Shape(ct) /\ \A o \in Ops : ct.op[o] = None
      BY <1>1 DEF Shape
<1>   QED BY <1>2 DEF InFlightInv, Submitted, Constructed

LEMMA NextInv == InFlightInv /\ [Next]_vars => InFlightInv'
<1>   SUFFICES ASSUME InFlightInv, [Next]_vars PROVE InFlightInv'
      OBVIOUS
<1>1. CASE UNCHANGED ct
      BY <1>1 DEF InFlightInv, Shape, Submitted, Constructed
<1>2. CASE ApplyConfig
      BY <1>2, ApplyConfigInv
<1>3. ASSUME NEW timeout \in BOOLEAN, HandleTimer(timeout), ct' # ct
      PROVE  InFlightInv'
  <2>1. ct' = CancelSubmitted(ct)
        BY <1>3 DEF HandleTimer
  <2>2. Quiet(ct, ct')
        BY <2>1, CancelSubmittedQuiet DEF InFlightInv
  <2>   QED BY <2>2, QuietKeeps DEF InFlightInv, Shape, Submitted, Constructed
<1>4. CASE ModemNext
      BY <1>1, <1>4 DEF ModemNext, ModemAnswers, ModemRefuses, ModemBoots, SimAvailable,
                        RemoteCalls, RingsAgain, RemotePicksUp, RemoteHangsUp
<1>5. CASE ReadLine \/ \E cfg \in Configs : SetConfig(cfg)
      BY <1>1, <1>5 DEF ReadLine, SetConfig
<1>   QED BY <1>1, <1>2, <1>3, <1>4, <1>5 DEF Next, DriverNext, vars

\* For any configurations, modem and bounds: however the rules construct, drop and
\* replace operations, the modem owes the driver one answer at most.
THEOREM OneCommandInFlight == Spec => []OneInFlight
<1>1. InFlightInv => OneInFlight
  <2>   SUFFICES ASSUME InFlightInv PROVE Cardinality(InFlight(ct)) <= 1
        BY DEF OneInFlight
  <2>1. CASE InFlight(ct) = {}
        BY <2>1, FS_EmptySet
  <2>2. ASSUME NEW o \in InFlight(ct) PROVE Cardinality(InFlight(ct)) <= 1
    <3>1. InFlight(ct) = {o}
          BY <2>2 DEF InFlight, InFlightInv
    <3>   QED BY <3>1, FS_Singleton
  <2>   QED BY <2>1, <2>2
<1>2. Spec => []InFlightInv
      BY InitInv, NextInv, PTL DEF Spec
<1>   QED BY <1>1, <1>2, PTL

-------------------------------------------------------------------------------
(***************************************************************************)
(* The lines of the modem.  The stream is what was consumed, followed by   *)
(* the buffer and by what is still unread; unless a line was too long, the *)
(* consumed part ends with a line and its lines are those handed over.     *)
(***************************************************************************)
Characters == Letters \union {EOL}

LineTypeInv ==
    /\ sent \in Seq(Characters) /\ unread \in Seq(Characters) /\ buffer \in Seq(Characters)
    /\ handling \in {"no", "fill", "consume"}
    /\ lines \in Seq(Seq(Characters))

\* How far the stream is consumed, that is handed over or dropped
ConsumedTo == Len(sent) - Len(buffer) - Len(unread)
Consumed   == SubSeq(sent, 1, ConsumedTo)

\* The rest of the stream is in the buffer and in the terminal session
StreamInv ==
    /\ ConsumedTo >= 0
    /\ \A i \in 1 .. Len(buffer) : buffer[i] = sent[ConsumedTo + i]
    /\ \A i \in 1 .. Len(unread) : unread[i] = sent[ConsumedTo + Len(buffer) + i]

AtBoundary(s) == s = <<>> \/ s[Len(s)] = EOL

\* Each rank is taken: the completed lines can be counted
Ranked(S) == \A n \in 1 .. Cardinality(S) : \E i \in S : Nth(S, i) = n

ConsumedInv ==
    ~TooLong(sent) => /\ AtBoundary(Consumed)
                      /\ Ranked(Completed(Consumed))
                      /\ lines = LinesOf(Consumed)

BufferInv ==
    handling # "consume" => EndsOfLine = {} /\ Len(buffer) <= MAX_LINE_LEN

LineInv == LineTypeInv /\ StreamInv /\ ConsumedInv /\ BufferInv

LEMMA Minimum ==
    ASSUME NEW S \in SUBSET Nat, S # {}
    PROVE  \E m \in S : \A x \in S : m <= x
<1>1. \E m \in S : \A x \in S : ~(<<x, m>> \in OpToRel(<, Nat))
      BY NatLessThanWellFounded, WFMin
<1>2. PICK m \in S : \A x \in S : ~(<<x, m>> \in OpToRel(<, Nat))
      BY <1>1
<1>3. ASSUME NEW x \in S PROVE m <= x
  <2>1. x \in Nat /\ m \in Nat /\ ~(x < m)
        BY <1>2 DEF OpToRel
  <2>   QED BY <2>1
<1>   QED BY <1>3

\* The last character of the line that starts at a place, and the only one
IsEnd(s, i, j) ==
    /\ j \in i .. Len(s)
    /\ \A k \in i .. j : s[k] # EOL
    /\ j = Len(s) \/ s[j + 1] = EOL

LEMMA EndIs ==
    ASSUME NEW s \in Seq(Characters), NEW i \in 1 .. Len(s), NEW j, IsEnd(s, i, j)
    PROVE  EndOf(s, i) = j
<1>1. ASSUME NEW k, IsEnd(s, i, k) PROVE k = j
  <2>1. /\ Len(s) \in Nat /\ i \in Nat /\ j \in i .. Len(s) /\ k \in i .. Len(s)
        /\ \A l \in i .. j : s[l] # EOL
        /\ j = Len(s) \/ s[j + 1] = EOL
        /\ \A l \in i .. k : s[l] # EOL
        /\ k = Len(s) \/ s[k + 1] = EOL
        BY <1>1 DEF IsEnd
  <2>2. ~(k < j)
    <3>1. SUFFICES ASSUME k < j PROVE FALSE
          OBVIOUS
    <3>2. k + 1 \in i .. j /\ k # Len(s)
          BY <2>1, <3>1
    <3>   QED BY <2>1, <3>2
  <2>3. ~(j < k)
    <3>1. SUFFICES ASSUME j < k PROVE FALSE
          OBVIOUS
    <3>2. j + 1 \in i .. k /\ j # Len(s)
          BY <2>1, <3>1
    <3>   QED BY <2>1, <3>2
  <2>   QED BY <2>1, <2>2, <2>3
<1>2. EndOf(s, i) = CHOOSE k \in i .. Len(s) : IsEnd(s, i, k)
      BY DEF EndOf, IsEnd
<1>3. j \in i .. Len(s)
      BY DEF IsEnd
<1>   HIDE DEF IsEnd
<1>   QED BY <1>1, <1>2, <1>3

LEMMA EndExists ==
    ASSUME NEW s \in Seq(Characters), NEW i \in Starts(s)
    PROVE  i \in 1 .. Len(s) /\ IsEnd(s, i, EndOf(s, i))
<1>1. i \in 1 .. Len(s) /\ s[i] # EOL /\ Len(s) \in Nat
      BY DEF Starts
<1>   DEFINE S == {j \in i .. Len(s) : j = Len(s) \/ s[j + 1] = EOL}
<1>2. PICK m \in S : \A x \in S : m <= x
  <2>1. S \in SUBSET Nat /\ Len(s) \in S
        BY <1>1
  <2>   HIDE DEF S
  <2>   QED BY <2>1, Minimum
<1>3. ASSUME NEW k \in i .. m PROVE s[k] # EOL
  <2>1. CASE k = i
        BY <1>1, <2>1
  <2>2. CASE k # i
    <3>1. k - 1 \in i .. Len(s) /\ k - 1 < m /\ (k - 1) + 1 = k
          BY <1>1, <2>2
    <3>2. k - 1 \notin S
      <4>1. \A x \in S : m <= x
            BY <1>2
      <4>2. m \in Int /\ k - 1 \in Int /\ ~(m <= k - 1)
            BY <1>1, <3>1
      <4>   HIDE DEF S
      <4>   QED BY <4>1, <4>2
    <3>   QED BY <3>1, <3>2
  <2>   QED BY <2>1, <2>2
<1>4. IsEnd(s, i, m)
      BY <1>1, <1>3 DEF IsEnd
<1>   QED BY <1>1, <1>4, EndIs

\* A stream grows from p to q
Grows(p, q) ==
    /\ p \in Seq(Characters) /\ q \in Seq(Characters)
    /\ Len(p) <= Len(q)
    /\ \A i \in 1 .. Len(p) : q[i] = p[i]

\* Lines get longer only
LEMMA TooLongStays ==
    ASSUME NEW p, NEW q, Grows(p, q), TooLong(p)
    PROVE  TooLong(q)
<1>1. /\ p \in Seq(Characters) /\ q \in Seq(Characters) /\ Len(p) \in Nat /\ Len(q) \in Nat
      /\ Len(p) <= Len(q) /\ \A i \in 1 .. Len(p) : q[i] = p[i]
      BY DEF Grows
<1>2. PICK i \in Starts(p) : EndOf(p, i) - i + 1 > MAX_LINE_LEN
      BY DEF TooLong
<1>3. i \in 1 .. Len(p) /\ IsEnd(p, i, EndOf(p, i))
      BY <1>1, EndExists
<1>4. i \in Starts(q)
  <2>1. i \in DOMAIN p /\ p[i] # EOL /\ (i = 1 \/ p[i - 1] = EOL)
        BY DEF Starts
  <2>2. i \in DOMAIN q /\ q[i] = p[i] /\ (i # 1 => q[i - 1] = p[i - 1])
        BY <1>1, <1>3
  <2>   QED BY <2>1, <2>2 DEF Starts
<1>5. IsEnd(q, i, EndOf(q, i))
      BY <1>1, <1>4, EndExists
<1>   DEFINE e == EndOf(p, i)
             f == EndOf(q, i)
<1>6. /\ e \in i .. Len(p) /\ \A k \in i .. e : p[k] # EOL
      /\ f \in i .. Len(q)
      /\ f = Len(q) \/ q[f + 1] = EOL
      BY <1>3, <1>5 DEF IsEnd
<1>7. f \in Int /\ e <= f
  <2>   HIDE DEF e, f
  <2>1. SUFFICES ASSUME f < e PROVE FALSE
        BY <1>1, <1>3, <1>6
  <2>2. f + 1 \in i .. e /\ f + 1 \in 1 .. Len(p) /\ f # Len(q)
        BY <1>1, <1>3, <1>6, <2>1
  <2>   QED BY <1>1, <1>6, <2>2
<1>8. e - i + 1 > MAX_LINE_LEN
      BY <1>2
<1>9. f - i + 1 > MAX_LINE_LEN
      BY <1>1, <1>3, <1>6, <1>7, <1>8, LineAssumption
<1>   QED BY <1>4, <1>9 DEF TooLong

\* After a whole line follow k characters of a line and then only ends of lines
AddsLine(p, q, k) ==
    /\ Grows(p, q) /\ AtBoundary(p)
    /\ k \in 0 .. Len(q) - Len(p)
    /\ \A i \in 1 .. k : q[Len(p) + i] # EOL
    /\ \A i \in Len(p) + k + 1 .. Len(q) : q[i] = EOL

\* The line that was added, if it is complete and not empty
Added(p, q, k) == IF k > 0 /\ Len(p) + k < Len(q) THEN {Len(p) + 1} ELSE {}

LEMMA CompletedIn ==
    ASSUME NEW s \in Seq(Characters)
    PROVE  /\ Completed(s) \in SUBSET (1 .. Len(s))
           /\ IsFiniteSet(Completed(s)) /\ Cardinality(Completed(s)) \in Nat
<1>1. Len(s) \in Nat /\ Completed(s) \in SUBSET (1 .. Len(s))
      BY DEF Completed, Starts
<1>2. IsFiniteSet(1 .. Len(s))
      BY <1>1, FS_Interval
<1>   QED BY <1>1, <1>2, FS_Subset, FS_CardinalityType

LEMMA SameLine ==
    ASSUME NEW p, NEW q, NEW k, AddsLine(p, q, k), NEW i \in 1 .. Len(p)
    PROVE  /\ i \in Completed(q) <=> i \in Completed(p)
           /\ i \in Completed(p) => EndOf(q, i) = EndOf(p, i)
<1>1. /\ p \in Seq(Characters) /\ q \in Seq(Characters) /\ Len(p) \in Nat /\ Len(q) \in Nat
      /\ Len(p) <= Len(q) /\ \A j \in 1 .. Len(p) : q[j] = p[j]
      /\ p[Len(p)] = EOL
      BY DEF AddsLine, Grows, AtBoundary
<1>2. i \in Starts(q) <=> i \in Starts(p)
  <2>1. /\ i \in DOMAIN p /\ i \in DOMAIN q /\ q[i] = p[i] /\ (i # 1 => q[i - 1] = p[i - 1])
        BY <1>1
  <2>   QED BY <2>1 DEF Starts
<1>3. ASSUME i \in Starts(p)
      PROVE  EndOf(p, i) < Len(p) /\ EndOf(p, i) < Len(q) /\ EndOf(q, i) = EndOf(p, i)
  <2>   DEFINE e == EndOf(p, i)
  <2>1. /\ e \in i .. Len(p) /\ \A j \in i .. e : p[j] # EOL
        /\ e = Len(p) \/ p[e + 1] = EOL
        BY <1>1, <1>3, EndExists DEF IsEnd
  <2>   HIDE DEF e
  <2>2. e < Len(p) /\ e + 1 \in 1 .. Len(p)
        BY <1>1, <2>1
  <2>3. e \in i .. Len(q) /\ (\A j \in i .. e : q[j] # EOL) /\ q[e + 1] = EOL
    <3>1. ASSUME NEW j \in i .. e PROVE q[j] # EOL
      <4>1. j \in 1 .. Len(p)
            BY <1>1, <2>1
      <4>   QED BY <1>1, <2>1, <4>1
    <3>   QED BY <1>1, <2>1, <2>2, <3>1
  <2>4. IsEnd(q, i, e) /\ i \in 1 .. Len(q)
        BY <1>1, <2>3 DEF IsEnd
  <2>5. EndOf(q, i) = e
        BY <1>1, <2>4, EndIs
  <2>   QED BY <1>1, <2>1, <2>2, <2>5 DEF e
<1>   QED BY <1>2, <1>3 DEF Completed

LEMMA NewLine ==
    ASSUME NEW p, NEW q, NEW k, AddsLine(p, q, k)
    PROVE  /\ Completed(q) = Completed(p) \union Added(p, q, k)
           /\ k > 0 => EndOf(q, Len(p) + 1) = Len(p) + k
<1>1. /\ p \in Seq(Characters) /\ q \in Seq(Characters) /\ Len(p) \in Nat /\ Len(q) \in Nat
      /\ Len(p) <= Len(q) /\ k \in 0 .. Len(q) - Len(p)
      /\ \A i \in 1 .. k : q[Len(p) + i] # EOL
      /\ \A i \in Len(p) + k + 1 .. Len(q) : q[i] = EOL
      BY DEF AddsLine, Grows
<1>2. Len(p) > 0 => q[Len(p)] = EOL
      BY <1>1 DEF AddsLine, Grows, AtBoundary
<1>3. ASSUME NEW i \in Len(p) + 1 .. Len(q)
      PROVE  i \in Starts(q) <=> k > 0 /\ i = Len(p) + 1
  <2>1. CASE i > Len(p) + k
    <3>1. q[i] = EOL
          BY <1>1, <2>1
    <3>   QED BY <1>1, <2>1, <3>1 DEF Starts
  <2>2. CASE i <= Len(p) + k /\ i # Len(p) + 1
    <3>1. i - 1 = Len(p) + (i - 1 - Len(p)) /\ i - 1 - Len(p) \in 1 .. k /\ i # 1
          BY <1>1, <2>2
    <3>2. q[i - 1] # EOL
          BY <1>1, <3>1
    <3>   QED BY <2>2, <3>1, <3>2 DEF Starts
  <2>3. CASE i <= Len(p) + k /\ i = Len(p) + 1
    <3>1. q[i] # EOL /\ i \in DOMAIN q /\ (i # 1 => q[i - 1] = EOL) /\ k > 0
      <4>1. 1 \in 1 .. k
            BY <1>1, <2>3
      <4>   QED BY <1>1, <1>2, <2>3, <4>1
    <3>   QED BY <2>3, <3>1 DEF Starts
  <2>   QED BY <1>1, <2>1, <2>2, <2>3
<1>4. ASSUME k > 0 PROVE EndOf(q, Len(p) + 1) = Len(p) + k
  <2>1. ASSUME NEW j \in Len(p) + 1 .. Len(p) + k PROVE q[j] # EOL
    <3>1. j - Len(p) \in 1 .. k /\ Len(p) + (j - Len(p)) = j
          BY <1>1
    <3>   QED BY <1>1, <3>1
  <2>2. /\ Len(p) + k \in Len(p) + 1 .. Len(q)
        /\ Len(p) + k = Len(q) \/ Len(p) + k + 1 \in Len(p) + k + 1 .. Len(q)
        BY <1>1, <1>4
  <2>3. IsEnd(q, Len(p) + 1, Len(p) + k)
        BY <1>1, <2>1, <2>2 DEF IsEnd
  <2>   QED BY <1>1, <1>4, <2>2, <2>3, EndIs
<1>5. ASSUME NEW i \in 1 .. Len(q)
      PROVE  i \in Completed(q) <=> i \in Completed(p) \union Added(p, q, k)
  <2>1. CASE i <= Len(p)
    <3>1. i \in Completed(q) <=> i \in Completed(p)
          BY <1>1, <2>1, SameLine
    <3>   QED BY <1>1, <2>1, <3>1 DEF Added
  <2>2. CASE i > Len(p)
    <3>1. i \notin Completed(p)
          BY <1>1, <2>2, CompletedIn
    <3>2. i \in Starts(q) <=> k > 0 /\ i = Len(p) + 1
          BY <1>1, <1>3, <2>2
    <3>   QED BY <1>1, <1>4, <3>1, <3>2 DEF Added, Completed
  <2>   QED BY <1>1, <2>1, <2>2
<1>6. Completed(q) \subseteq 1 .. Len(q) /\ Completed(p) \union Added(p, q, k) \subseteq 1 .. Len(q)
  <2>1. Completed(q) \subseteq 1 .. Len(q) /\ Completed(p) \subseteq 1 .. Len(p)
        BY <1>1, CompletedIn
  <2>   QED BY <1>1, <2>1 DEF Added
<1>   QED BY <1>4, <1>5, <1>6

\* Ranks are unique
LEMMA RankOnce ==
    ASSUME NEW S \in SUBSET Nat, IsFiniteSet(S), NEW i \in S, NEW j \in S
    PROVE  /\ Nth(S, i) \in 1 .. Cardinality(S)
           /\ Nth(S, i) = Nth(S, j) => i = j
<1>   DEFINE Upto(m) == {l \in S : l <= m}
<1>1. ASSUME NEW m \in S, NEW l \in S, m < l PROVE Cardinality(Upto(m)) # Cardinality(Upto(l))
  <2>0. m \in Nat /\ l \in Nat /\ (\A x \in S : x \in Nat) /\ m < l
        BY <1>1
  <2>1. /\ Upto(l) \in SUBSET S /\ Upto(m) \in SUBSET Upto(l)
        /\ l \in Upto(l) /\ l \notin Upto(m)
    <3>1. \A x \in S : x <= m => x <= l
          BY <2>0
    <3>2. l <= l /\ ~(l <= m)
          BY <2>0
    <3>   QED BY <3>1, <3>2
  <2>   HIDE DEF Upto
  <2>2. IsFiniteSet(Upto(l))
        BY <2>1, FS_Subset
  <2>   QED BY <2>1, <2>2, FS_Subset
<1>2. Cardinality(Upto(i)) \in 1 .. Cardinality(S)
  <2>1. Upto(i) \in SUBSET S /\ i \in Upto(i)
        OBVIOUS
  <2>   HIDE DEF Upto
  <2>2. IsFiniteSet(Upto(i)) /\ Cardinality(Upto(i)) <= Cardinality(S)
        BY <2>1, FS_Subset
  <2>3. Cardinality(Upto(i)) \in Nat /\ Cardinality(Upto(i)) # 0 /\ Cardinality(S) \in Nat
        BY <2>1, <2>2, FS_EmptySet, FS_CardinalityType
  <2>   QED BY <2>2, <2>3
<1>3. Nth(S, i) = Cardinality(Upto(i)) /\ Nth(S, j) = Cardinality(Upto(j))
      BY DEF Nth
<1>   HIDE DEF Upto
<1>   QED BY <1>1, <1>2, <1>3

\* What a line of a stream is
LEMMA LineAt ==
    ASSUME NEW s \in Seq(Characters), NEW i \in Completed(s)
    PROVE  /\ Nth(Completed(s), i) \in 1 .. Cardinality(Completed(s))
           /\ LinesOf(s)[Nth(Completed(s), i)] = SubSeq(s, i, EndOf(s, i))
           /\ SubSeq(s, i, EndOf(s, i)) \in Seq(Characters)
<1>   DEFINE C == Completed(s)
<1>1. C \in SUBSET Nat /\ IsFiniteSet(C) /\ C \in SUBSET (1 .. Len(s)) /\ Len(s) \in Nat
      BY CompletedIn
<1>2. i \in Starts(s) /\ EndOf(s, i) \in i .. Len(s)
      BY EndExists DEF Completed, IsEnd
<1>   HIDE DEF C
<1>3. Nth(C, i) \in 1 .. Cardinality(C) /\ \A j \in C : Nth(C, j) = Nth(C, i) => j = i
  <2>1. i \in C
        BY DEF C
  <2>   QED BY <1>1, <2>1, RankOnce
<1>4. (CHOOSE j \in C : Nth(C, j) = Nth(C, i)) = i
  <2>1. i \in C
        BY DEF C
  <2>   QED BY <1>3, <2>1
<1>5. LinesOf(s)[Nth(C, i)] = SubSeq(s, i, EndOf(s, i))
  <2>1. LinesOf(s) = [n \in 1 .. Cardinality(C) |->
                         SubSeq(s, CHOOSE j \in C : Nth(C, j) = n,
                                   EndOf(s, CHOOSE j \in C : Nth(C, j) = n))]
        BY DEF LinesOf, C
  <2>   QED BY <1>3, <1>4, <2>1
<1>6. SubSeq(s, i, EndOf(s, i)) \in Seq(Characters)
  <2>1. i \in Int /\ EndOf(s, i) \in Int /\ \A k \in i .. EndOf(s, i) : s[k] \in Characters
    <3>1. i \in 1 .. Len(s)
          BY <1>1 DEF C
    <3>   QED BY <1>1, <1>2, <3>1
  <2>   QED BY <2>1, SubSeqProperties
<1>   QED BY <1>3, <1>5, <1>6 DEF C

LEMMA LinesAreLines ==
    ASSUME NEW s \in Seq(Characters), Ranked(Completed(s))
    PROVE  /\ LinesOf(s) \in Seq(Seq(Characters))
           /\ Len(LinesOf(s)) = Cardinality(Completed(s))
<1>   DEFINE n == Cardinality(Completed(s))
<1>1. n \in Nat
      BY CompletedIn
<1>2. ASSUME NEW m \in 1 .. n PROVE LinesOf(s)[m] \in Seq(Characters)
  <2>1. PICK i \in Completed(s) : Nth(Completed(s), i) = m
        BY DEF Ranked
  <2>   QED BY <2>1, LineAt
<1>   DEFINE Text(m) == LET i == CHOOSE i \in Completed(s) : Nth(Completed(s), i) = m
                       IN  SubSeq(s, i, EndOf(s, i))
<1>3. LinesOf(s) = [m \in 1 .. n |-> Text(m)]
      BY DEF LinesOf
<1>   HIDE DEF n, Text
<1>4. LinesOf(s) \in [1 .. n -> Seq(Characters)]
      BY <1>2, <1>3
<1>5. LinesOf(s) \in Seq(Seq(Characters))
      BY <1>1, <1>4, SeqDef
<1>6. Len(LinesOf(s)) = n
      BY <1>1, <1>3, <1>5, LenProperties
<1>   QED BY <1>5, <1>6 DEF n

LEMMA RanksKept ==
    ASSUME NEW p, NEW q, NEW k, AddsLine(p, q, k), NEW i \in Completed(p)
    PROVE  Nth(Completed(q), i) = Nth(Completed(p), i)
<1>1. Completed(p) \subseteq 1 .. Len(p) /\ Len(p) \in Nat
      BY CompletedIn DEF AddsLine, Grows
<1>2. Completed(q) = Completed(p) \union Added(p, q, k)
      BY NewLine
<1>3. \A j \in Added(p, q, k) : j = Len(p) + 1
      BY DEF Added
<1>4. {j \in Completed(q) : j <= i} = {j \in Completed(p) : j <= i}
      BY <1>1, <1>2, <1>3
<1>   QED BY <1>4 DEF Nth

LEMMA NewRank ==
    ASSUME NEW p, NEW q, NEW k, AddsLine(p, q, k), Added(p, q, k) # {}
    PROVE  /\ Cardinality(Completed(q)) = Cardinality(Completed(p)) + 1
           /\ Len(p) + 1 \in Completed(q)
           /\ Nth(Completed(q), Len(p) + 1) = Cardinality(Completed(p)) + 1
<1>1. Completed(p) \subseteq 1 .. Len(p) /\ Len(p) \in Nat /\ IsFiniteSet(Completed(p))
      BY CompletedIn DEF AddsLine, Grows
<1>2. Completed(q) = Completed(p) \union {Len(p) + 1}
      BY NewLine DEF Added
<1>3. Len(p) + 1 \notin Completed(p)
      BY <1>1
<1>4. Cardinality(Completed(q)) = Cardinality(Completed(p)) + 1
      BY <1>1, <1>2, <1>3, FS_AddElement
<1>5. {j \in Completed(q) : j <= Len(p) + 1} = Completed(q)
      BY <1>1, <1>2
<1>   QED BY <1>2, <1>4, <1>5 DEF Nth

LEMMA SameText ==
    ASSUME NEW p, NEW q, Grows(p, q), NEW i \in 1 .. Len(p), NEW e \in i .. Len(p)
    PROVE  SubSeq(q, i, e) = SubSeq(p, i, e)
<1>1. /\ p \in Seq(Characters) /\ q \in Seq(Characters) /\ Len(p) \in Nat /\ Len(q) \in Nat
      /\ Len(p) <= Len(q) /\ \A j \in 1 .. Len(p) : q[j] = p[j]
      BY DEF Grows
<1>2. /\ i \in Int /\ e \in Int
      /\ \A j \in i .. e : p[j] \in Characters /\ q[j] \in Characters /\ q[j] = p[j]
      BY <1>1
<1>3. /\ SubSeq(p, i, e) \in Seq(Characters)
      /\ Len(SubSeq(p, i, e)) = e - i + 1
      /\ \A j \in 1 .. e - i + 1 : SubSeq(p, i, e)[j] = p[i + j - 1]
      BY <1>2, SubSeqProperties
<1>4. /\ SubSeq(q, i, e) \in Seq(Characters)
      /\ Len(SubSeq(q, i, e)) = e - i + 1
      /\ \A j \in 1 .. e - i + 1 : SubSeq(q, i, e)[j] = q[i + j - 1]
      BY <1>2, SubSeqProperties
<1>5. \A j \in 1 .. e - i + 1 : q[i + j - 1] = p[i + j - 1]
      BY <1>2
<1>   QED BY <1>3, <1>4, <1>5, SeqEqual

LEMMA LinesAdded ==
    ASSUME NEW p, NEW q, NEW k, AddsLine(p, q, k), Ranked(Completed(p))
    PROVE  /\ Ranked(Completed(q))
           /\ LinesOf(q) = IF Added(p, q, k) = {} THEN LinesOf(p)
                           ELSE Append(LinesOf(p), SubSeq(q, Len(p) + 1, Len(p) + k))
<1>   DEFINE C == Completed(p)
             D == Completed(q)
             n == Cardinality(C)
             added == IF Added(p, q, k) = {} THEN 0 ELSE 1
             text == SubSeq(q, Len(p) + 1, Len(p) + k)
<1>1. p \in Seq(Characters) /\ q \in Seq(Characters) /\ Len(p) \in Nat /\ Grows(p, q)
      BY DEF AddsLine, Grows
<1>2. /\ n \in Nat /\ Cardinality(D) = n + added /\ C \subseteq D /\ C \subseteq 1 .. Len(p)
      /\ Added(p, q, k) # {} => Len(p) + 1 \in D /\ Nth(D, Len(p) + 1) = n + 1 /\ k > 0
  <2>1. n \in Nat /\ C \subseteq 1 .. Len(p)
        BY <1>1, CompletedIn
  <2>2. D = C \union Added(p, q, k)
        BY NewLine
  <2>3. CASE Added(p, q, k) = {}
        BY <2>1, <2>2, <2>3
  <2>4. CASE Added(p, q, k) # {}
        BY <2>1, <2>2, <2>4, NewRank DEF Added
  <2>   QED BY <2>3, <2>4
<1>3. ASSUME NEW m \in 1 .. n
      PROVE  \E i \in D : Nth(D, i) = m /\ LinesOf(q)[m] = LinesOf(p)[m]
  <2>1. PICK i \in C : Nth(C, i) = m
        BY DEF Ranked
  <2>2. i \in D /\ Nth(D, i) = m
        BY <1>2, <2>1, RanksKept
  <2>3. LinesOf(q)[m] = SubSeq(q, i, EndOf(q, i)) /\ LinesOf(p)[m] = SubSeq(p, i, EndOf(p, i))
        BY <1>1, <2>1, <2>2, LineAt
  <2>4. i \in 1 .. Len(p) /\ EndOf(q, i) = EndOf(p, i) /\ EndOf(p, i) \in i .. Len(p)
    <3>1. i \in 1 .. Len(p) /\ i \in Starts(p)
          BY <1>2, <2>1 DEF Completed
    <3>2. EndOf(p, i) \in i .. Len(p)
          BY <1>1, <3>1, EndExists DEF IsEnd
    <3>   QED BY <2>1, <3>1, <3>2, SameLine
  <2>   QED BY <1>1, <2>2, <2>3, <2>4, SameText
<1>4. ASSUME Added(p, q, k) # {}
      PROVE  LinesOf(q)[n + 1] = text /\ text \in Seq(Characters)
  <2>1. Len(p) + 1 \in D /\ Nth(D, Len(p) + 1) = n + 1 /\ EndOf(q, Len(p) + 1) = Len(p) + k
        BY <1>2, <1>4, NewLine
  <2>   QED BY <1>1, <2>1, LineAt
<1>   HIDE DEF C, n, text
<1>5. Ranked(D)
  <2>1. SUFFICES ASSUME NEW m \in 1 .. Cardinality(D) PROVE \E i \in D : Nth(D, i) = m
        BY DEF Ranked
  <2>2. CASE m \in 1 .. n
        BY <1>3, <2>2
  <2>3. CASE m \notin 1 .. n
    <3>1. m = n + 1 /\ Added(p, q, k) # {}
          BY <1>2, <2>1, <2>3
    <3>   QED BY <1>2, <3>1
  <2>   QED BY <2>2, <2>3
<1>6. /\ LinesOf(p) \in Seq(Seq(Characters)) /\ Len(LinesOf(p)) = n
      /\ LinesOf(q) \in Seq(Seq(Characters)) /\ Len(LinesOf(q)) = n + added
      BY <1>1, <1>2, <1>5, LinesAreLines DEF n, C
<1>   HIDE DEF D
<1>7. CASE Added(p, q, k) = {}
  <2>1. Len(LinesOf(q)) = n /\ \A m \in 1 .. n : LinesOf(q)[m] = LinesOf(p)[m]
        BY <1>2, <1>3, <1>6, <1>7
  <2>2. LinesOf(q) = LinesOf(p)
        BY <1>6, <2>1, SeqEqual
  <2>   QED BY <1>5, <1>7, <2>2 DEF D
<1>8. CASE Added(p, q, k) # {}
  <2>1. /\ Append(LinesOf(p), text) \in Seq(Seq(Characters))
        /\ Len(Append(LinesOf(p), text)) = n + 1
        /\ \A m \in 1 .. n : Append(LinesOf(p), text)[m] = LinesOf(p)[m]
        /\ Append(LinesOf(p), text)[n + 1] = text
        BY <1>2, <1>4, <1>6, <1>8, AppendProperties
  <2>2. Len(LinesOf(q)) = n + 1 /\ \A m \in 1 .. n : LinesOf(q)[m] = LinesOf(p)[m]
        BY <1>2, <1>3, <1>6, <1>8
  <2>3. \A m \in 1 .. n + 1 : LinesOf(q)[m] = Append(LinesOf(p), text)[m]
        BY <1>2, <1>4, <1>8, <2>1, <2>2
  <2>4. LinesOf(q) = Append(LinesOf(p), text)
        BY <1>6, <2>1, <2>2, <2>3, SeqEqual
  <2>   QED BY <1>5, <1>8, <2>4 DEF D, text
<1>   QED BY <1>7, <1>8

LEMMA PrefixIs ==
    ASSUME NEW s \in Seq(Characters), NEW n \in 0 .. Len(s)
    PROVE  /\ SubSeq(s, 1, n) \in Seq(Characters) /\ Len(SubSeq(s, 1, n)) = n
           /\ \A i \in 1 .. n : SubSeq(s, 1, n)[i] = s[i]
<1>1. Len(s) \in Nat /\ n \in Int
      BY LenProperties
<1>2. \A i \in 1 .. n : s[i] \in Characters
      BY <1>1, ElementOfSeq
<1>3. /\ SubSeq(s, 1, n) \in Seq(Characters)
      /\ Len(SubSeq(s, 1, n)) = IF 1 <= n THEN n - 1 + 1 ELSE 0
      /\ \A i \in 1 .. n - 1 + 1 : SubSeq(s, 1, n)[i] = s[1 + i - 1]
      BY <1>1, <1>2, SubSeqProperties
<1>4. n - 1 + 1 = n /\ \A i \in 1 .. n : 1 + i - 1 = i
      BY <1>1
<1>   QED BY <1>1, <1>3, <1>4

LEMMA SuffixIs ==
    ASSUME NEW s \in Seq(Characters), NEW n \in 0 .. Len(s)
    PROVE  /\ SubSeq(s, n + 1, Len(s)) \in Seq(Characters)
           /\ Len(SubSeq(s, n + 1, Len(s))) = Len(s) - n
           /\ \A i \in 1 .. Len(s) - n : SubSeq(s, n + 1, Len(s))[i] = s[n + i]
<1>1. Len(s) \in Nat /\ n \in Nat /\ n <= Len(s)
      BY LenProperties
<1>2. \A i \in n + 1 .. Len(s) : s[i] \in Characters
      BY <1>1, ElementOfSeq
<1>   DEFINE t == SubSeq(s, n + 1, Len(s))
<1>3. /\ t \in Seq(Characters)
      /\ Len(t) = IF n + 1 <= Len(s) THEN Len(s) - (n + 1) + 1 ELSE 0
      /\ \A i \in 1 .. Len(s) - (n + 1) + 1 : t[i] = s[n + 1 + i - 1]
      BY <1>1, <1>2, SubSeqProperties
<1>   HIDE DEF t
<1>4. Len(s) - (n + 1) + 1 = Len(s) - n /\ \A i \in 1 .. Len(s) - n : n + 1 + i - 1 = n + i
      BY <1>1
<1>5. Len(t) = Len(s) - n
      BY <1>1, <1>3
<1>6. \A i \in 1 .. Len(s) - n : t[i] = s[n + i]
      BY <1>3, <1>4
<1>   QED BY <1>3, <1>5, <1>6 DEF t

LEMMA Lengths ==
    ASSUME LineTypeInv, StreamInv
    PROVE  /\ Len(sent) \in Nat /\ Len(buffer) \in Nat /\ Len(unread) \in Nat
           /\ ConsumedTo \in 0 .. Len(sent)
           /\ Consumed \in Seq(Characters) /\ Len(Consumed) = ConsumedTo
           /\ \A i \in 1 .. ConsumedTo : Consumed[i] = sent[i]
           /\ Len(sent) = ConsumedTo + Len(buffer) + Len(unread)
<1>1. /\ Len(sent) \in Nat /\ Len(buffer) \in Nat /\ Len(unread) \in Nat
      /\ ConsumedTo = Len(sent) - Len(buffer) - Len(unread) /\ ConsumedTo >= 0
      BY LenProperties DEF LineTypeInv, StreamInv, ConsumedTo
<1>2. ConsumedTo \in 0 .. Len(sent) /\ sent \in Seq(Characters)
      BY <1>1 DEF LineTypeInv
<1>   QED BY <1>1, <1>2, PrefixIs DEF Consumed

\* What is consumed does not depend on what is sent later
LEMMA PrefixStays ==
    ASSUME NEW p, NEW q, Grows(p, q), NEW n \in 0 .. Len(p)
    PROVE  SubSeq(q, 1, n) = SubSeq(p, 1, n)
<1>1. /\ p \in Seq(Characters) /\ q \in Seq(Characters) /\ Len(p) \in Nat /\ Len(q) \in Nat
      /\ Len(p) <= Len(q) /\ \A j \in 1 .. Len(p) : q[j] = p[j]
      BY DEF Grows
<1>2. n \in 0 .. Len(q) /\ \A j \in 1 .. n : q[j] = p[j]
      BY <1>1
<1>   QED BY <1>1, <1>2, PrefixIs, SeqEqual

LEMMA LineInitInv == LineInit => LineInv
<1>0. SUFFICES ASSUME LineInit PROVE LineInv
      OBVIOUS
<1>1. LineTypeInv
  <2>1. /\ sent = <<>> /\ unread = <<>> /\ handling = "no" /\ buffer = <<>> /\ lines = <<>>
        BY <1>0 DEF LineInit
  <2>2. <<>> \in Seq(Characters) /\ <<>> \in Seq(Seq(Characters))
        BY EmptySeq
  <2>   QED BY <2>1, <2>2 DEF LineTypeInv
<1>2. StreamInv /\ ConsumedTo = 0
  <2>1. sent = <<>> /\ unread = <<>> /\ buffer = <<>>
        BY <1>0 DEF LineInit
  <2>2. Len(sent) = 0 /\ Len(unread) = 0 /\ Len(buffer) = 0
        BY <2>1
  <2>3. ConsumedTo = 0
        BY <2>2 DEF ConsumedTo
  <2>   QED BY <2>2, <2>3 DEF StreamInv
<1>3. Consumed = <<>>
      BY <1>2, SubSeqEmpty DEF Consumed
<1>4. Completed(Consumed) = {}
      BY <1>3 DEF Completed, Starts
<1>5. Cardinality(Completed(Consumed)) = 0
      BY <1>4, FS_EmptySet
<1>6. Ranked(Completed(Consumed))
      BY <1>5 DEF Ranked
<1>7. LinesOf(Consumed) \in Seq(Seq(Characters)) /\ Len(LinesOf(Consumed)) = 0
  <2>1. Consumed \in Seq(Characters)
        BY <1>3, EmptySeq
  <2>   QED BY <2>1, <1>5, <1>6, LinesAreLines
<1>8. LinesOf(Consumed) = <<>>
      BY <1>7, EmptySeq
<1>9. ConsumedInv
      BY <1>0, <1>3, <1>6, <1>8 DEF LineInit, ConsumedInv, AtBoundary
<1>10. BufferInv
      BY <1>0, LineAssumption DEF LineInit, BufferInv, EndsOfLine
<1>   QED BY <1>1, <1>2, <1>9, <1>10 DEF LineInv

LEMMA SendInv ==
    ASSUME LineInv, NEW c \in Characters, ModemSends(c)
    PROVE  LineInv'
<1>0. LineTypeInv /\ StreamInv /\ ConsumedInv /\ BufferInv
      BY DEF LineInv
<1>1. /\ sent' = Append(sent, c) /\ unread' = Append(unread, c)
      /\ handling' = handling /\ buffer' = buffer /\ lines' = lines
      BY DEF ModemSends
<1>2. /\ Len(sent) \in Nat /\ Len(buffer) \in Nat /\ Len(unread) \in Nat
      /\ ConsumedTo \in 0 .. Len(sent) /\ Len(sent) = ConsumedTo + Len(buffer) + Len(unread)
      BY <1>0, Lengths
<1>3. /\ sent' \in Seq(Characters) /\ Len(sent') = Len(sent) + 1
      /\ \A i \in 1 .. Len(sent) : sent'[i] = sent[i]
      /\ sent'[Len(sent) + 1] = c
      /\ unread' \in Seq(Characters) /\ Len(unread') = Len(unread) + 1
      /\ \A i \in 1 .. Len(unread) : unread'[i] = unread[i]
      /\ unread'[Len(unread) + 1] = c
      BY <1>0, <1>1, AppendProperties DEF LineTypeInv
<1>4. LineTypeInv'
      BY <1>0, <1>1, <1>3 DEF LineTypeInv
<1>5. ConsumedTo' = ConsumedTo
      BY <1>1, <1>2, <1>3 DEF ConsumedTo
<1>6. StreamInv'
  <2>1. ASSUME NEW i \in 1 .. Len(buffer) PROVE buffer[i] = sent'[ConsumedTo + i]
    <3>1. ConsumedTo + i \in 1 .. Len(sent)
          BY <1>2
    <3>2. buffer[i] = sent[ConsumedTo + i]
          BY <1>0 DEF StreamInv
    <3>   QED BY <1>3, <3>1, <3>2
  <2>2. ASSUME NEW i \in 1 .. Len(unread) + 1
        PROVE  unread'[i] = sent'[ConsumedTo + Len(buffer) + i]
    <3>1. CASE i = Len(unread) + 1
          BY <1>2, <1>3, <3>1
    <3>2. CASE i # Len(unread) + 1
      <4>1. i \in 1 .. Len(unread) /\ ConsumedTo + Len(buffer) + i \in 1 .. Len(sent)
            BY <1>2, <3>2
      <4>2. unread[i] = sent[ConsumedTo + Len(buffer) + i]
            BY <1>0, <4>1 DEF StreamInv
      <4>   QED BY <1>3, <4>1, <4>2
    <3>   QED BY <3>1, <3>2
  <2>3. ConsumedTo' >= 0
        BY <1>2, <1>5
  <2>4. \A i \in 1 .. Len(buffer') : buffer'[i] = sent'[ConsumedTo' + i]
        BY <1>1, <1>5, <2>1
  <2>5. \A i \in 1 .. Len(unread') : unread'[i] = sent'[ConsumedTo' + Len(buffer') + i]
        BY <1>1, <1>3, <1>5, <2>2
  <2>   QED BY <2>3, <2>4, <2>5 DEF StreamInv
<1>7. Grows(sent, sent')
      BY <1>0, <1>2, <1>3 DEF Grows, LineTypeInv
<1>8. Consumed' = Consumed
      BY <1>2, <1>5, <1>7, PrefixStays DEF Consumed
<1>9. ConsumedInv'
  <2>1. ~TooLong(sent') => ~TooLong(sent)
        BY <1>7, TooLongStays
  <2>   QED BY <1>0, <1>1, <1>8, <2>1 DEF ConsumedInv
<1>10. BufferInv'
      BY <1>0, <1>1 DEF BufferInv, EndsOfLine
<1>   QED BY <1>4, <1>6, <1>9, <1>10 DEF LineInv

LEMMA FillInv == ASSUME LineInv, fill PROVE LineInv'
<1>0. LineTypeInv /\ StreamInv /\ ConsumedInv /\ BufferInv
      BY DEF LineInv
<1>   DEFINE n == IF Len(unread) <= RemainingCapacity THEN Len(unread) ELSE RemainingCapacity
<1>1. /\ handling = "fill"
      /\ buffer' = buffer \o SubSeq(unread, 1, n)
      /\ unread' = SubSeq(unread, n + 1, Len(unread))
      /\ handling' = IF n = 0 THEN "no" ELSE "consume"
      /\ sent' = sent /\ lines' = lines
      BY DEF fill
<1>2. /\ Len(sent) \in Nat /\ Len(buffer) \in Nat /\ Len(unread) \in Nat
      /\ ConsumedTo \in 0 .. Len(sent) /\ Len(sent) = ConsumedTo + Len(buffer) + Len(unread)
      BY <1>0, Lengths
<1>3. n \in 0 .. Len(unread)
      BY <1>0, <1>1, <1>2, LineAssumption DEF BufferInv, RemainingCapacity
<1>   HIDE DEF n
<1>4. /\ SubSeq(unread, 1, n) \in Seq(Characters) /\ Len(SubSeq(unread, 1, n)) = n
      /\ \A i \in 1 .. n : SubSeq(unread, 1, n)[i] = unread[i]
      BY <1>0, <1>3, PrefixIs DEF LineTypeInv
<1>5. /\ buffer' \in Seq(Characters) /\ Len(buffer') = Len(buffer) + n
      /\ \A i \in 1 .. Len(buffer) + n :
            buffer'[i] = IF i <= Len(buffer) THEN buffer[i] ELSE unread[i - Len(buffer)]
  <2>1. /\ buffer' \in Seq(Characters) /\ Len(buffer') = Len(buffer) + n
        /\ \A i \in 1 .. Len(buffer) + n :
              buffer'[i] = IF i <= Len(buffer) THEN buffer[i]
                           ELSE SubSeq(unread, 1, n)[i - Len(buffer)]
        BY <1>0, <1>1, <1>4, ConcatProperties DEF LineTypeInv
  <2>2. \A i \in 1 .. Len(buffer) + n : ~(i <= Len(buffer)) => i - Len(buffer) \in 1 .. n
        BY <1>2, <1>3
  <2>   QED BY <1>4, <2>1, <2>2
<1>6. /\ unread' \in Seq(Characters) /\ Len(unread') = Len(unread) - n
      /\ \A i \in 1 .. Len(unread) - n : unread'[i] = unread[n + i]
      BY <1>0, <1>1, <1>3, SuffixIs DEF LineTypeInv
<1>7. LineTypeInv'
      BY <1>0, <1>1, <1>5, <1>6 DEF LineTypeInv
<1>8. ConsumedTo' = ConsumedTo
  <2>1. ConsumedTo' = Len(sent') - Len(buffer') - Len(unread')
        BY DEF ConsumedTo
  <2>2. Len(sent') = Len(sent)
        BY <1>1
  <2>   QED BY <1>2, <1>3, <1>5, <1>6, <2>1, <2>2
<1>9. StreamInv'
  <2>1. ASSUME NEW i \in 1 .. Len(buffer) + n PROVE buffer'[i] = sent[ConsumedTo + i]
    <3>1. CASE i <= Len(buffer)
          BY <1>0, <1>2, <1>5, <3>1 DEF StreamInv
    <3>2. CASE ~(i <= Len(buffer))
      <4>1. i - Len(buffer) \in 1 .. Len(unread)
            /\ ConsumedTo + Len(buffer) + (i - Len(buffer)) = ConsumedTo + i
            BY <1>2, <1>3, <3>2
      <4>2. unread[i - Len(buffer)] = sent[ConsumedTo + Len(buffer) + (i - Len(buffer))]
            BY <1>0, <4>1 DEF StreamInv
      <4>   QED BY <1>5, <3>2, <4>1, <4>2
    <3>   QED BY <3>1, <3>2
  <2>2. ASSUME NEW i \in 1 .. Len(unread) - n
        PROVE  unread'[i] = sent[ConsumedTo + (Len(buffer) + n) + i]
    <3>1. n + i \in 1 .. Len(unread)
          /\ ConsumedTo + Len(buffer) + (n + i) = ConsumedTo + (Len(buffer) + n) + i
          BY <1>2, <1>3
    <3>   QED BY <1>0, <1>6, <3>1 DEF StreamInv
  <2>3. ConsumedTo' >= 0
        BY <1>2, <1>8
  <2>4. sent' = sent
        BY <1>1
  <2>5. \A i \in 1 .. Len(buffer') : buffer'[i] = sent'[ConsumedTo' + i]
        BY <1>5, <1>8, <2>1, <2>4
  <2>6. \A i \in 1 .. Len(unread') : unread'[i] = sent'[ConsumedTo' + Len(buffer') + i]
        BY <1>5, <1>6, <1>8, <2>2, <2>4
  <2>   QED BY <2>3, <2>5, <2>6 DEF StreamInv
<1>10. Consumed' = Consumed
      BY <1>1, <1>8 DEF Consumed
<1>11. ConsumedInv'
      BY <1>0, <1>1, <1>10 DEF ConsumedInv
<1>12. BufferInv'
  <2>1. ASSUME n = 0 PROVE buffer' = buffer
    <3>1. Len(buffer') = Len(buffer) /\ \A i \in 1 .. Len(buffer) : buffer'[i] = buffer[i]
          BY <1>2, <1>5, <2>1
    <3>   QED BY <1>0, <1>5, <3>1, SeqEqual DEF LineTypeInv
  <2>   QED BY <1>0, <1>1, <2>1 DEF BufferInv, EndsOfLine
<1>   QED BY <1>7, <1>9, <1>11, <1>12 DEF LineInv

\* The first line of the buffer and the end-of-line characters after it
LEMMA FirstLine ==
    ASSUME buffer \in Seq(Characters), LineComplete
    PROVE  /\ LineLen \in 0 .. Len(buffer) - 1
           /\ \A i \in 1 .. LineLen : buffer[i] # EOL
           /\ ConsumedLen \in LineLen + 1 .. Len(buffer)
           /\ \A i \in LineLen + 1 .. ConsumedLen : buffer[i] = EOL
<1>   DEFINE E == EndsOfLine
<1>1. E \in SUBSET Nat /\ E # {} /\ Len(buffer) \in Nat
      /\ E \subseteq 1 .. Len(buffer) /\ \A i \in 1 .. Len(buffer) : i \in E <=> buffer[i] = EOL
      BY LenProperties DEF EndsOfLine, LineComplete
<1>   HIDE DEF E
<1>2. \E m \in E : \A x \in E : m <= x
      BY <1>1, Minimum
<1>   DEFINE m == CHOOSE i \in E : \A j \in E : i <= j
<1>3. m \in E /\ \A x \in E : m <= x
      BY <1>2
<1>4. LineLen = m - 1
      BY DEF LineLen, E
<1>   HIDE DEF m
<1>5. m \in 1 .. Len(buffer) /\ buffer[m] = EOL
      BY <1>1, <1>3
<1>6. LineLen \in 0 .. Len(buffer) - 1 /\ LineLen + 1 = m
      BY <1>1, <1>4, <1>5
<1>7. ASSUME NEW i \in 1 .. LineLen PROVE buffer[i] # EOL
  <2>1. i \in 1 .. Len(buffer) /\ ~(m <= i)
        BY <1>1, <1>6
  <2>   QED BY <1>1, <1>3, <2>1
<1>   DEFINE S == {n \in m .. Len(buffer) : n = Len(buffer) \/ buffer[n + 1] # EOL}
             Whole(n) == /\ \A i \in LineLen + 1 .. n : buffer[i] = EOL
                         /\ n = Len(buffer) \/ buffer[n + 1] # EOL
<1>8. S \in SUBSET Nat /\ S # {}
  <2>1. Len(buffer) \in S
        BY <1>1, <1>5
  <2>   QED BY <1>1, <1>5, <2>1
<1>9. PICK n \in S : \A x \in S : n <= x
  <2>   HIDE DEF S
  <2>   QED BY <1>8, Minimum
<1>10. ASSUME NEW i \in m .. n PROVE buffer[i] = EOL
  <2>1. CASE i = m
        BY <1>5, <2>1
  <2>2. CASE i # m
    <3>1. i - 1 \in m .. Len(buffer) /\ i - 1 # Len(buffer) /\ (i - 1) + 1 = i /\ ~(n <= i - 1)
          BY <1>1, <1>5, <1>9, <2>2
    <3>2. i - 1 \notin S
      <4>1. \A x \in S : n <= x
            BY <1>9
      <4>   HIDE DEF S
      <4>   QED BY <3>1, <4>1
    <3>   QED BY <3>1, <3>2
  <2>   QED BY <2>1, <2>2
<1>11. n \in LineLen + 1 .. Len(buffer) /\ Whole(n)
      BY <1>6, <1>9, <1>10
<1>12. ConsumedLen = CHOOSE l \in LineLen + 1 .. Len(buffer) : Whole(l)
      BY DEF ConsumedLen
<1>   HIDE DEF Whole
<1>13. ConsumedLen \in LineLen + 1 .. Len(buffer) /\ Whole(ConsumedLen)
      BY <1>11, <1>12
<1>   QED BY <1>6, <1>7, <1>13 DEF Whole

\* The consumed part of the stream grows with the buffer's content, or what precedes
\* the terminal session
LEMMA AddedPart ==
    ASSUME LineTypeInv, StreamInv, AtBoundary(Consumed),
           NEW n \in 0 .. Len(buffer), NEW k \in 0 .. n,
           \A i \in 1 .. k : buffer[i] # EOL, \A i \in k + 1 .. n : buffer[i] = EOL
    PROVE  /\ AddsLine(Consumed, SubSeq(sent, 1, ConsumedTo + n), k)
           /\ Len(SubSeq(sent, 1, ConsumedTo + n)) = ConsumedTo + n
           /\ \A i \in 1 .. n : SubSeq(sent, 1, ConsumedTo + n)[ConsumedTo + i] = buffer[i]
<1>   DEFINE q == SubSeq(sent, 1, ConsumedTo + n)
<1>1. /\ Len(sent) \in Nat /\ Len(buffer) \in Nat /\ Len(unread) \in Nat
      /\ ConsumedTo \in 0 .. Len(sent) /\ Len(sent) = ConsumedTo + Len(buffer) + Len(unread)
      /\ Consumed \in Seq(Characters) /\ Len(Consumed) = ConsumedTo
      /\ \A i \in 1 .. ConsumedTo : Consumed[i] = sent[i]
      BY Lengths
<1>2. ConsumedTo + n \in 0 .. Len(sent)
      BY <1>1
<1>3. q \in Seq(Characters) /\ Len(q) = ConsumedTo + n
      /\ \A i \in 1 .. ConsumedTo + n : q[i] = sent[i]
      BY <1>2, PrefixIs DEF LineTypeInv
<1>   HIDE DEF q
<1>4. ASSUME NEW i \in 1 .. n PROVE q[ConsumedTo + i] = buffer[i]
  <2>1. i \in 1 .. Len(buffer) /\ ConsumedTo + i \in 1 .. ConsumedTo + n
        BY <1>1
  <2>   QED BY <1>3, <2>1 DEF StreamInv
<1>5. Grows(Consumed, q)
      BY <1>1, <1>3 DEF Grows
<1>6. k \in 0 .. Len(q) - Len(Consumed)
      BY <1>1, <1>3
<1>7. \A i \in 1 .. k : q[Len(Consumed) + i] # EOL
  <2>1. \A i \in 1 .. k : i \in 1 .. n
        OBVIOUS
  <2>   QED BY <1>1, <1>4, <2>1
<1>8. ASSUME NEW i \in Len(Consumed) + k + 1 .. Len(q) PROVE q[i] = EOL
  <2>1. /\ i - ConsumedTo \in k + 1 .. n /\ i - ConsumedTo \in 1 .. n
        /\ ConsumedTo + (i - ConsumedTo) = i
        BY <1>1, <1>3
  <2>2. q[ConsumedTo + (i - ConsumedTo)] = buffer[i - ConsumedTo]
        BY <1>4, <2>1
  <2>   QED BY <2>1, <2>2
<1>   QED BY <1>3, <1>4, <1>5, <1>6, <1>7, <1>8 DEF q, AddsLine

LEMMA ConsumeInv == ASSUME LineInv, ConsumeLine PROVE LineInv'
<1>0. LineTypeInv /\ StreamInv /\ ConsumedInv /\ BufferInv
      BY DEF LineInv
<1>   DEFINE k == LineLen
             n == ConsumedLen
<1>1. /\ handling = "consume" /\ LineComplete
      /\ lines' = IF k = 0 THEN lines ELSE Append(lines, SubSeq(buffer, 1, k))
      /\ buffer' = SubSeq(buffer, n + 1, Len(buffer))
      /\ sent' = sent /\ unread' = unread /\ handling' = handling
      BY DEF ConsumeLine
<1>2. /\ Len(sent) \in Nat /\ Len(buffer) \in Nat /\ Len(unread) \in Nat
      /\ ConsumedTo \in 0 .. Len(sent) /\ Len(sent) = ConsumedTo + Len(buffer) + Len(unread)
      /\ Len(Consumed) = ConsumedTo
      BY <1>0, Lengths
<1>3. /\ k \in 0 .. Len(buffer) - 1 /\ n \in k + 1 .. Len(buffer)
      /\ \A i \in 1 .. k : buffer[i] # EOL
      /\ \A i \in k + 1 .. n : buffer[i] = EOL
      BY <1>0, <1>1, FirstLine DEF LineTypeInv
<1>   HIDE DEF k, n
<1>4. /\ buffer' \in Seq(Characters) /\ Len(buffer') = Len(buffer) - n
      /\ \A i \in 1 .. Len(buffer) - n : buffer'[i] = buffer[n + i]
  <2>1. n \in 0 .. Len(buffer)
        BY <1>2, <1>3
  <2>   QED BY <1>0, <1>1, <2>1, SuffixIs DEF LineTypeInv
<1>5. /\ SubSeq(buffer, 1, k) \in Seq(Characters) /\ Len(SubSeq(buffer, 1, k)) = k
      /\ \A i \in 1 .. k : SubSeq(buffer, 1, k)[i] = buffer[i]
  <2>1. k \in 0 .. Len(buffer)
        BY <1>2, <1>3
  <2>   QED BY <1>0, <2>1, PrefixIs DEF LineTypeInv
<1>6. LineTypeInv'
  <2>1. lines' \in Seq(Seq(Characters))
        BY <1>0, <1>1, <1>5, AppendProperties DEF LineTypeInv
  <2>   QED BY <1>0, <1>1, <1>4, <2>1 DEF LineTypeInv
<1>7. ConsumedTo' = ConsumedTo + n
  <2>1. ConsumedTo' = Len(sent') - Len(buffer') - Len(unread')
        BY DEF ConsumedTo
  <2>2. Len(sent') = Len(sent) /\ Len(unread') = Len(unread)
        BY <1>1
  <2>   QED BY <1>2, <1>3, <1>4, <2>1, <2>2
<1>8. StreamInv'
  <2>1. ConsumedTo' >= 0
        BY <1>2, <1>3, <1>7
  <2>2. ASSUME NEW i \in 1 .. Len(buffer) - n PROVE buffer'[i] = sent'[ConsumedTo' + i]
    <3>1. n + i \in 1 .. Len(buffer) /\ ConsumedTo + (n + i) = (ConsumedTo + n) + i
          BY <1>2, <1>3
    <3>2. buffer[n + i] = sent[ConsumedTo + (n + i)]
          BY <1>0, <3>1 DEF StreamInv
    <3>   QED BY <1>1, <1>4, <1>7, <3>1, <3>2
  <2>3. \A i \in 1 .. Len(buffer') : buffer'[i] = sent'[ConsumedTo' + i]
        BY <1>4, <2>2
  <2>4. ConsumedTo' + Len(buffer') = ConsumedTo + Len(buffer)
        BY <1>2, <1>3, <1>4, <1>7
  <2>5. \A i \in 1 .. Len(unread') : unread'[i] = sent'[ConsumedTo' + Len(buffer') + i]
        BY <1>0, <1>1, <2>4 DEF StreamInv
  <2>   QED BY <2>1, <2>3, <2>5 DEF StreamInv
<1>9. ConsumedInv'
  <2>1. SUFFICES ASSUME ~TooLong(sent')
        PROVE  AtBoundary(Consumed') /\ Ranked(Completed(Consumed')) /\ lines' = LinesOf(Consumed')
        BY DEF ConsumedInv
  <2>2. AtBoundary(Consumed) /\ Ranked(Completed(Consumed)) /\ lines = LinesOf(Consumed)
        BY <1>0, <1>1, <2>1 DEF ConsumedInv
  <2>   DEFINE q == SubSeq(sent, 1, ConsumedTo + n)
  <2>3. Consumed' = q
        BY <1>1, <1>7 DEF Consumed
  <2>4. /\ AddsLine(Consumed, q, k) /\ Len(q) = ConsumedTo + n
        /\ \A i \in 1 .. n : q[ConsumedTo + i] = buffer[i]
    <3>1. n \in 0 .. Len(buffer) /\ k \in 0 .. n
          BY <1>2, <1>3
    <3>   QED BY <1>0, <1>3, <2>2, <3>1, AddedPart
  <2>   HIDE DEF q
  <2>5. AtBoundary(q)
    <3>1. n \in 1 .. n /\ n \in k + 1 .. n
          BY <1>2, <1>3
    <3>   QED BY <1>3, <2>4, <3>1 DEF AtBoundary
  <2>6. /\ Ranked(Completed(q))
        /\ LinesOf(q) = IF Added(Consumed, q, k) = {} THEN LinesOf(Consumed)
                        ELSE Append(LinesOf(Consumed),
                                    SubSeq(q, Len(Consumed) + 1, Len(Consumed) + k))
        BY <2>2, <2>4, LinesAdded
  <2>7. Added(Consumed, q, k) = {} <=> k = 0
        BY <1>2, <1>3, <2>4 DEF Added
  <2>8. SubSeq(q, Len(Consumed) + 1, Len(Consumed) + k) = SubSeq(buffer, 1, k)
    <3>1. \A i \in ConsumedTo + 1 .. ConsumedTo + k : q[i] \in Characters
      <4>1. q \in Seq(Characters)
            BY <2>4 DEF AddsLine, Grows
      <4>   QED BY <1>2, <1>3, <2>4, <4>1, ElementOfSeq
    <3>2. /\ SubSeq(q, ConsumedTo + 1, ConsumedTo + k) \in Seq(Characters)
          /\ Len(SubSeq(q, ConsumedTo + 1, ConsumedTo + k))
                = IF ConsumedTo + 1 <= ConsumedTo + k
                  THEN ConsumedTo + k - (ConsumedTo + 1) + 1 ELSE 0
          /\ \A i \in 1 .. ConsumedTo + k - (ConsumedTo + 1) + 1 :
                SubSeq(q, ConsumedTo + 1, ConsumedTo + k)[i] = q[ConsumedTo + 1 + i - 1]
          BY <1>2, <1>3, <3>1, SubSeqProperties
    <3>3. /\ ConsumedTo + k - (ConsumedTo + 1) + 1 = k
          /\ \A i \in 1 .. k : ConsumedTo + 1 + i - 1 = ConsumedTo + i /\ i \in 1 .. n
          BY <1>2, <1>3
    <3>4. \A i \in 1 .. k : SubSeq(q, ConsumedTo + 1, ConsumedTo + k)[i] = buffer[i]
          BY <2>4, <3>2, <3>3
    <3>5. Len(SubSeq(q, ConsumedTo + 1, ConsumedTo + k)) = k
          BY <1>2, <1>3, <3>2, <3>3
    <3>   QED BY <1>2, <1>5, <3>2, <3>4, <3>5, SeqEqual
  <2>   QED BY <1>1, <2>2, <2>3, <2>5, <2>6, <2>7, <2>8
<1>10. BufferInv'
      BY <1>1 DEF BufferInv
<1>   QED BY <1>6, <1>8, <1>9, <1>10 DEF LineInv

\* Without an end-of-line character the buffer holds no complete line
LEMMA RestAddsNothing ==
    ASSUME LineTypeInv, StreamInv, AtBoundary(Consumed), Ranked(Completed(Consumed)),
           EndsOfLine = {}, unread = <<>>
    PROVE  LinesOf(sent) = LinesOf(Consumed)
<1>   DEFINE n == Len(buffer)
<1>1. /\ Len(sent) \in Nat /\ n \in Nat /\ ConsumedTo \in 0 .. Len(sent)
      /\ Len(sent) = ConsumedTo + n + Len(unread) /\ Len(Consumed) = ConsumedTo
      BY Lengths
<1>2. \A i \in 1 .. n : buffer[i] # EOL
      BY LenProperties DEF LineTypeInv, EndsOfLine
<1>3. Len(sent) = ConsumedTo + n
      BY <1>1
<1>4. SubSeq(sent, 1, ConsumedTo + n) = sent
      BY <1>3, SubSeqFull DEF LineTypeInv
<1>5. AddsLine(Consumed, sent, n)
  <2>1. n \in 0 .. Len(buffer) /\ n \in 0 .. n /\ \A i \in n + 1 .. n : buffer[i] = EOL
        BY <1>1
  <2>   HIDE DEF n
  <2>2. AddsLine(Consumed, SubSeq(sent, 1, ConsumedTo + n), n)
        BY <1>2, <2>1, AddedPart
  <2>   QED BY <1>4, <2>2
<1>6. Added(Consumed, sent, n) = {}
      BY <1>1, <1>3 DEF Added
<1>   HIDE DEF n
<1>   QED BY <1>5, <1>6, LinesAdded

\* The buffer is dropped only if the stream has a line that is too long
LEMMA DroppedIsTooLong ==
    ASSUME LineTypeInv, StreamInv, AtBoundary(Consumed), EndsOfLine = {},
           Len(buffer) > MAX_LINE_LEN
    PROVE  TooLong(sent)
<1>1. /\ Len(sent) \in Nat /\ Len(buffer) \in Nat /\ Len(unread) \in Nat
      /\ ConsumedTo \in 0 .. Len(sent) /\ Len(sent) = ConsumedTo + Len(buffer) + Len(unread)
      /\ Consumed \in Seq(Characters) /\ Len(Consumed) = ConsumedTo
      /\ \A i \in 1 .. ConsumedTo : Consumed[i] = sent[i]
      BY Lengths
<1>2. \A i \in 1 .. Len(buffer) : sent[ConsumedTo + i] # EOL
      BY LenProperties DEF LineTypeInv, EndsOfLine, StreamInv
<1>3. 1 \in 1 .. Len(buffer)
      BY <1>1, LineAssumption
<1>   DEFINE b == ConsumedTo + 1
             e == EndOf(sent, b)
<1>4. b \in Starts(sent)
  <2>1. b \in DOMAIN sent /\ sent[b] # EOL
        BY <1>1, <1>2, <1>3, LenProperties DEF LineTypeInv
  <2>2. b = 1 \/ sent[b - 1] = EOL
    <3>1. CASE ConsumedTo = 0
          BY <3>1
    <3>2. CASE ConsumedTo # 0
      <4>1. Consumed # <<>> /\ ConsumedTo \in 1 .. ConsumedTo /\ b - 1 = ConsumedTo
            BY <1>1, <3>2
      <4>   QED BY <1>1, <4>1 DEF AtBoundary
    <3>   QED BY <3>1, <3>2
  <2>   HIDE DEF b
  <2>   QED BY <2>1, <2>2 DEF Starts
<1>5. /\ e \in b .. Len(sent)
      /\ e = Len(sent) \/ sent[e + 1] = EOL
  <2>   HIDE DEF b
  <2>   QED BY <1>4, EndExists DEF LineTypeInv, IsEnd
<1>   HIDE DEF e
<1>6. e >= ConsumedTo + Len(buffer)
  <2>1. SUFFICES ASSUME e < ConsumedTo + Len(buffer) PROVE FALSE
        BY <1>1, <1>5
  <2>2. /\ e + 1 - ConsumedTo \in 1 .. Len(buffer)
        /\ ConsumedTo + (e + 1 - ConsumedTo) = e + 1 /\ e # Len(sent)
        BY <1>1, <1>5, <2>1
  <2>   QED BY <1>2, <1>5, <2>2
<1>7. e - b + 1 > MAX_LINE_LEN
      BY <1>1, <1>5, <1>6, LineAssumption
<1>   HIDE DEF b
<1>   QED BY <1>4, <1>7 DEF TooLong, e

LEMMA EndInv == ASSUME LineInv, EndConsume PROVE LineInv'
<1>0. LineTypeInv /\ StreamInv /\ ConsumedInv /\ BufferInv
      BY DEF LineInv
<1>1. /\ handling = "consume" /\ ~LineComplete /\ handling' = "fill"
      /\ buffer' = IF Len(buffer) > MAX_LINE_LEN THEN <<>> ELSE buffer
      /\ sent' = sent /\ unread' = unread /\ lines' = lines
      BY DEF EndConsume, KeptIncomplete
<1>2. /\ Len(sent) \in Nat /\ Len(buffer) \in Nat /\ Len(unread) \in Nat
      /\ ConsumedTo \in 0 .. Len(sent) /\ Len(sent) = ConsumedTo + Len(buffer) + Len(unread)
      BY <1>0, Lengths
<1>3. LineTypeInv'
  <2>1. buffer' \in Seq(Characters)
        BY <1>0, <1>1, EmptySeq DEF LineTypeInv
  <2>   QED BY <1>0, <1>1, <2>1 DEF LineTypeInv
<1>4. CASE Len(buffer) > MAX_LINE_LEN
  <2>1. buffer' = <<>> /\ Len(buffer') = 0
        BY <1>1, <1>4
  <2>2. ConsumedTo' = ConsumedTo + Len(buffer)
    <3>1. ConsumedTo' = Len(sent') - Len(buffer') - Len(unread')
          BY DEF ConsumedTo
    <3>2. Len(sent') = Len(sent) /\ Len(unread') = Len(unread)
          BY <1>1
    <3>   QED BY <1>2, <2>1, <3>1, <3>2
  <2>3. StreamInv'
    <3>1. ConsumedTo' >= 0 /\ ConsumedTo' + Len(buffer') = ConsumedTo + Len(buffer)
          BY <1>2, <2>1, <2>2
    <3>2. \A i \in 1 .. Len(unread') : unread'[i] = sent'[ConsumedTo' + Len(buffer') + i]
          BY <1>0, <1>1, <3>1 DEF StreamInv
    <3>   QED BY <2>1, <3>1, <3>2 DEF StreamInv
  <2>4. TooLong(sent')
    <3>1. SUFFICES ASSUME ~TooLong(sent) PROVE FALSE
          BY <1>1
    <3>   QED BY <1>0, <1>1, <1>4, <3>1, DroppedIsTooLong DEF ConsumedInv, LineComplete
  <2>5. BufferInv'
    <3>1. EndsOfLine' = {}
          BY <2>1 DEF EndsOfLine
    <3>   QED BY <2>1, <3>1, LineAssumption DEF BufferInv
  <2>   QED BY <1>3, <2>3, <2>4, <2>5 DEF LineInv, ConsumedInv
<1>5. CASE ~(Len(buffer) > MAX_LINE_LEN)
  <2>1. buffer' = buffer
        BY <1>1, <1>5
  <2>2. ConsumedTo' = ConsumedTo /\ Consumed' = Consumed
        BY <1>1, <2>1 DEF ConsumedTo, Consumed
  <2>3. StreamInv' /\ ConsumedInv'
        BY <1>0, <1>1, <2>1, <2>2 DEF StreamInv, ConsumedInv
  <2>4. EndsOfLine' = {} /\ Len(buffer') <= MAX_LINE_LEN
        BY <1>1, <1>2, <1>5, <2>1, LineAssumption DEF LineComplete, EndsOfLine
  <2>   QED BY <1>3, <2>3, <2>4 DEF LineInv, BufferInv
<1>   QED BY <1>4, <1>5

LEMMA LineNextInv == LineInv /\ [LineNext]_lineVars => LineInv'
<1>0. SUFFICES ASSUME LineInv, [LineNext]_lineVars PROVE LineInv'
      OBVIOUS
<1>1. ASSUME NEW c \in Letters \union {EOL}, ModemSends(c) PROVE LineInv'
      BY <1>0, <1>1, SendInv DEF Characters
<1>2. CASE HandleResponse
      BY <1>0, <1>2 DEF HandleResponse, LineInv, LineTypeInv, StreamInv, ConsumedInv, BufferInv,
                        ConsumedTo, Consumed, EndsOfLine
<1>3. CASE fill
      BY <1>0, <1>3, FillInv
<1>4. CASE ConsumeLine
      BY <1>0, <1>4, ConsumeInv
<1>5. CASE EndConsume
      BY <1>0, <1>5, EndInv
<1>6. CASE Silent \/ UNCHANGED lineVars
      BY <1>0, <1>6 DEF Silent, lineVars, LineInv, LineTypeInv, StreamInv, ConsumedInv, BufferInv,
                        ConsumedTo, Consumed, EndsOfLine
<1>   QED BY <1>0, <1>1, <1>2, <1>3, <1>4, <1>5, <1>6 DEF LineNext

\* However a stream of any length is cut into reads, the driver gets its lines, each once,
\* whole and in order, and a read that returns nothing never means that the buffer is full.
THEOREM LinesAreIntact == LineSpec => []LinesIntact
<1>1. LineSpec => []LineInv
      BY LineInitInv, LineNextInv, PTL DEF LineSpec
<1>2. LineInv => LinesIntact
  <2>1. SUFFICES ASSUME LineInv PROVE LinesIntact
        OBVIOUS
  <2>2. LineTypeInv /\ StreamInv /\ ConsumedInv /\ BufferInv
        BY <2>1 DEF LineInv
  <2>3. ASSUME handling = "no", unread = <<>>, ~TooLong(sent) PROVE lines = LinesOf(sent)
        BY <2>2, <2>3, RestAddsNothing DEF ConsumedInv, BufferInv
  <2>4. ASSUME handling = "fill" PROVE RemainingCapacity > 0
    <3>1. Len(buffer) \in Nat /\ Len(buffer) <= MAX_LINE_LEN
          BY <2>2, <2>4, LenProperties DEF LineTypeInv, BufferInv
    <3>   QED BY <3>1, LineAssumption DEF RemainingCapacity
  <2>   QED BY <2>3, <2>4 DEF LinesIntact
<1>   QED BY <1>1, <1>2, PTL

-------------------------------------------------------------------------------
(***************************************************************************)
(* The dialogue of a prompt modem with a user who has one PIN and no       *)
(* calls.  First what the rules of Control do to the operations.           *)
(***************************************************************************)
\* The members of Control, and the states of an operation
Members == {"op", "current_pin", "current_ring_count", "outbound"}
OpStates == {None} \union [state : {"PENDING", "SUBMITTED"}, arg : Args]

CallOps == {"ring", "hang_up", "initiate_call", "accept_call"}

\* Control without calls, with the one PIN p
ControlType(c, p) ==
    /\ DOMAIN c = Members /\ DOMAIN c.op = Ops /\ \A o \in Ops : c.op[o] \in OpStates
    /\ c.outbound = None /\ c.current_ring_count = st.ring_count
    /\ c.current_pin \in {None, p} /\ (Constructed(c, "set_pin") => c.current_pin = p)
    /\ \A o \in CallOps : ~Constructed(c, o)
    /\ \A o \in {"query_qcfg", "assign_qcfg"} : Constructed(c, o) => c.op[o].arg \in Entries

\* What the rules rely on when they return early
RulesInv(c) ==
    /\ Constructed(c, "reboot") =>
         /\ ~Constructed(c, "disable_echo") /\ ~Constructed(c, "assign_qcfg")
         /\ Submitted(c, "reboot") \/ st.echo_disabled
    /\ ~st.rdy => ~Constructed(c, "disable_echo")
    /\ ~st.rdy \/ ~st.echo_disabled
         => ~Constructed(c, "assign_qcfg") /\ InState("MODIFIED") = {}
    /\ InState("MODIFIED") # {} => InState("UNKNOWN") = {} /\ ~Constructed(c, "query_qcfg")

\* No rule drops or replaces the operation o of c
Held(c, o) ==
    /\ ~st.ok /\ ~st.error /\ ~st.cme_error
    /\ o = "check_ready" => ~st.at_ok
    /\ o = "disable_echo" => ~st.echo_disabled /\ st.at_ok
    /\ o = "request_call_list" => ~st.clcc_up_to_date
    /\ RebootNeeded => Constructed(c, "reboot")

\* A configuration without a call, with the PIN p if any
OneCfg(cfg, p) == cfg.pin \in {None, p} /\ cfg.call = None

-------------------------------------------------------------------------------
(* What each rule does *)

LEMMA OpsAre ==
    Ops = {"check_ready", "disable_echo", "power_down", "ring", "set_pin",
           "request_pin_state", "request_pin_count", "reboot", "query_qcfg",
           "assign_qcfg", "hang_up", "request_call_list", "initiate_call", "accept_call"}
<1>1. DOMAIN Operations = 1 .. 14
      BY DEF Operations
<1>2. 1 .. 14 = {1, 2, 3, 4, 5, 6, 7, 8, 9, 10, 11, 12, 13, 14}
      OBVIOUS
<1>3. Ops = {Operations[i] : i \in {1, 2, 3, 4, 5, 6, 7, 8, 9, 10, 11, 12, 13, 14}}
      BY <1>1, <1>2 DEF Ops, Range
<1>4. /\ Operations[1] = "check_ready" /\ Operations[2] = "disable_echo"
      /\ Operations[3] = "power_down" /\ Operations[4] = "ring" /\ Operations[5] = "set_pin"
      /\ Operations[6] = "request_pin_state" /\ Operations[7] = "request_pin_count"
      /\ Operations[8] = "reboot" /\ Operations[9] = "query_qcfg"
      /\ Operations[10] = "assign_qcfg" /\ Operations[11] = "hang_up"
      /\ Operations[12] = "request_call_list" /\ Operations[13] = "initiate_call"
      /\ Operations[14] = "accept_call"
      BY DEF Operations
<1>   HIDE DEF Operations
<1>   QED BY <1>3, <1>4

\* An operation that has just been constructed
Fresh(a) == [state |-> "PENDING", arg |-> a]

LEMMA FreshIs ==
    ASSUME NEW a \in Args
    PROVE  /\ Fresh(a) \in OpStates /\ Fresh(a) # None
           /\ Fresh(a).state = "PENDING" /\ Fresh(a).arg = a
BY NoneAssumption DEF Fresh, OpStates

\* d is c but for the operations S and the PIN
Only(c, d, S) ==
    /\ DOMAIN d = Members /\ DOMAIN d.op = Ops
    /\ d.outbound = c.outbound /\ d.current_ring_count = c.current_ring_count
    /\ \A o \in Ops \ S : d.op[o] = c.op[o]

Formed(c) == DOMAIN c = Members /\ DOMAIN c.op = Ops

SetOp(c, o, x) == [c EXCEPT !.op[o] = x]

LEMMA OpSet ==
    ASSUME NEW c, Formed(c), NEW o \in Ops, NEW x
    PROVE  LET d == SetOp(c, o, x)
           IN  Only(c, d, {o}) /\ d.op[o] = x /\ d.current_pin = c.current_pin
<1>   DEFINE op == [c.op EXCEPT ![o] = x]
             d == [c EXCEPT !.op = op]
<1>1. DOMAIN op = Ops /\ op[o] = x /\ \A q \in Ops \ {o} : op[q] = c.op[q]
      BY DEF Formed
<1>   HIDE DEF op
<1>2. /\ DOMAIN d = Members /\ d.op = op /\ d.outbound = c.outbound
      /\ d.current_ring_count = c.current_ring_count /\ d.current_pin = c.current_pin
      BY DEF Formed, Members
<1>   HIDE DEF d
<1>3. Only(c, d, {o}) /\ d.op[o] = x /\ d.current_pin = c.current_pin
      BY <1>1, <1>2 DEF Only
<1>   QED BY <1>3 DEF d, op, SetOp

LEMMA PinSet ==
    ASSUME NEW c, Formed(c), NEW x
    PROVE  LET d == [c EXCEPT !.current_pin = x]
           IN  Only(c, d, {}) /\ d.op = c.op /\ d.current_pin = x
BY DEF Formed, Members, Only

LEMMA ConstructIs ==
    ASSUME NEW c, Formed(c), NEW o \in Ops, NEW a
    PROVE  LET d == Construct(c, o, a)
           IN  Only(c, d, {o}) /\ d.op[o] = Fresh(a) /\ d.current_pin = c.current_pin
<1>1. Construct(c, o, a) = SetOp(c, o, Fresh(a))
      BY DEF Construct, Fresh, SetOp
<1>   QED BY <1>1, OpSet

LEMMA DestructIs ==
    ASSUME NEW c, Formed(c), NEW o \in Ops
    PROVE  LET d == Destruct(c, o)
           IN  Only(c, d, {o}) /\ d.op[o] = None /\ d.current_pin = c.current_pin
<1>1. Destruct(c, o) = SetOp(c, o, None)
      BY DEF Destruct, SetOp
<1>   QED BY <1>1, OpSet

LEMMA AssureIs ==
    ASSUME NEW c, Formed(c), NEW o \in Ops, NEW a
    PROVE  LET d == Assure(c, o, a)
           IN  /\ Only(c, d, {o}) /\ d.current_pin = c.current_pin
               /\ d.op[o] = IF Constructed(c, o) THEN c.op[o] ELSE Fresh(a)
<1>1. CASE Constructed(c, o)
      BY <1>1 DEF Assure, Only, Formed
<1>2. CASE ~Constructed(c, o)
      BY <1>2, ConstructIs DEF Assure
<1>   QED BY <1>1, <1>2

LEMMA OnlyTransitive ==
    ASSUME NEW b, NEW c, NEW d, NEW S, NEW T, Only(b, c, S), Only(c, d, T)
    PROVE  Only(b, d, S \union T)
BY DEF Only

LEMMA OnlyFormed == ASSUME NEW c, NEW d, NEW S, Only(c, d, S) PROVE Formed(d)
BY DEF Only, Formed

LEMMA OnlySame == ASSUME NEW c, Formed(c), NEW S PROVE Only(c, c, S)
BY DEF Only, Formed

LEMMA CancelAllIs ==
    ASSUME NEW c, Formed(c)
    PROVE  /\ Only(c, CancelAll(c), Ops)
           /\ \A o \in Ops : CancelAll(c).op[o] = None
<1>   DEFINE op == [o \in Ops |-> None]
             d == [c EXCEPT !.op = op]
<1>1. DOMAIN op = Ops /\ \A o \in Ops : op[o] = None
      OBVIOUS
<1>   HIDE DEF op
<1>2. /\ DOMAIN d = Members /\ d.op = op /\ d.outbound = c.outbound
      /\ d.current_ring_count = c.current_ring_count
      BY DEF Formed, Members
<1>3. CancelAll(c) = d
      BY DEF CancelAll, op
<1>   HIDE DEF d
<1>   QED BY <1>1, <1>2, <1>3 DEF Only

LEMMA StartRebootIs ==
    ASSUME NEW c, Formed(c)
    PROVE  LET d == StartReboot(c)
           IN  /\ Only(c, d, Ops) /\ d.current_pin = None /\ d.op["reboot"] = Fresh(None)
               /\ \A o \in Ops \ {"reboot"} : d.op[o] = None
<1>   DEFINE b == CancelAll(c)
             r == Construct(b, "reboot", None)
             d == [r EXCEPT !.current_pin = None]
<1>1. Only(c, b, Ops) /\ \A o \in Ops : b.op[o] = None
      BY CancelAllIs
<1>2. StartReboot(c) = d
      BY DEF StartReboot
<1>3. Formed(b) /\ "reboot" \in Ops
      BY <1>1, OnlyFormed, OpsAre
<1>   HIDE DEF b
<1>4. Only(b, r, {"reboot"}) /\ r.op["reboot"] = Fresh(None)
      BY <1>3, ConstructIs
<1>5. Formed(r)
      BY <1>4, OnlyFormed
<1>   HIDE DEF r
<1>6. Only(r, d, {}) /\ d.op = r.op /\ d.current_pin = None
      BY <1>5, PinSet
<1>   HIDE DEF d
<1>7. Only(c, d, Ops)
      BY <1>1, <1>4, <1>6 DEF Only
<1>8. \A o \in Ops \ {"reboot"} : d.op[o] = None
      BY <1>1, <1>4, <1>6 DEF Only
<1>   QED BY <1>2, <1>4, <1>6, <1>7, <1>8

LEMMA QcfgIs ==
    ASSUME NEW c, Formed(c), ~Constructed(c, "reboot"), ~RebootNeeded
    PROVE  LET d == ApplyQcfg(c)
           IN  /\ Only(c, d, {"query_qcfg", "assign_qcfg"}) /\ d.current_pin = c.current_pin
               /\ \/ d.op["query_qcfg"] \in {c.op["query_qcfg"], None}
                  \/ /\ InState("UNKNOWN") # {}
                     /\ \E e \in Entries : d.op["query_qcfg"] = Fresh(e)
               /\ InState("UNKNOWN") # {} => Constructed(d, "query_qcfg")
               /\ ~st.error /\ Constructed(c, "query_qcfg")
                    => d.op["query_qcfg"] = c.op["query_qcfg"]
               /\ \/ d.op["assign_qcfg"] = c.op["assign_qcfg"]
                  \/ /\ ~Constructed(c, "assign_qcfg") /\ InState("MISMATCH") # {}
                     /\ \E e \in Entries : d.op["assign_qcfg"] = Fresh(e)
<1>   DEFINE c1 == IF Submitted(c, "query_qcfg") /\ st.error
                   THEN Destruct(c, "query_qcfg") ELSE c
             u == CHOOSE e \in InState("UNKNOWN") : TRUE
             c2 == IF InState("UNKNOWN") = {} THEN c1 ELSE Assure(c1, "query_qcfg", u)
             m == CHOOSE e \in InState("MISMATCH") : TRUE
             c3 == IF InState("MISMATCH") = {} THEN c2 ELSE Assure(c2, "assign_qcfg", m)
<1>1. ApplyQcfg(c) = c3
      BY DEF ApplyQcfg
<1>2. "query_qcfg" \in Ops /\ "assign_qcfg" \in Ops
      BY OpsAre
<1>3. /\ Only(c, c1, {"query_qcfg"}) /\ c1.current_pin = c.current_pin /\ Formed(c1)
      /\ c1.op["query_qcfg"] \in {c.op["query_qcfg"], None}
      /\ ~st.error => c1.op["query_qcfg"] = c.op["query_qcfg"]
      BY <1>2, DestructIs, OnlySame, OnlyFormed
<1>   HIDE DEF c1
<1>4. /\ InState("UNKNOWN") # {} => u \in Entries
      /\ InState("MISMATCH") # {} => m \in Entries
      BY DEF InState
<1>   HIDE DEF u, m
<1>5. /\ Only(c1, c2, {"query_qcfg"}) /\ c2.current_pin = c1.current_pin /\ Formed(c2)
      /\ Constructed(c1, "query_qcfg") => c2.op["query_qcfg"] = c1.op["query_qcfg"]
      /\ InState("UNKNOWN") = {} => c2.op["query_qcfg"] = c1.op["query_qcfg"]
      /\ InState("UNKNOWN") # {} /\ ~Constructed(c1, "query_qcfg")
            => c2.op["query_qcfg"] = Fresh(u)
      BY <1>2, <1>3, AssureIs, OnlySame, OnlyFormed
<1>   HIDE DEF c2
<1>6. /\ Only(c2, c3, {"assign_qcfg"}) /\ c3.current_pin = c2.current_pin
      /\ Constructed(c2, "assign_qcfg") => c3.op["assign_qcfg"] = c2.op["assign_qcfg"]
      /\ InState("MISMATCH") = {} => c3.op["assign_qcfg"] = c2.op["assign_qcfg"]
      /\ InState("MISMATCH") # {} /\ ~Constructed(c2, "assign_qcfg")
            => c3.op["assign_qcfg"] = Fresh(m)
      BY <1>2, <1>5, AssureIs, OnlySame
<1>   HIDE DEF c3
<1>7. /\ c2.op["assign_qcfg"] = c.op["assign_qcfg"]
      /\ c3.op["query_qcfg"] = c2.op["query_qcfg"]
      BY <1>2, <1>3, <1>5, <1>6 DEF Only
<1>8. Only(c, c3, {"query_qcfg", "assign_qcfg"}) /\ c3.current_pin = c.current_pin
      BY <1>3, <1>5, <1>6 DEF Only
<1>9. /\ \/ c3.op["query_qcfg"] \in {c.op["query_qcfg"], None}
         \/ InState("UNKNOWN") # {} /\ \E e \in Entries : c3.op["query_qcfg"] = Fresh(e)
      /\ InState("UNKNOWN") # {} => Constructed(c3, "query_qcfg")
      /\ ~st.error /\ Constructed(c, "query_qcfg")
            => c3.op["query_qcfg"] = c.op["query_qcfg"]
  <2>1. InState("UNKNOWN") # {} => Fresh(u) # None
        BY <1>4, FreshIs DEF Args
  <2>   QED BY <1>3, <1>4, <1>5, <1>7, <2>1 DEF Constructed
<1>10. \/ c3.op["assign_qcfg"] = c.op["assign_qcfg"]
       \/ /\ ~Constructed(c, "assign_qcfg") /\ InState("MISMATCH") # {}
          /\ \E e \in Entries : c3.op["assign_qcfg"] = Fresh(e)
       BY <1>4, <1>6, <1>7 DEF Constructed
<1>   QED BY <1>1, <1>8, <1>9, <1>10

LEMMA QcfgReboots ==
    ASSUME NEW c, Formed(c), ~Constructed(c, "reboot"), RebootNeeded
    PROVE  LET d == ApplyQcfg(c)
           IN  /\ Only(c, d, Ops) /\ d.current_pin = None /\ d.op["reboot"] = Fresh(None)
               /\ \A o \in Ops \ {"reboot"} : d.op[o] = None
<1>   DEFINE c1 == IF Submitted(c, "query_qcfg") /\ st.error
                   THEN Destruct(c, "query_qcfg") ELSE c
<1>1. "query_qcfg" \in Ops /\ "reboot" \in Ops
      BY OpsAre
<1>2. Only(c, c1, {"query_qcfg"}) /\ Formed(c1)
      BY <1>1, DestructIs, OnlySame, OnlyFormed
<1>3. ApplyQcfg(c) = IF ~Constructed(c1, "reboot") THEN StartReboot(c1) ELSE c1
      BY DEF ApplyQcfg, RebootNeeded
<1>   HIDE DEF c1
<1>4. ~Constructed(c1, "reboot")
      BY <1>1, <1>2 DEF Only, Constructed
<1>   DEFINE d == StartReboot(c1)
<1>5. /\ Only(c1, d, Ops) /\ d.current_pin = None /\ d.op["reboot"] = Fresh(None)
      /\ \A o \in Ops \ {"reboot"} : d.op[o] = None
      BY <1>2, StartRebootIs
<1>   HIDE DEF d
<1>6. Only(c, d, Ops)
      BY <1>2, <1>5 DEF Only
<1>   QED BY <1>3, <1>4, <1>5, <1>6 DEF d

\* The PIN is not submitted again
PinKept(c, d) ==
    \/ c.current_pin = None
    \/ d.current_pin = c.current_pin /\ d.op["set_pin"] \in {c.op["set_pin"], None}

LEMMA PinIs ==
    ASSUME NEW p \in Pins, NEW c, ControlType(c, p), NEW pin \in {None, p}
    PROVE  LET d == ApplyPin(c, pin)
           IN  /\ Only(c, d, {"request_pin_state", "set_pin", "request_pin_count"})
               /\ \A o \in Ops : d.op[o] \in OpStates
               /\ d.current_pin \in {None, p} /\ PinKept(c, d)
               /\ Constructed(d, "set_pin") => d.current_pin = p
               /\ ~st.cme_error => \A o \in Ops : Constructed(c, o) => d.op[o] = c.op[o]
<1>   DEFINE c1 == IF Submitted(c, "request_pin_state") /\ st.cme_error
                   THEN Destruct(c, "request_pin_state") ELSE c
             u == Destruct(c1, "set_pin")
             failed == Assure(u, "request_pin_count", None)
             asked == Assure(c1, "request_pin_state", None)
             s == Construct(c1, "set_pin", pin)
             set == [s EXCEPT !.current_pin = pin]
             Result(d) ==
               /\ Only(c, d, {"request_pin_state", "set_pin", "request_pin_count"})
               /\ \A o \in Ops : d.op[o] \in OpStates
               /\ d.current_pin \in {None, p} /\ PinKept(c, d)
               /\ Constructed(d, "set_pin") => d.current_pin = p
               /\ ~st.cme_error => \A o \in Ops : Constructed(c, o) => d.op[o] = c.op[o]
<1>1. /\ "request_pin_state" \in Ops /\ "set_pin" \in Ops /\ "request_pin_count" \in Ops
      /\ None \in Args /\ p \in Args /\ None # p
      BY OpsAre, AtProtocolAssumption DEF Args
<1>2. /\ Formed(c) /\ (\A o \in Ops : c.op[o] \in OpStates) /\ c.current_pin \in {None, p}
      /\ Constructed(c, "set_pin") => c.current_pin = p
      BY DEF ControlType, Formed
<1>3. /\ Only(c, c1, {"request_pin_state"}) /\ Formed(c1) /\ c1.current_pin = c.current_pin
      /\ c1.op["request_pin_state"] \in {c.op["request_pin_state"], None}
      /\ ~st.cme_error => c1.op["request_pin_state"] = c.op["request_pin_state"]
      BY <1>1, <1>2, DestructIs, OnlySame, OnlyFormed
<1>4. ApplyPin(c, pin) =
        IF Submitted(c1, "set_pin") /\ st.cme_error THEN failed
        ELSE IF st.cpin = None THEN asked
        ELSE IF st.cpin = "SIM PIN" /\ UsablePin(c1, pin) THEN set ELSE c1
      BY DEF ApplyPin
<1>   HIDE DEF c1
<1>5. None \in OpStates /\ Fresh(None) \in OpStates /\ Fresh(p) \in OpStates
      BY <1>1, FreshIs DEF OpStates
<1>6. Result(c1)
      BY <1>1, <1>2, <1>3, <1>5 DEF Only, Constructed, PinKept
<1>7. CASE st.cme_error /\ ApplyPin(c, pin) = failed
  <2>1. Only(c1, u, {"set_pin"}) /\ u.op["set_pin"] = None /\ u.current_pin = c1.current_pin
        BY <1>1, <1>3, DestructIs
  <2>2. Formed(u)
        BY <2>1, OnlyFormed
  <2>   HIDE DEF u
  <2>3. /\ Only(u, failed, {"request_pin_count"}) /\ failed.current_pin = u.current_pin
        /\ failed.op["request_pin_count"] \in {u.op["request_pin_count"], Fresh(None)}
        BY <1>1, <2>2, AssureIs
  <2>   HIDE DEF failed
  <2>4. Result(failed)
        BY <1>1, <1>2, <1>5, <1>6, <1>7, <2>1, <2>3 DEF Only, Constructed, PinKept
  <2>   QED BY <1>7, <2>4
<1>8. CASE ApplyPin(c, pin) = asked
  <2>1. /\ Only(c1, asked, {"request_pin_state"}) /\ asked.current_pin = c1.current_pin
        /\ asked.op["request_pin_state"] =
             IF Constructed(c1, "request_pin_state") THEN c1.op["request_pin_state"]
             ELSE Fresh(None)
        BY <1>1, <1>3, AssureIs
  <2>   HIDE DEF asked
  <2>2. Result(asked)
        BY <1>1, <1>2, <1>5, <1>6, <2>1 DEF Only, Constructed, PinKept
  <2>   QED BY <1>8, <2>2
<1>9. CASE UsablePin(c1, pin) /\ ApplyPin(c, pin) = set
  <2>1. pin = p /\ c1.current_pin # p
        BY <1>9 DEF UsablePin
  <2>2. Only(c1, s, {"set_pin"}) /\ s.op["set_pin"] = Fresh(pin)
        BY <1>1, <1>3, ConstructIs
  <2>3. Formed(s)
        BY <2>2, OnlyFormed
  <2>   HIDE DEF s
  <2>4. Only(s, set, {}) /\ set.op = s.op /\ set.current_pin = pin
        BY <2>3, PinSet
  <2>   HIDE DEF set
  <2>5. Result(set)
        BY <1>1, <1>2, <1>3, <1>5, <1>6, <2>1, <2>2, <2>4 DEF Only, Constructed, PinKept
  <2>   QED BY <1>9, <2>5
<1>10. CASE ApplyPin(c, pin) = c1
       BY <1>6, <1>10
<1>    HIDE DEF failed, asked, set
<1>    QED BY <1>4, <1>7, <1>8, <1>9, <1>10

LEMMA PowerIs ==
    ASSUME NEW c, Formed(c), NEW off
    PROVE  LET d == ApplyPower(c, off)
           IN  /\ Only(c, d, {"power_down"}) /\ d.current_pin = c.current_pin
               /\ d.op["power_down"] \in {c.op["power_down"], None, Fresh(None)}
               /\ ~st.error /\ Constructed(c, "power_down")
                    => d.op["power_down"] = c.op["power_down"]
<1>   DEFINE c1 == IF Submitted(c, "power_down") /\ st.error
                   THEN Destruct(c, "power_down") ELSE c
             d == Assure(c1, "power_down", None)
<1>1. "power_down" \in Ops
      BY OpsAre
<1>2. ApplyPower(c, off) \in {c1, d}
      BY DEF ApplyPower
<1>3. /\ Only(c, c1, {"power_down"}) /\ c1.current_pin = c.current_pin /\ Formed(c1)
      /\ c1.op["power_down"] \in {c.op["power_down"], None}
      /\ ~st.error => c1.op["power_down"] = c.op["power_down"]
      BY <1>1, DestructIs, OnlySame, OnlyFormed
<1>   HIDE DEF c1
<1>4. /\ Only(c1, d, {"power_down"}) /\ d.current_pin = c1.current_pin
      /\ d.op["power_down"] =
           IF Constructed(c1, "power_down") THEN c1.op["power_down"] ELSE Fresh(None)
      BY <1>1, <1>3, AssureIs
<1>   HIDE DEF d
<1>5. Only(c, d, {"power_down"})
      BY <1>3, <1>4 DEF Only
<1>   QED BY <1>2, <1>3, <1>4, <1>5 DEF Constructed

LEMMA CallListIs ==
    ASSUME NEW c, Formed(c)
    PROVE  LET d == KeepCallListUpToDate(c)
           IN  /\ Only(c, d, {"request_call_list"}) /\ d.current_pin = c.current_pin
               /\ d.op["request_call_list"] \in {c.op["request_call_list"], None, Fresh(None)}
               /\ ~st.clcc_up_to_date /\ Constructed(c, "request_call_list")
                    => d.op["request_call_list"] = c.op["request_call_list"]
<1>1. "request_call_list" \in Ops
      BY OpsAre
<1>   DEFINE a == Assure(c, "request_call_list", None)
             x == Destruct(c, "request_call_list")
<1>2. /\ Only(c, a, {"request_call_list"}) /\ a.current_pin = c.current_pin
      /\ a.op["request_call_list"] =
           IF Constructed(c, "request_call_list")
            THEN c.op["request_call_list"] ELSE Fresh(None)
      BY <1>1, AssureIs
<1>3. /\ Only(c, x, {"request_call_list"}) /\ x.current_pin = c.current_pin
      /\ x.op["request_call_list"] = None
      BY <1>1, DestructIs
<1>4. KeepCallListUpToDate(c) =
        IF ~ReadyForTelephony THEN c ELSE IF st.clcc_up_to_date THEN x ELSE a
      BY DEF KeepCallListUpToDate
<1>5. Only(c, c, {"request_call_list"})
      BY OnlySame
<1>   HIDE DEF a, x
<1>   QED BY <1>2, <1>3, <1>4, <1>5

\* Without calls, the rules about calls do nothing
LEMMA NoCalls ==
    ASSUME NEW c, c.outbound = None, st.current_call = None, NEW ring,
           c.current_ring_count = st.ring_count
    PROVE  ApplyHangUp(c, None) = c /\ ApplyCall(c, None) = c /\ ApplyRing(c, ring) = c
BY DEF ApplyHangUp, ApplyCall, ApplyRing

LEMMA ConditionalIs ==
    ASSUME NEW c, Formed(c), NEW o \in Ops, NEW cond \in BOOLEAN
    PROVE  LET d == Conditional(c, o, cond)
           IN  /\ Only(c, d, {o}) /\ d.current_pin = c.current_pin
               /\ cond /\ Constructed(c, o) => d.op[o] = c.op[o]
               /\ cond /\ ~Constructed(c, o) => d.op[o] = Fresh(None)
               /\ ~cond => d.op[o] = None
<1>   DEFINE a == Assure(c, o, None)
             x == Destruct(c, o)
<1>1. /\ Only(c, a, {o}) /\ a.current_pin = c.current_pin
      /\ a.op[o] = IF Constructed(c, o) THEN c.op[o] ELSE Fresh(None)
      BY AssureIs
<1>2. Only(c, x, {o}) /\ x.current_pin = c.current_pin /\ x.op[o] = None
      BY DestructIs
<1>3. Conditional(c, o, cond) = IF cond THEN a ELSE x
      BY DEF Conditional
<1>   HIDE DEF a, x
<1>   QED BY <1>1, <1>2, <1>3

\* What the rules make of c
RulesResult(c, d, p) ==
    /\ ControlType(d, p) /\ RulesInv(d)
    /\ Constructed(d, "check_ready") => Constructed(c, "check_ready")
    /\ Constructed(d, "disable_echo") => ~st.echo_disabled /\ st.at_ok
    /\ Constructed(d, "assign_qcfg") /\ InState("UNKNOWN") # {}
         => Constructed(d, "query_qcfg")
    /\ Constructed(d, "query_qcfg")
         => Constructed(c, "query_qcfg") \/ InState("UNKNOWN") # {}
    /\ Constructed(d, "assign_qcfg")
         => Constructed(c, "assign_qcfg") \/ InState("MISMATCH") # {}
    /\ RebootNeeded => Constructed(d, "reboot")
    /\ \/ ~Constructed(c, "reboot") /\ RebootNeeded
       \/ d.op["reboot"] = c.op["reboot"] /\ PinKept(c, d)
    /\ \/ st.echo_disabled \/ Submitted(d, "reboot") \/ Constructed(d, "disable_echo")
       \/ d.op["check_ready"] = c.op["check_ready"] /\ (~st.rdy \/ ~st.at_ok)
    /\ \A o \in Ops : Constructed(c, o) /\ Held(c, o) => d.op[o] = c.op[o]

\* Membership in the types from the members
LEMMA TypeOnly ==
    ASSUME NEW p, NEW c, ControlType(c, p), NEW d, NEW S, Only(c, d, S),
           \A o \in S : d.op[o] \in OpStates,
           d.current_pin \in {None, p}, Constructed(d, "set_pin") => d.current_pin = p,
           \A o \in CallOps : d.op[o] \in {None, c.op[o]},
           \A o \in {"query_qcfg", "assign_qcfg"} :
               \/ d.op[o] \in {None, c.op[o]}
               \/ \E e \in Entries : d.op[o] = Fresh(e)
    PROVE  ControlType(d, p)
<1>1. \A o \in Ops : d.op[o] \in OpStates
      BY DEF ControlType, Only
<1>2. \A o \in CallOps : ~Constructed(d, o)
      BY DEF ControlType, Constructed
<1>3. ASSUME NEW o \in {"query_qcfg", "assign_qcfg"}, Constructed(d, o)
      PROVE  d.op[o].arg \in Entries
  <2>1. CASE d.op[o] = c.op[o]
        BY <1>3, <2>1 DEF ControlType, Constructed
  <2>2. CASE \E e \in Entries : d.op[o] = Fresh(e)
        BY <2>2 DEF Fresh
  <2>   QED BY <1>3, <2>1, <2>2 DEF Constructed
<1>   QED BY <1>1, <1>2, <1>3 DEF ControlType, Only

LEMMA RulesAre ==
    ASSUME NEW p \in Pins, NEW c, ControlType(c, p), RulesInv(c), st.current_call = None,
           NEW cfg, OneCfg(cfg, p)
    PROVE  RulesResult(c, ControlApplyConfig(c, cfg), p)
<1>   DEFINE cond == ~st.echo_disabled /\ st.at_ok
             c1 == Conditional(c, "disable_echo", cond)
             q == ApplyQcfg(c1)
             a == ApplyPin(q, cfg.pin)
             c2 == ApplyPower(a, cfg.off)
             h == ApplyHangUp(c2, cfg.call)
             c3 == KeepCallListUpToDate(h)
             c4 == ApplyCall(c3, cfg.call)
             c5 == ApplyRing(c4, cfg.ring)
<1>1. ControlApplyConfig(c, cfg) =
        IF Constructed(c, "reboot") \/ ~st.rdy THEN c
        ELSE IF ~st.echo_disabled THEN c1 ELSE c5
      BY DEF ControlApplyConfig
<1>2. /\ Formed(c)
      /\ \A o \in {"check_ready", "disable_echo", "query_qcfg", "assign_qcfg", "reboot",
                   "set_pin"} \union CallOps : o \in Ops
      /\ cond \in BOOLEAN /\ None \in Args /\ None # p /\ None \in OpStates
      BY OpsAre, AtProtocolAssumption DEF ControlType, Formed, CallOps, Args, OpStates
<1>3. Fresh(None) \in OpStates /\ Fresh(None) # None
      BY <1>2, FreshIs
<1>4. CASE Constructed(c, "reboot") \/ ~st.rdy
      BY <1>1, <1>4 DEF RulesResult, RulesInv, RebootNeeded, PinKept
<1>5. /\ Only(c, c1, {"disable_echo"}) /\ c1.current_pin = c.current_pin
      /\ cond /\ Constructed(c, "disable_echo")
           => c1.op["disable_echo"] = c.op["disable_echo"]
      /\ cond /\ ~Constructed(c, "disable_echo") => c1.op["disable_echo"] = Fresh(None)
      /\ ~cond => c1.op["disable_echo"] = None
  <2>   HIDE DEF cond
  <2>   QED BY <1>2, ConditionalIs
<1>   HIDE DEF c1
<1>6. \A o \in Ops \ {"disable_echo"} : c1.op[o] = c.op[o]
      BY <1>5 DEF Only
<1>7. ControlType(c1, p)
  <2>1. c1.op["disable_echo"] \in OpStates
        BY <1>2, <1>3, <1>5 DEF ControlType
  <2>2. /\ \A o \in CallOps : c1.op[o] \in {None, c.op[o]}
        /\ \A o \in {"query_qcfg", "assign_qcfg"} : c1.op[o] \in {None, c.op[o]}
        /\ c1.op["set_pin"] = c.op["set_pin"]
        BY <1>2, <1>6 DEF CallOps
  <2>   QED BY <1>5, <2>1, <2>2, TypeOnly DEF ControlType, Constructed
<1>8. CASE ~Constructed(c, "reboot") /\ st.rdy /\ ~st.echo_disabled
  <2>1. ControlApplyConfig(c, cfg) = c1
        BY <1>1, <1>8
  <2>2. RulesInv(c1)
        BY <1>2, <1>6, <1>8 DEF RulesInv, Constructed, Submitted
  <2>3. ~RebootNeeded /\ ~Constructed(c1, "assign_qcfg")
        BY <1>2, <1>6, <1>8 DEF RulesInv, RebootNeeded, Constructed
  <2>4. Constructed(c1, "disable_echo") <=> st.at_ok
        BY <1>3, <1>5, <1>8 DEF Constructed
  <2>5. ASSUME NEW o \in Ops, Constructed(c, o), Held(c, o) PROVE c1.op[o] = c.op[o]
        BY <1>5, <1>6, <2>5 DEF Held
  <2>6. /\ c1.op["check_ready"] = c.op["check_ready"]
        /\ Constructed(c1, "query_qcfg") => Constructed(c, "query_qcfg")
        /\ c1.op["reboot"] = c.op["reboot"] /\ PinKept(c, c1)
        BY <1>2, <1>5, <1>6 DEF Constructed, PinKept
  <2>   QED BY <1>7, <1>8, <2>1, <2>2, <2>3, <2>4, <2>5, <2>6 DEF RulesResult, Constructed
<1>9. CASE ~Constructed(c, "reboot") /\ st.rdy /\ st.echo_disabled
  <2>1. ControlApplyConfig(c, cfg) = c5
        BY <1>1, <1>9
  <2>2. c1.op["disable_echo"] = None /\ ~Constructed(c1, "reboot") /\ Formed(c1)
        BY <1>2, <1>5, <1>6, <1>9, OnlyFormed DEF Constructed
  <2>3. /\ ControlType(q, p) /\ q.op["disable_echo"] = None
        /\ Constructed(q, "reboot") => ~Constructed(q, "assign_qcfg")
        /\ RebootNeeded => Constructed(q, "reboot")
        /\ Constructed(q, "assign_qcfg") /\ InState("UNKNOWN") # {}
             => Constructed(q, "query_qcfg")
        /\ InState("MODIFIED") # {}
             => InState("UNKNOWN") = {} /\ ~Constructed(q, "query_qcfg")
        /\ Constructed(q, "query_qcfg")
             => Constructed(c, "query_qcfg") \/ InState("UNKNOWN") # {}
        /\ Constructed(q, "check_ready") => Constructed(c, "check_ready")
        /\ Constructed(q, "assign_qcfg")
             => Constructed(c, "assign_qcfg") \/ InState("MISMATCH") # {}
        /\ \/ RebootNeeded
           \/ /\ q.op["reboot"] = c.op["reboot"] /\ q.op["set_pin"] = c.op["set_pin"]
              /\ q.current_pin = c.current_pin
        /\ \A o \in Ops : Constructed(c, o) /\ Held(c, o) => q.op[o] = c.op[o]
    <3>1. CASE RebootNeeded
      <4>1. /\ Only(c1, q, Ops) /\ q.current_pin = None /\ q.op["reboot"] = Fresh(None)
            /\ \A o \in Ops \ {"reboot"} : q.op[o] = None
            BY <2>2, <3>1, QcfgReboots
      <4>   HIDE DEF q
      <4>2. \A o \in {"check_ready", "disable_echo", "query_qcfg", "assign_qcfg", "set_pin"}
                       \union CallOps : q.op[o] = None
            BY <1>2, <4>1 DEF CallOps
      <4>3. \A o \in Ops : q.op[o] \in OpStates
            BY <1>2, <1>3, <4>1
      <4>4. ControlType(q, p)
        <5>1. /\ \A o \in CallOps : q.op[o] \in {None, c1.op[o]}
              /\ \A o \in {"query_qcfg", "assign_qcfg"} : q.op[o] \in {None, c1.op[o]}
              /\ ~Constructed(q, "set_pin") /\ q.current_pin \in {None, p}
              BY <4>1, <4>2 DEF Constructed
        <5>   QED BY <1>7, <4>1, <4>3, <5>1, TypeOnly
      <4>5. \A o \in Ops : ~Held(c, o)
            BY <1>9, <3>1 DEF Held
      <4>6. InState("UNKNOWN") = {}
            BY <3>1 DEF RebootNeeded
      <4>   QED BY <1>3, <3>1, <4>1, <4>2, <4>4, <4>5, <4>6 DEF Constructed
    <3>2. CASE ~RebootNeeded
      <4>1. /\ Only(c1, q, {"query_qcfg", "assign_qcfg"}) /\ q.current_pin = c1.current_pin
            /\ \/ q.op["query_qcfg"] \in {c1.op["query_qcfg"], None}
               \/ /\ InState("UNKNOWN") # {}
                  /\ \E e \in Entries : q.op["query_qcfg"] = Fresh(e)
            /\ InState("UNKNOWN") # {} => Constructed(q, "query_qcfg")
            /\ ~st.error /\ Constructed(c1, "query_qcfg")
                 => q.op["query_qcfg"] = c1.op["query_qcfg"]
            /\ \/ q.op["assign_qcfg"] = c1.op["assign_qcfg"]
               \/ /\ ~Constructed(c1, "assign_qcfg") /\ InState("MISMATCH") # {}
                  /\ \E e \in Entries : q.op["assign_qcfg"] = Fresh(e)
            BY <2>2, <3>2, QcfgIs
      <4>   HIDE DEF q
      <4>2. \A o \in Ops \ {"query_qcfg", "assign_qcfg"} : q.op[o] = c1.op[o]
            BY <4>1 DEF Only
      <4>3. /\ q.op["disable_echo"] = None /\ ~Constructed(q, "reboot")
            /\ q.op["check_ready"] = c.op["check_ready"] /\ q.op["set_pin"] = c1.op["set_pin"]
            /\ \A o \in CallOps : q.op[o] \in {None, c1.op[o]}
            BY <1>2, <1>6, <2>2, <4>2 DEF Constructed, CallOps
      <4>4. \A o \in {"query_qcfg", "assign_qcfg"} : q.op[o] \in OpStates
        <5>1. \A e \in Entries : Fresh(e) \in OpStates
              BY FreshIs DEF Args
        <5>2. c1.op["query_qcfg"] \in OpStates /\ c1.op["assign_qcfg"] \in OpStates
              BY <1>2, <1>7 DEF ControlType
        <5>   QED BY <1>2, <4>1, <5>1, <5>2
      <4>5. ControlType(q, p)
        <5>1. /\ q.current_pin \in {None, p}
              /\ Constructed(q, "set_pin") => q.current_pin = p
              BY <1>7, <4>1, <4>3 DEF ControlType, Constructed
        <5>2. \A o \in {"query_qcfg", "assign_qcfg"} :
                 \/ q.op[o] \in {None, c1.op[o]}
                 \/ \E e \in Entries : q.op[o] = Fresh(e)
              BY <4>1
        <5>   QED BY <1>7, <4>1, <4>3, <4>4, <5>1, <5>2, TypeOnly
      <4>6. InState("MODIFIED") # {}
              => InState("UNKNOWN") = {} /\ ~Constructed(q, "query_qcfg")
            BY <1>2, <1>6, <4>1 DEF RulesInv, Constructed
      <4>7. Constructed(q, "query_qcfg")
              => Constructed(c, "query_qcfg") \/ InState("UNKNOWN") # {}
            BY <1>2, <1>6, <4>1 DEF Constructed
      <4>8. /\ Constructed(q, "assign_qcfg")
                 => Constructed(c, "assign_qcfg") \/ InState("MISMATCH") # {}
            /\ q.op["reboot"] = c.op["reboot"] /\ q.op["set_pin"] = c.op["set_pin"]
            /\ q.current_pin = c.current_pin
            BY <1>2, <1>5, <1>6, <4>1, <4>2 DEF Constructed
      <4>9. ASSUME NEW o \in Ops, Constructed(c, o), Held(c, o) PROVE q.op[o] = c.op[o]
        <5>1. o # "disable_echo" /\ ~st.error
              BY <1>9, <4>9 DEF Held
        <5>2. c1.op[o] = c.op[o]
              BY <1>6, <5>1
        <5>3. CASE o = "query_qcfg"
              BY <4>1, <4>9, <5>1, <5>2, <5>3 DEF Constructed
        <5>4. CASE o = "assign_qcfg"
              BY <4>1, <4>9, <5>2, <5>4 DEF Constructed
        <5>   QED BY <4>2, <5>2, <5>3, <5>4
      <4>   QED BY <3>2, <4>1, <4>3, <4>5, <4>6, <4>7, <4>8, <4>9 DEF Constructed
    <3>   QED BY <3>1, <3>2
  <2>   HIDE DEF q
  <2>4. cfg.pin \in {None, p} /\ cfg.call = None
        BY DEF OneCfg
  <2>5. /\ Only(q, a, {"request_pin_state", "set_pin", "request_pin_count"})
        /\ \A o \in Ops : a.op[o] \in OpStates
        /\ a.current_pin \in {None, p} /\ PinKept(q, a)
        /\ Constructed(a, "set_pin") => a.current_pin = p
        /\ ~st.cme_error => \A o \in Ops : Constructed(q, o) => a.op[o] = q.op[o]
        BY <2>3, <2>4, PinIs
  <2>6. Formed(a)
        BY <2>5, OnlyFormed
  <2>   HIDE DEF a
  <2>7. /\ Only(a, c2, {"power_down"}) /\ c2.current_pin = a.current_pin
        /\ c2.op["power_down"] \in {a.op["power_down"], None, Fresh(None)}
        /\ ~st.error /\ Constructed(a, "power_down")
             => c2.op["power_down"] = a.op["power_down"]
        BY <2>6, PowerIs
  <2>8. /\ Formed(c2) /\ c2.outbound = None /\ c2.current_ring_count = st.ring_count
        BY <2>3, <2>5, <2>7, OnlyFormed DEF Only, ControlType
  <2>   HIDE DEF c2
  <2>9. h = c2
        BY <2>4, <2>8, NoCalls
  <2>   HIDE DEF h
  <2>10. /\ Only(c2, c3, {"request_call_list"}) /\ c3.current_pin = c2.current_pin
         /\ c3.op["request_call_list"] \in {c2.op["request_call_list"], None, Fresh(None)}
         /\ ~st.clcc_up_to_date /\ Constructed(c2, "request_call_list")
              => c3.op["request_call_list"] = c2.op["request_call_list"]
         BY <2>8, <2>9, CallListIs
  <2>   HIDE DEF c3
  <2>11. c5 = c3
    <3>1. c3.outbound = None /\ c3.current_ring_count = st.ring_count
          BY <2>8, <2>10 DEF Only
    <3>2. c4 = c3
          BY <2>4, <3>1, NoCalls
    <3>   HIDE DEF c4
    <3>   QED BY <3>1, <3>2, NoCalls
  <2>   HIDE DEF c4, c5
  <2>   DEFINE S == {"request_pin_state", "set_pin", "request_pin_count", "power_down",
                     "request_call_list"}
  <2>12. Only(q, c3, S)
         BY <2>5, <2>7, <2>10 DEF Only
  <2>13. /\ \A o \in Ops \ S : c3.op[o] = q.op[o]
         /\ c3.op["set_pin"] = a.op["set_pin"] /\ c3.current_pin = a.current_pin
         /\ \A o \in Ops : c3.op[o] \in OpStates
    <3>1. \A o \in Ops : c2.op[o] \in OpStates
          BY <1>2, <1>3, <2>5, <2>7 DEF Only
    <3>2. \A o \in Ops : c3.op[o] \in OpStates
          BY <1>2, <1>3, <2>10, <3>1 DEF Only
    <3>3. c3.op["set_pin"] = a.op["set_pin"]
          BY <1>2, <2>7, <2>10 DEF Only
    <3>   QED BY <2>7, <2>10, <2>12, <3>2, <3>3 DEF Only
  <2>14. \A o \in {"check_ready", "disable_echo", "query_qcfg", "assign_qcfg", "reboot"}
                   \union CallOps : c3.op[o] = q.op[o]
         BY <1>2, <2>13 DEF CallOps
  <2>15. ControlType(c3, p)
    <3>1. \A o \in S : c3.op[o] \in OpStates
          BY <2>13, OpsAre
    <3>2. /\ c3.current_pin \in {None, p}
          /\ Constructed(c3, "set_pin") => c3.current_pin = p
          BY <2>5, <2>13 DEF Constructed
    <3>3. /\ \A o \in CallOps : c3.op[o] \in {None, q.op[o]}
          /\ \A o \in {"query_qcfg", "assign_qcfg"} : c3.op[o] \in {None, q.op[o]}
          BY <2>14
    <3>   HIDE DEF S
    <3>   QED BY <2>3, <2>12, <3>1, <3>2, <3>3, TypeOnly
  <2>16. RulesInv(c3)
         BY <1>9, <2>3, <2>14 DEF RulesInv, Constructed
  <2>17. ASSUME NEW o \in Ops, Constructed(c, o), Held(c, o) PROVE c3.op[o] = c.op[o]
    <3>1. ~st.error /\ ~st.cme_error /\ (o = "request_call_list" => ~st.clcc_up_to_date)
          BY <2>17 DEF Held
    <3>2. q.op[o] = c.op[o] /\ a.op[o] = c.op[o]
          BY <2>3, <2>5, <2>17, <3>1 DEF Constructed
    <3>3. c2.op[o] = c.op[o]
          BY <2>7, <2>17, <3>1, <3>2 DEF Only, Constructed
    <3>   QED BY <2>10, <2>17, <3>1, <3>3 DEF Only, Constructed
  <2>18. \/ ~Constructed(c, "reboot") /\ RebootNeeded
         \/ c3.op["reboot"] = c.op["reboot"] /\ PinKept(c, c3)
         BY <1>9, <2>3, <2>5, <2>13, <2>14 DEF PinKept
  <2>   QED BY <1>9, <2>1, <2>3, <2>11, <2>14, <2>15, <2>16, <2>17, <2>18
            DEF RulesResult, Constructed
<1>   QED BY <1>4, <1>8, <1>9

-------------------------------------------------------------------------------
(* What is submitted, completed and prepared for the rules *)

\* The operation o is to be submitted
Waits(c, o) == Constructed(c, o) /\ c.op[o].state = "PENDING"

LEMMA NextPendingIs ==
    ASSUME NEW c, NextPending(c) # 0
    PROVE  LET i == NextPending(c)
           IN  /\ i \in 1 .. 14 /\ Waits(c, Operations[i])
               /\ \A j \in 1 .. 14 : j < i => ~Waits(c, Operations[j])
<1>   DEFINE I == {i \in 1 .. 14 : Waits(c, Operations[i])}
             m == CHOOSE x \in I : \A y \in I : x <= y
<1>1. Len(Operations) = 14
      BY DEF Operations
<1>2. NextPending(c) = IF I # {} THEN m ELSE 0
      BY <1>1 DEF NextPending, SelectInSeq, Min, Waits
<1>3. I \in SUBSET Nat
      OBVIOUS
<1>4. I # {}
      BY <1>2
<1>5. \E x \in I : \A y \in I : x <= y
  <2>   HIDE DEF I
  <2>   QED BY <1>3, <1>4, Minimum
<1>6. m \in I /\ \A y \in I : m <= y
      BY <1>5
<1>   QED BY <1>2, <1>4, <1>6

LEMMA CompleteIs ==
    ASSUME NEW c
    PROVE  \/ CompleteOperation(c) = c
           \/ /\ st.ok
              /\ \E o \in Ops : Submitted(c, o) /\ CompleteOperation(c) = Destruct(c, o)
<1>   DEFINE I == {i \in 1 .. 14 : Submitted(c, Operations[i])}
             m == CHOOSE x \in I : \A y \in I : x <= y
             first == SelectInSeq(Operations, LAMBDA o : Submitted(c, o))
<1>1. Len(Operations) = 14 /\ DOMAIN Operations = 1 .. 14
      BY DEF Operations
<1>2. first = IF I # {} THEN m ELSE 0
      BY <1>1 DEF SelectInSeq, Min
<1>3. CompleteOperation(c) = IF st.ok /\ first # 0 THEN Destruct(c, Operations[first]) ELSE c
      BY DEF CompleteOperation
<1>   HIDE DEF first
<1>4. CASE I = {}
      BY <1>2, <1>3, <1>4
<1>5. CASE I # {}
  <2>1. I \in SUBSET Nat
        OBVIOUS
  <2>2. \E x \in I : \A y \in I : x <= y
    <3>   HIDE DEF I
    <3>   QED BY <1>5, <2>1, Minimum
  <2>3. m \in I
        BY <2>2
  <2>4. first \in 1 .. 14
        BY <1>2, <1>5, <2>3
  <2>5. Operations[first] \in Ops /\ Submitted(c, Operations[first])
        BY <1>1, <1>2, <1>5, <2>3, <2>4 DEF Ops, Range
  <2>   QED BY <1>3, <2>5
<1>   QED BY <1>4, <1>5

\* What the rules are applied to, and what they make of it
Prepared == Conditional(CompleteOperation(ct), "check_ready", ~st.at_ok)
Applied  == ControlApplyConfig(Prepared, config)

LEMMA FewerOps ==
    ASSUME NEW p, NEW c, ControlType(c, p), RulesInv(c), NEW d, NEW S, Only(c, d, S),
           d.current_pin = c.current_pin,
           \A o \in Ops \ {"check_ready"} : d.op[o] \in {None, c.op[o]},
           d.op["check_ready"] \in OpStates
    PROVE  ControlType(d, p) /\ RulesInv(d)
<1>1. \A o \in {"disable_echo", "query_qcfg", "assign_qcfg", "reboot", "set_pin"}
                \union CallOps : d.op[o] \in {None, c.op[o]}
      BY OpsAre DEF CallOps
<1>2. \A o \in Ops : d.op[o] \in OpStates
  <2>1. \A o \in Ops : c.op[o] \in OpStates
        BY DEF ControlType
  <2>   QED BY <2>1 DEF OpStates
<1>3. ControlType(d, p)
  <2>1. Only(c, d, Ops)
        BY DEF Only
  <2>2. d.current_pin \in {None, p} /\ (Constructed(d, "set_pin") => d.current_pin = p)
        BY <1>1 DEF ControlType, Constructed
  <2>   QED BY <1>1, <1>2, <2>1, <2>2, TypeOnly
<1>4. RulesInv(d)
      BY <1>1 DEF RulesInv, Constructed, Submitted
<1>   QED BY <1>3, <1>4

LEMMA AppliedIs ==
    ASSUME NEW p \in Pins, ControlType(ct, p), RulesInv(ct), st.current_call = None,
           OneCfg(config, p)
    PROVE  /\ RulesResult(Prepared, Applied, p)
           /\ Constructed(Prepared, "check_ready") <=> ~st.at_ok
           /\ Constructed(Applied, "query_qcfg")
                => Constructed(ct, "query_qcfg") \/ InState("UNKNOWN") # {}
           /\ \A o \in Ops : Constructed(ct, o) /\ Held(ct, o) => Applied.op[o] = ct.op[o]
<1>   DEFINE b == CompleteOperation(ct)
             cond == ~st.at_ok
             e == Conditional(b, "check_ready", cond)
<1>1. /\ "check_ready" \in Ops /\ "reboot" \in Ops /\ None \in OpStates
      /\ Fresh(None) \in OpStates /\ Fresh(None) # None /\ cond \in BOOLEAN
  <2>1. None \in Args
        BY DEF Args
  <2>   QED BY <2>1, OpsAre, FreshIs DEF OpStates
<1>2. Formed(ct)
      BY DEF ControlType, Formed
<1>3. /\ Only(ct, b, Ops) /\ b.current_pin = ct.current_pin
      /\ \A o \in Ops : b.op[o] \in {None, ct.op[o]}
      /\ ~st.ok => b = ct
  <2>1. CASE b = ct
        BY <1>2, <2>1, OnlySame
  <2>2. CASE st.ok /\ \E o \in Ops : b = Destruct(ct, o)
    <3>1. PICK o \in Ops : b = Destruct(ct, o)
          BY <2>2
    <3>2. Only(ct, b, {o}) /\ b.op[o] = None /\ b.current_pin = ct.current_pin
          BY <1>2, <3>1, DestructIs
    <3>   QED BY <2>2, <3>2 DEF Only
  <2>   QED BY <2>1, <2>2, CompleteIs
<1>4. Formed(b)
      BY <1>3, OnlyFormed
<1>5. e = Prepared
      BY DEF Prepared
<1>   HIDE DEF b
<1>6. /\ Only(b, e, {"check_ready"}) /\ e.current_pin = b.current_pin
      /\ cond /\ Constructed(b, "check_ready") => e.op["check_ready"] = b.op["check_ready"]
      /\ cond /\ ~Constructed(b, "check_ready") => e.op["check_ready"] = Fresh(None)
      /\ ~cond => e.op["check_ready"] = None
  <2>   HIDE DEF cond
  <2>   QED BY <1>1, <1>4, ConditionalIs
<1>   HIDE DEF e
<1>7. ControlType(b, p) /\ RulesInv(b)
  <2>1. b.op["check_ready"] \in OpStates
        BY <1>1, <1>3 DEF ControlType
  <2>   QED BY <1>3, <2>1, FewerOps
<1>8. ControlType(e, p) /\ RulesInv(e)
  <2>1. e.op["check_ready"] \in OpStates
        BY <1>1, <1>6, <1>7 DEF ControlType
  <2>2. \A o \in Ops \ {"check_ready"} : e.op[o] \in {None, b.op[o]}
        BY <1>6 DEF Only
  <2>   QED BY <1>6, <1>7, <2>1, <2>2, FewerOps
<1>9. RulesResult(e, ControlApplyConfig(e, config), p)
      BY <1>8, RulesAre
<1>10. Constructed(e, "check_ready") <=> ~st.at_ok
       BY <1>1, <1>6 DEF Constructed
<1>11. ASSUME NEW o \in Ops, Constructed(ct, o), Held(ct, o)
       PROVE  Applied.op[o] = ct.op[o]
  <2>1. b = ct
        BY <1>3, <1>11 DEF Held
  <2>2. e.op[o] = ct.op[o] /\ e.op["reboot"] = ct.op["reboot"]
        BY <1>1, <1>6, <1>11, <2>1 DEF Only, Held
  <2>3. Constructed(e, o) /\ Held(e, o)
        BY <1>11, <2>2 DEF Held, Constructed
  <2>   QED BY <1>5, <1>9, <2>2, <2>3 DEF RulesResult, Applied
<1>12. Constructed(e, "query_qcfg") => Constructed(ct, "query_qcfg")
       BY OpsAre, <1>3, <1>6 DEF Only, Constructed
<1>13. Constructed(Applied, "query_qcfg")
         => Constructed(ct, "query_qcfg") \/ InState("UNKNOWN") # {}
       BY <1>5, <1>9, <1>12 DEF RulesResult, Applied
<1>   QED BY <1>5, <1>9, <1>10, <1>11, <1>13 DEF Applied

-------------------------------------------------------------------------------
(* The inductive invariant of the dialogue *)

\* A line that completes a command
Final(l) == l.kind \in {"OK", "ERROR", "CME BUSY", "CME 16"}

SimStates == {"BUSY", "SIM PIN", "READY", "SIM PUK"}
Commands  == [op : Ops, arg : Args]
Settings  == Entries \X BOOLEAN
LineKinds == {"OK", "ERROR", "CME BUSY", "CME 16", "CPIN", "POWERED DOWN", "QCFG", "RDY"}
LineSet   == {l \in [kind : LineKinds, arg : {None} \union SimStates \union Settings,
                     re : Ops \union {None}] : l.kind = "QCFG" => l.arg \in Settings}

StatusMembers ==
    {"at_ok", "echo_disabled", "powered_down", "ok", "rdy", "error", "cme_error",
     "clcc_up_to_date", "ring_count", "no_carrier_count", "cpin", "current_call", "pending",
     "qcfg"}

\* A command about a setting names it
ForEntry(cmd) == cmd.op \in {"query_qcfg", "assign_qcfg"} => cmd.arg \in Entries

Flags == {"at_ok", "echo_disabled", "rdy", "ok", "error", "cme_error", "clcc_up_to_date"}

StatusType ==
    /\ DOMAIN st = StatusMembers /\ st.current_call = None /\ DOMAIN st.qcfg = Entries
    /\ \A f \in Flags : st[f] \in BOOLEAN
    /\ st.pending # None =>
         /\ st.pending \in Commands /\ ForEntry(st.pending) /\ st.pending.op \notin CallOps

Bounds == {"calls", "rings", "configs", "errors"}

ModemType ==
    modem \in [run : {"up", "boot", "off"}, echo : BOOLEAN, sim : SimStates, tries : Int,
               setting : [Entries -> BOOLEAN], call : {None}]

DialogueType(p) ==
    /\ StatusType /\ ControlType(ct, p) /\ ModemType
    /\ command \in Seq(Commands) /\ line \in Seq(LineSet)
    /\ config \in Configs
    /\ DOMAIN left = Bounds /\ left.calls = 0

\* The modem owes an answer, or it is on its way
Awaited == command # <<>> \/ \E i \in 1 .. Len(line) : Final(line[i])

\* The operation whose answer is awaited is in flight and held there
FlightInv ==
    Awaited =>
        /\ st.pending # None /\ Submitted(ct, st.pending.op) /\ Held(ct, st.pending.op)
        /\ st.pending.op = "assign_qcfg"
             => InState("UNKNOWN") = {} /\ ~Constructed(ct, "query_qcfg")

\* There is one command or its answer, which ends with the only final line
LinesInv ==
    /\ command # <<>> => /\ command = <<st.pending>>
                         /\ \A i \in 1 .. Len(line) : ~Final(line[i])
    /\ \A i \in 1 .. Len(line) :
          Final(line[i]) => /\ line[i].re = st.pending.op
                            /\ \A j \in 1 .. Len(line) : Final(line[j]) => i = j
    /\ \A i \in 1 .. Len(line) :
          line[i].kind = "QCFG" => /\ st.pending # None /\ st.pending.op = "query_qcfg"
                                   /\ \E j \in i + 1 .. Len(line) : Final(line[j])

DialogueInv(p) == DialogueType(p) /\ RulesInv(ct) /\ FlightInv /\ LinesInv

-------------------------------------------------------------------------------
(* The steps of the modem *)

\* The answer to a command
Reply(cmd, ls) ==
    /\ \A i \in 1 .. Len(ls) :
          Final(ls[i]) => /\ ls[i].re = cmd.op
                          /\ \A j \in 1 .. Len(ls) : Final(ls[j]) => i = j
    /\ \A i \in 1 .. Len(ls) :
          ls[i].kind = "QCFG" => /\ cmd.op = "query_qcfg"
                                 /\ \E j \in i + 1 .. Len(ls) : Final(ls[j])

LEMMA ConcatIs ==
    ASSUME NEW S, NEW s \in Seq(S), NEW t \in Seq(S)
    PROVE  LET u == s \o t
           IN  /\ u \in Seq(S) /\ Len(u) = Len(s) + Len(t) /\ Len(s) \in Nat /\ Len(t) \in Nat
               /\ \A i \in 1 .. Len(s) : u[i] = s[i]
               /\ \A i \in 1 .. Len(t) : u[Len(s) + i] = t[i]
               /\ \A i \in 1 .. Len(u) : i \notin 1 .. Len(s) =>
                     i - Len(s) \in 1 .. Len(t) /\ u[i] = t[i - Len(s)]
OBVIOUS

LEMMA TailIs ==
    ASSUME NEW S, NEW s \in Seq(S), s # <<>>
    PROVE  LET t == Tail(s)
           IN  /\ t \in Seq(S) /\ Len(s) \in Nat /\ Len(s) >= 1 /\ Len(t) = Len(s) - 1
               /\ Head(s) = s[1] /\ s[1] \in S
               /\ \A i \in 1 .. Len(t) : i + 1 \in 1 .. Len(s) /\ t[i] = s[i + 1]
               /\ \A i \in 1 .. Len(s) : i # 1 => i - 1 \in 1 .. Len(t) /\ t[i - 1] = s[i]
OBVIOUS

LEMMA RefusalIs ==
    ASSUME NEW cmd \in Commands
    PROVE  LET ls == <<Line("ERROR", None, cmd.op)>>
           IN  ls \in Seq(LineSet) /\ Reply(cmd, ls)
<1>   DEFINE l == Line("ERROR", None, cmd.op)
<1>1. l \in LineSet /\ l.re = cmd.op /\ l.kind = "ERROR"
      BY DEF Line, LineSet, LineKinds, Commands
<1>   HIDE DEF l
<1>2. <<l>> \in Seq(LineSet) /\ Len(<<l>>) = 1 /\ <<l>>[1] = l
      BY <1>1
<1>3. Reply(cmd, <<l>>)
      BY <1>1, <1>2 DEF Reply
<1>   QED BY <1>2, <1>3 DEF l

\* One line, or a line of information and a final one

LEMMA OneLine ==
    ASSUME NEW cmd, NEW l \in LineSet, Final(l) => l.re = cmd.op, l.kind # "QCFG"
    PROVE  <<l>> \in Seq(LineSet) /\ Reply(cmd, <<l>>)
<1>1. <<l>> \in Seq(LineSet) /\ Len(<<l>>) = 1 /\ <<l>>[1] = l
      OBVIOUS
<1>   QED BY <1>1 DEF Reply

LEMMA TwoLines ==
    ASSUME NEW cmd, NEW l \in LineSet, NEW m \in LineSet,
           Final(l) <=> ~Final(m), (IF Final(l) THEN l ELSE m).re = cmd.op,
           m.kind # "QCFG", l.kind = "QCFG" => cmd.op = "query_qcfg"
    PROVE  <<l, m>> \in Seq(LineSet) /\ Reply(cmd, <<l, m>>)
<1>   DEFINE ls == <<l, m>>
<1>1. ls \in Seq(LineSet) /\ Len(ls) = 2 /\ ls[1] = l /\ ls[2] = m
      OBVIOUS
<1>   HIDE DEF ls
<1>2. \A i \in 1 .. Len(ls) : i = 1 \/ i = 2
      BY <1>1
<1>3. Reply(cmd, ls)
  <2>1. ASSUME NEW i \in 1 .. Len(ls), Final(ls[i])
        PROVE  ls[i].re = cmd.op /\ \A j \in 1 .. Len(ls) : Final(ls[j]) => i = j
        BY <1>1, <1>2, <2>1
  <2>2. ASSUME NEW i \in 1 .. Len(ls), ls[i].kind = "QCFG"
        PROVE  cmd.op = "query_qcfg" /\ \E j \in i + 1 .. Len(ls) : Final(ls[j])
    <3>1. i = 1 /\ l.kind = "QCFG" /\ ~Final(l)
          BY <1>1, <1>2, <2>2 DEF Final
    <3>2. Final(ls[2]) /\ 2 \in i + 1 .. Len(ls)
          BY <1>1, <3>1
    <3>   QED BY <3>1, <3>2
  <2>   QED BY <2>1, <2>2 DEF Reply
<1>   QED BY <1>1, <1>3 DEF ls

\* What becomes of the modem
Reacts(cmd) ==
    /\ cmd.op # "reboot" /\ modem'.echo => modem.echo
    /\ cmd.op = "disable_echo" => ~modem'.echo
    /\ cmd.op = "reboot" => modem'.run = "boot"

LEMMA RespondIs ==
    ASSUME ModemType, NEW cmd \in Commands, cmd.op \notin CallOps, ForEntry(cmd), Respond(cmd)
    PROVE  /\ ModemType' /\ Reacts(cmd)
           /\ \E ls \in Seq(LineSet) :
                 /\ line' = line \o ls /\ Reply(cmd, ls)
                 /\ cmd.op = "reboot" => \E i \in 1 .. Len(ls) : ls[i].kind = "OK"
<1>   DEFINE OK == Line("OK", None, cmd.op)
             a == cmd.arg
             Result(ls) == /\ ls \in Seq(LineSet) /\ line' = line \o ls /\ Reply(cmd, ls)
                           /\ cmd.op = "reboot" => \E i \in 1 .. Len(ls) : ls[i].kind = "OK"
<1>1. /\ modem.run \in {"up", "boot", "off"} /\ modem.echo \in BOOLEAN
      /\ modem.sim \in SimStates /\ modem.tries \in Int
      /\ modem.setting \in [Entries -> BOOLEAN] /\ modem.call = None
      BY DEF ModemType
<1>2. /\ cmd.op \in Ops \union {None} /\ None \in {None} \union SimStates \union Settings
      /\ {"OK", "ERROR", "CME BUSY", "CME 16", "CPIN", "POWERED DOWN", "QCFG", "RDY"}
            \subseteq LineKinds
      BY DEF Commands, LineKinds
<1>3. /\ OK \in LineSet /\ OK.kind = "OK" /\ OK.re = cmd.op /\ Final(OK)
  <2>1. /\ OK \in LineSet /\ OK.kind = "OK" /\ OK.re = cmd.op
        BY <1>2 DEF Line, LineSet, LineKinds
  <2>   QED BY <2>1 DEF Final
<1>4. <<OK>> \in Seq(LineSet) /\ Reply(cmd, <<OK>>) /\ Len(<<OK>>) = 1 /\ <<OK>>[1].kind = "OK"
  <2>   HIDE DEF OK
  <2>   QED BY <1>3, OneLine
<1>5. ASSUME NEW kind \in {"CME BUSY", "CME 16", "POWERED DOWN"}
      PROVE  LET l == Line(kind, None, cmd.op) IN <<l>> \in Seq(LineSet) /\ Reply(cmd, <<l>>)
  <2>   DEFINE l == Line(kind, None, cmd.op)
  <2>1. l \in LineSet /\ l.kind = kind /\ l.re = cmd.op
        BY <1>2, <1>5 DEF Line, LineSet, LineKinds
  <2>   HIDE DEF l
  <2>2. <<l>> \in Seq(LineSet) /\ Reply(cmd, <<l>>)
        BY <2>1, OneLine
  <2>   QED BY <2>2 DEF l
<1>6. CASE cmd.op \in {"check_ready", "request_pin_count"}
  <2>1. line' = line \o <<OK>> /\ modem' = modem
        BY <1>6 DEF Respond, Sends
  <2>   HIDE DEF OK
  <2>   QED BY <1>4, <1>6, <2>1 DEF ModemType, Reacts
<1>7. CASE cmd.op = "disable_echo"
  <2>1. line' = line \o <<OK>> /\ modem' = [modem EXCEPT !.echo = FALSE]
        BY <1>7 DEF Respond, Sends
  <2>2. ModemType' /\ ~modem'.echo
        BY <2>1 DEF ModemType
  <2>   HIDE DEF OK
  <2>   QED BY <1>4, <1>7, <2>1, <2>2 DEF Reacts
<1>8. CASE cmd.op = "request_pin_state"
  <2>   DEFINE b == Line("CME BUSY", None, cmd.op)
               c == Line("CPIN", modem.sim, cmd.op)
  <2>1. modem' = modem /\ (line' = line \o <<b>> \/ line' = line \o <<c, OK>>)
        BY <1>8 DEF Respond, Sends
  <2>2. <<b>> \in Seq(LineSet) /\ Reply(cmd, <<b>>)
        BY <1>5
  <2>3. c \in LineSet /\ c.kind = "CPIN" /\ ~Final(c)
    <3>1. c \in LineSet /\ c.kind = "CPIN"
          BY <1>1, <1>2 DEF Line, LineSet, LineKinds
    <3>   QED BY <3>1 DEF Final
  <2>   HIDE DEF OK, b, c
  <2>4. <<c, OK>> \in Seq(LineSet) /\ Reply(cmd, <<c, OK>>)
        BY <1>3, <2>3, TwoLines
  <2>   QED BY <1>8, <2>1, <2>2, <2>4 DEF Reacts, ModemType
<1>9. CASE cmd.op = "set_pin"
  <2>   DEFINE b == Line("CME BUSY", None, cmd.op)
               w == Line("CME 16", None, cmd.op)
               c == Line("CPIN", "READY", None)
  <2>1. /\ modem'.run = modem.run /\ modem'.echo = modem.echo /\ ModemType'
        /\ \/ line' = line \o <<b>> \/ line' = line \o <<OK, c>> \/ line' = line \o <<w>>
    <3>1. \/ modem' = modem /\ line' = line \o <<b>>
          \/ modem' = [modem EXCEPT !.sim = "READY", !.tries = 3] /\ line' = line \o <<OK, c>>
          \/ /\ modem' = [modem EXCEPT !.tries = @ - 1,
                                       !.sim = IF modem.tries = 1 THEN "SIM PUK" ELSE @]
             /\ line' = line \o <<w>>
          BY <1>9 DEF Respond, Sends
    <3>   HIDE DEF OK, b, w, c
    <3>2. "READY" \in SimStates /\ "SIM PUK" \in SimStates /\ modem.tries - 1 \in Int
      <4>1. modem.tries - 1 \in Int
            BY <1>1
      <4>   QED BY <4>1 DEF SimStates
    <3>3. (IF modem.tries = 1 THEN "SIM PUK" ELSE modem.sim) \in SimStates
          BY <1>1, <3>2
    <3>4. CASE modem' = modem /\ line' = line \o <<b>>
          BY <3>4 DEF ModemType
    <3>5. CASE modem' = [modem EXCEPT !.sim = "READY", !.tries = 3] /\ line' = line \o <<OK, c>>
      <4>   DEFINE m == [modem EXCEPT !.sim = "READY"]
                   n == [m EXCEPT !.tries = 3]
      <4>1. modem' = n
            BY <3>5
      <4>2. m \in [run : {"up", "boot", "off"}, echo : BOOLEAN, sim : SimStates, tries : Int,
                   setting : [Entries -> BOOLEAN], call : {None}]
            /\ m.run = modem.run /\ m.echo = modem.echo
            BY <3>2 DEF ModemType
      <4>   HIDE DEF m
      <4>3. ModemType' /\ modem'.run = m.run /\ modem'.echo = m.echo
            BY <4>1, <4>2 DEF ModemType
      <4>   QED BY <3>5, <4>2, <4>3
    <3>6. CASE /\ modem' = [modem EXCEPT !.tries = @ - 1,
                                         !.sim = IF modem.tries = 1 THEN "SIM PUK" ELSE @]
               /\ line' = line \o <<w>>
          BY <3>2, <3>3, <3>6 DEF ModemType
    <3>   QED BY <3>1, <3>4, <3>5, <3>6
  <2>2. <<b>> \in Seq(LineSet) /\ Reply(cmd, <<b>>) /\ <<w>> \in Seq(LineSet) /\ Reply(cmd, <<w>>)
        BY <1>5
  <2>3. c \in LineSet /\ c.kind = "CPIN" /\ ~Final(c)
    <3>1. c \in LineSet /\ c.kind = "CPIN"
      <4>1. "READY" \in {None} \union SimStates \union Settings
            BY DEF SimStates
      <4>2. None \in Ops \union {None}
            OBVIOUS
      <4>   QED BY <1>2, <4>1, <4>2 DEF Line, LineSet, LineKinds
    <3>   QED BY <3>1 DEF Final
  <2>   HIDE DEF OK, b, w, c
  <2>4. <<OK, c>> \in Seq(LineSet) /\ Reply(cmd, <<OK, c>>)
        BY <1>3, <2>3, TwoLines
  <2>   QED BY <1>9, <2>1, <2>2, <2>4 DEF Reacts
<1>10. CASE cmd.op = "power_down"
  <2>   DEFINE d == Line("POWERED DOWN", None, cmd.op)
  <2>1. line' = line \o <<d>> /\ modem' = [modem EXCEPT !.run = "off", !.call = None]
        BY <1>10 DEF Respond, Sends
  <2>2. <<d>> \in Seq(LineSet) /\ Reply(cmd, <<d>>)
        BY <1>5
  <2>3. ModemType' /\ modem'.echo = modem.echo
        BY <2>1 DEF ModemType
  <2>   HIDE DEF d
  <2>   QED BY <1>10, <2>1, <2>2, <2>3 DEF Reacts
<1>11. CASE cmd.op = "reboot"
  <2>1. /\ line' = line \o <<OK>>
        /\ modem' = [modem EXCEPT !.run = "boot", !.echo = TRUE, !.sim = "BUSY",
                                    !.call = None]
        BY <1>11 DEF Respond, Sends
  <2>2. ModemType' /\ modem'.run = "boot"
        BY <2>1 DEF ModemType, SimStates
  <2>3. \E i \in 1 .. Len(<<OK>>) : <<OK>>[i].kind = "OK"
    <3>   HIDE DEF OK
    <3>   QED BY <1>4
  <2>   HIDE DEF OK
  <2>   QED BY <1>4, <1>11, <2>1, <2>2, <2>3 DEF Reacts
<1>12. CASE cmd.op = "query_qcfg"
  <2>   DEFINE v == <<a, modem.setting[a]>>
               c == Line("QCFG", v, cmd.op)
  <2>1. line' = line \o <<c, OK>> /\ modem' = modem
        BY <1>12 DEF Respond, Sends
  <2>2. v \in Settings
        BY <1>1, <1>12 DEF Settings, ForEntry
  <2>   HIDE DEF v
  <2>3. c \in LineSet /\ c.kind = "QCFG" /\ ~Final(c)
    <3>1. c \in LineSet /\ c.kind = "QCFG"
          BY <1>2, <2>2 DEF Line, LineSet, LineKinds
    <3>   QED BY <3>1 DEF Final
  <2>   HIDE DEF OK, c
  <2>4. <<c, OK>> \in Seq(LineSet) /\ Reply(cmd, <<c, OK>>)
        BY <1>3, <1>12, <2>3, TwoLines
  <2>   QED BY <1>12, <2>1, <2>4 DEF Reacts, ModemType
<1>13. CASE cmd.op = "assign_qcfg"
  <2>1. line' = line \o <<OK>> /\ modem' = [modem EXCEPT !.setting[a] = TRUE]
        BY <1>13 DEF Respond, Sends
  <2>   DEFINE m == [modem.setting EXCEPT ![a] = TRUE]
  <2>2. m \in [Entries -> BOOLEAN]
        BY <1>1
  <2>3. modem' = [modem EXCEPT !.setting = m]
        BY <2>1
  <2>   HIDE DEF m
  <2>4. ModemType' /\ modem'.echo = modem.echo
        BY <2>2, <2>3 DEF ModemType
  <2>   HIDE DEF OK
  <2>   QED BY <1>4, <1>13, <2>1, <2>4 DEF Reacts
<1>14. CASE cmd.op = "request_call_list"
  <2>1. line' = line \o (<<>> \o <<OK>>) /\ modem' = modem
        BY <1>1, <1>14 DEF Respond, Sends, CallLine
  <2>2. <<>> \o <<OK>> = <<OK>>
        OBVIOUS
  <2>   HIDE DEF OK
  <2>   QED BY <1>4, <1>14, <2>1, <2>2 DEF Reacts, ModemType
<1>   QED BY <1>6, <1>7, <1>8, <1>9, <1>10, <1>11, <1>12, <1>13, <1>14, OpsAre
           DEF CallOps, Commands

\* Nothing but lines arrive
LEMMA LinesGrow ==
    ASSUME NEW p, DialogueInv(p), NEW ls \in Seq(LineSet), line' = line \o ls,
           UNCHANGED <<st, ct, config>>, ModemType',
           DOMAIN left' = Bounds, left'.calls = 0,
           \/ command # <<>> /\ command' = Tail(command) /\ Reply(Head(command), ls)
           \/ /\ command' = command
              /\ \A i \in 1 .. Len(ls) : ~Final(ls[i]) /\ ls[i].kind # "QCFG"
    PROVE  DialogueInv(p)'
<1>1. /\ DialogueType(p) /\ RulesInv(ct) /\ FlightInv /\ LinesInv
      BY DEF DialogueInv
<1>2. /\ line \in Seq(LineSet) /\ command \in Seq(Commands)
      BY <1>1 DEF DialogueType
<1>3. /\ line' \in Seq(LineSet) /\ Len(line') = Len(line) + Len(ls)
      /\ Len(line) \in Nat /\ Len(ls) \in Nat
      /\ \A i \in 1 .. Len(line) : line'[i] = line[i]
      /\ \A i \in 1 .. Len(ls) : line'[Len(line) + i] = ls[i]
      /\ \A i \in 1 .. Len(line') : i \notin 1 .. Len(line) =>
            i - Len(line) \in 1 .. Len(ls) /\ line'[i] = ls[i - Len(line)]
      BY <1>2, ConcatIs
<1>4. command' \in Seq(Commands)
  <2>1. CASE command # <<>> /\ command' = Tail(command)
        BY <1>2, <2>1
  <2>2. CASE command' = command
        BY <1>2, <2>2
  <2>   QED BY <2>1, <2>2
<1>5. DialogueType(p)'
      BY <1>1, <1>3, <1>4 DEF DialogueType, StatusType, ControlType, ForEntry, Constructed
<1>6. RulesInv(ct)'
      BY <1>1 DEF RulesInv, Constructed, Submitted, InState
<1>7. Awaited' => Awaited
  <2>1. CASE command # <<>>
        BY <2>1 DEF Awaited
  <2>2. CASE command' = command /\ \A i \in 1 .. Len(ls) : ~Final(ls[i])
        BY <1>3, <2>2 DEF Awaited
  <2>   QED BY <2>1, <2>2
<1>8. FlightInv'
      BY <1>1, <1>7 DEF FlightInv, Held, Submitted, Constructed, InState, RebootNeeded
<1>9. LinesInv'
  <2>1. CASE command # <<>> /\ command' = Tail(command) /\ Reply(Head(command), ls)
    <3>1. /\ command = <<st.pending>> /\ st'.pending = st.pending
          /\ \A i \in 1 .. Len(line) : ~Final(line[i])
          BY <1>1, <2>1 DEF LinesInv
    <3>2. command' = <<>> /\ Head(command) = st.pending
          BY <2>1, <3>1
    <3>3. Reply(st.pending, ls)
          BY <2>1, <3>2
    <3>4. ASSUME NEW i \in 1 .. Len(line'), Final(line'[i])
          PROVE  /\ line'[i].re = st'.pending.op
                 /\ \A j \in 1 .. Len(line') : Final(line'[j]) => i = j
      <4>1. i - Len(line) \in 1 .. Len(ls) /\ line'[i] = ls[i - Len(line)] /\ i \in Int
            BY <1>3, <3>1, <3>4
      <4>2. ASSUME NEW j \in 1 .. Len(line'), Final(line'[j]) PROVE i = j
        <5>1. j - Len(line) \in 1 .. Len(ls) /\ line'[j] = ls[j - Len(line)] /\ j \in Int
              BY <1>3, <3>1, <4>2
        <5>2. i - Len(line) = j - Len(line)
              BY <3>3, <3>4, <4>1, <4>2, <5>1 DEF Reply
        <5>   QED BY <1>3, <4>1, <5>1, <5>2
      <4>   QED BY <3>1, <3>3, <3>4, <4>1, <4>2 DEF Reply
    <3>5. ASSUME NEW i \in 1 .. Len(line'), line'[i].kind = "QCFG"
          PROVE  /\ st'.pending # None /\ st'.pending.op = "query_qcfg"
                 /\ \E j \in i + 1 .. Len(line') : Final(line'[j])
      <4>1. i \notin 1 .. Len(line)
        <5>1. SUFFICES ASSUME i \in 1 .. Len(line) PROVE FALSE
              OBVIOUS
        <5>2. PICK j \in i + 1 .. Len(line) : Final(line[j])
              BY <1>1, <1>3, <3>5, <5>1 DEF LinesInv
        <5>3. j \in 1 .. Len(line)
              BY <1>3, <5>1
        <5>   QED BY <3>1, <5>2, <5>3
      <4>2. i - Len(line) \in 1 .. Len(ls) /\ line'[i] = ls[i - Len(line)] /\ i \in Int
            BY <1>3, <4>1
      <4>3. PICK k \in (i - Len(line)) + 1 .. Len(ls) : Final(ls[k])
            BY <3>3, <3>5, <4>2 DEF Reply
      <4>4. st.pending.op = "query_qcfg"
            BY <3>3, <3>5, <4>2 DEF Reply
      <4>5. /\ k \in 1 .. Len(ls) /\ Len(line) + k \in i + 1 .. Len(line')
            BY <1>3, <4>2
      <4>6. Final(line'[Len(line) + k])
            BY <1>3, <4>3, <4>5
      <4>7. st.pending # None
            BY <1>1, <2>1 DEF FlightInv, Awaited
      <4>   QED BY <3>1, <4>4, <4>5, <4>6, <4>7
    <3>   QED BY <3>2, <3>4, <3>5 DEF LinesInv
  <2>2. CASE /\ command' = command
             /\ \A i \in 1 .. Len(ls) : ~Final(ls[i]) /\ ls[i].kind # "QCFG"
    <3>1. \A i \in 1 .. Len(line') :
             Final(line'[i]) \/ line'[i].kind = "QCFG" => i \in 1 .. Len(line)
          BY <1>3, <2>2
    <3>2. ASSUME NEW i \in 1 .. Len(line'), line'[i].kind = "QCFG"
          PROVE  /\ st'.pending # None /\ st'.pending.op = "query_qcfg"
                 /\ \E j \in i + 1 .. Len(line') : Final(line'[j])
      <4>1. i \in 1 .. Len(line) /\ line[i].kind = "QCFG"
            BY <1>3, <3>1, <3>2
      <4>2. PICK j \in i + 1 .. Len(line) : Final(line[j])
            BY <1>1, <4>1 DEF LinesInv
      <4>3. j \in 1 .. Len(line) /\ j \in i + 1 .. Len(line')
            BY <1>3, <4>1
      <4>   QED BY <1>1, <1>3, <4>1, <4>2, <4>3 DEF LinesInv
    <3>3. ASSUME NEW i \in 1 .. Len(line'), Final(line'[i])
          PROVE  /\ line'[i].re = st'.pending.op
                 /\ \A j \in 1 .. Len(line') : Final(line'[j]) => i = j
          BY <1>1, <1>3, <3>1, <3>3 DEF LinesInv
    <3>4. command' # <<>> => /\ command' = <<st'.pending>>
                             /\ \A i \in 1 .. Len(line') : ~Final(line'[i])
          BY <1>1, <1>3, <2>2, <3>1 DEF LinesInv
    <3>   QED BY <3>2, <3>3, <3>4 DEF LinesInv
  <2>   QED BY <2>1, <2>2
<1>   QED BY <1>5, <1>6, <1>8, <1>9 DEF DialogueInv

LEMMA ModemAnswersInv ==
    ASSUME NEW p, DialogueInv(p), ModemAnswers
    PROVE  DialogueInv(p)'
<1>1. /\ DialogueType(p) /\ FlightInv /\ LinesInv /\ ControlType(ct, p)
      BY DEF DialogueInv, DialogueType
<1>2. /\ line \in Seq(LineSet) /\ command \in Seq(Commands) /\ command # <<>>
      /\ command' = Tail(command) /\ UNCHANGED <<st, ct, config>>
      /\ DOMAIN left' = Bounds /\ left'.calls = 0
      BY <1>1 DEF DialogueType, ModemAnswers
<1>   DEFINE cmd == Head(command)
<1>3. cmd \in Commands /\ cmd = st.pending /\ cmd.op \notin CallOps /\ ForEntry(cmd)
  <2>1. command = <<st.pending>> /\ st.pending # None /\ Submitted(ct, st.pending.op)
        BY <1>1, <1>2 DEF LinesInv, FlightInv, Awaited
  <2>2. cmd = st.pending
        BY <2>1
  <2>   QED BY <1>1, <2>1, <2>2 DEF DialogueType, StatusType, ControlType, Submitted
<1>   HIDE DEF cmd
<1>4. CASE modem.run = "up"
  <2>1. Respond(cmd) /\ ModemType
        BY <1>1, <1>4 DEF ModemAnswers, cmd, DialogueType
  <2>2. PICK ls \in Seq(LineSet) : line' = line \o ls /\ Reply(cmd, ls)
        BY <1>3, <2>1, RespondIs
  <2>3. ModemType'
        BY <1>3, <2>1, RespondIs
  <2>   QED BY <1>2, <2>2, <2>3, LinesGrow DEF cmd
<1>5. CASE modem.run # "up"
  <2>1. modem' = modem /\ line' = line
        BY <1>5 DEF ModemAnswers
  <2>2. line' = line \o <<>> /\ <<>> \in Seq(LineSet) /\ Reply(cmd, <<>>)
        BY <1>2, <2>1 DEF Reply
  <2>3. ModemType'
        BY <1>1, <2>1 DEF DialogueType, ModemType
  <2>   QED BY <1>2, <2>2, <2>3, LinesGrow DEF cmd
<1>   QED BY <1>4, <1>5

LEMMA ModemInv ==
    ASSUME NEW p, DialogueInv(p), ModemNext
    PROVE  DialogueInv(p)'
<1>1. /\ DialogueType(p) /\ ModemType
      /\ line \in Seq(LineSet) /\ command \in Seq(Commands)
      /\ DOMAIN left = Bounds /\ left.calls = 0
      /\ modem.call = None
      BY DEF DialogueInv, DialogueType, ModemType
<1>2. CASE ModemRefuses
  <2>   DEFINE cmd == Head(command)
               ls == <<Line("ERROR", None, cmd.op)>>
  <2>1. /\ command # <<>> /\ command' = Tail(command) /\ UNCHANGED <<st, ct, config>>
        /\ modem' = modem /\ line' = line \o ls /\ left' = [left EXCEPT !.errors = @ - 1]
        BY <1>2 DEF ModemRefuses, Sends
  <2>2. cmd \in Commands
        BY <1>1, <2>1
  <2>   HIDE DEF cmd
  <2>3. ls \in Seq(LineSet) /\ Reply(cmd, ls)
        BY <2>2, RefusalIs
  <2>   HIDE DEF ls
  <2>4. ModemType' /\ DOMAIN left' = Bounds /\ left'.calls = 0
        BY <1>1, <2>1 DEF ModemType
  <2>   QED BY <2>1, <2>3, <2>4, LinesGrow DEF cmd
<1>3. CASE ModemBoots
  <2>   DEFINE l == Line("RDY", None, None)
               ls == <<l>>
  <2>1. /\ command' = command /\ UNCHANGED <<st, ct, config>> /\ left' = left
        /\ modem' = [modem EXCEPT !.run = "up"] /\ line' = line \o ls
        BY <1>3 DEF ModemBoots, Sends
  <2>2. l \in LineSet /\ l.kind = "RDY" /\ ~Final(l)
        BY DEF Line, LineSet, LineKinds, Final
  <2>   HIDE DEF l
  <2>3. ls \in Seq(LineSet) /\ \A i \in 1 .. Len(ls) : ~Final(ls[i]) /\ ls[i].kind # "QCFG"
        BY <2>2
  <2>   HIDE DEF ls
  <2>4. ModemType' /\ DOMAIN left' = Bounds /\ left'.calls = 0
        BY <1>1, <2>1 DEF ModemType
  <2>   QED BY <2>1, <2>3, <2>4, LinesGrow
<1>4. CASE SimAvailable
  <2>1. /\ command' = command /\ UNCHANGED <<st, ct, config>> /\ left' = left
        /\ modem' = [modem EXCEPT !.sim = "SIM PIN"] /\ line' = line
        BY <1>4 DEF SimAvailable
  <2>2. line' = line \o <<>> /\ <<>> \in Seq(LineSet)
    <3>1. line \in Seq(LineSet) /\ line' = line
          BY <1>1, <2>1
    <3>   QED BY <3>1
  <2>3. ModemType'
        BY <1>1, <2>1 DEF ModemType, SimStates
  <2>4. \A i \in 1 .. Len(<<>>) : ~Final(<<>>[i]) /\ <<>>[i].kind # "QCFG"
        OBVIOUS
  <2>   QED BY <1>1, <2>1, <2>2, <2>3, <2>4, LinesGrow
<1>5. ~(\/ \E n \in Numbers : RemoteCalls(n)
        \/ RingsAgain \/ RemotePicksUp \/ RemoteHangsUp)
      BY <1>1 DEF RemoteCalls, RingsAgain, RemotePicksUp, RemoteHangsUp
<1>   QED BY <1>2, <1>3, <1>4, <1>5, ModemAnswersInv DEF ModemNext

-------------------------------------------------------------------------------
(* The driver reads a line *)

\* The line confirms that one of the commands ops has been carried out
Confirms(l, ops) == l.kind = "OK" /\ st.pending # None /\ st.pending.op \in ops

\* What a line that is not about calls tells
LineEffect(l, t) ==
    /\ DOMAIN t = StatusMembers /\ t.current_call = None /\ t.ring_count = st.ring_count
    /\ t.pending = IF Final(l) THEN None ELSE st.pending
    /\ \A f \in Flags : t[f] \in BOOLEAN
    /\ t.ok = (st.ok \/ l.kind = "OK")
    /\ ~Final(l) => /\ t.ok = st.ok /\ t.error = st.error /\ t.cme_error = st.cme_error
                    /\ t.clcc_up_to_date = st.clcc_up_to_date
    /\ t.at_ok = ((st.at_ok \/ Confirms(l, {"check_ready"})) /\ ~Confirms(l, {"reboot"}))
    /\ t.echo_disabled = ((st.echo_disabled \/ Confirms(l, {"disable_echo"}))
                             /\ ~Confirms(l, {"reboot"}))
    /\ t.rdy = ((st.rdy \/ l.kind = "RDY") /\ ~Confirms(l, {"reboot"}))
    /\ t.qcfg = IF Confirms(l, {"reboot"}) THEN [e \in Entries |-> "UNKNOWN"]
                ELSE IF Confirms(l, {"assign_qcfg"})
                THEN [st.qcfg EXCEPT ![st.pending.arg] = "MODIFIED"]
                ELSE IF l.kind = "QCFG"
                THEN [st.qcfg EXCEPT ![l.arg[1]] = IF l.arg[2] THEN "CONFIRMED" ELSE "MISMATCH"]
                ELSE st.qcfg

LEMMA ApplyLineIs ==
    ASSUME StatusType, NEW l \in LineSet
    PROVE  LineEffect(l, ApplyLine(st, l))
<1>1. DOMAIN st = StatusMembers /\ st.current_call = None
      BY DEF StatusType
<1>2. l.kind \in LineKinds
      BY DEF LineSet
<1>   DEFINE a == ApplyQcfgResponse(st, l)
             b == ApplyFlags(a, l)
             c == ApplyCallList(b, l)
             d == AcceptCallList(c)
             e == IF l.kind = "OK" /\ st.pending # None THEN ApplyOk(d, st.pending) ELSE d
             q == IF l.kind = "QCFG"
                  THEN [st.qcfg EXCEPT ![l.arg[1]] = IF l.arg[2] THEN "CONFIRMED" ELSE "MISMATCH"]
                  ELSE IF Confirms(l, {"assign_qcfg"})
                  THEN [st.qcfg EXCEPT ![st.pending.arg] = "MODIFIED"]
                  ELSE st.qcfg
<1>3. ApplyLine(st, l) = IF Final(l) THEN [e EXCEPT !.pending = None] ELSE e
  <2>1. Final(l) <=> l.kind \in {"OK", "ERROR"} \/ Cme(l)
        BY DEF Final, Cme
  <2>   QED BY <2>1 DEF ApplyLine
<1>4. /\ DOMAIN a = StatusMembers /\ a.qcfg = q
      /\ \A f \in StatusMembers \ {"qcfg"} : a[f] = st[f]
  <2>1. CASE l.kind = "QCFG" \/ Confirms(l, {"assign_qcfg"})
    <3>1. a = [st EXCEPT !.qcfg = q]
          BY <2>1 DEF ApplyQcfgResponse, Confirms
    <3>   HIDE DEF a, q
    <3>   QED BY <1>1, <3>1 DEF StatusMembers
  <2>2. CASE ~(l.kind = "QCFG" \/ Confirms(l, {"assign_qcfg"}))
        BY <1>1, <2>2 DEF ApplyQcfgResponse, Confirms
  <2>   QED BY <2>1, <2>2
<1>5. \A f \in Flags : st[f] \in BOOLEAN
      BY DEF StatusType
<1>   HIDE DEF a
<1>6. /\ DOMAIN b = StatusMembers /\ b.qcfg = a.qcfg
      /\ \A f \in {"at_ok", "echo_disabled", "clcc_up_to_date", "current_call", "pending"} :
            b[f] = a[f]
      /\ b.rdy = (a.rdy \/ l.kind = "RDY")
      /\ l.kind # "RING" => b.ring_count = a.ring_count
      /\ b.ok = (a.ok \/ l.kind = "OK") /\ b.error = (a.error \/ l.kind = "ERROR")
      /\ b.cme_error = (a.cme_error \/ Cme(l))
      BY <1>4 DEF ApplyFlags, StatusMembers
<1>   HIDE DEF b
<1>7. c = b /\ d = b
      BY <1>1, <1>2, <1>4, <1>6 DEF ApplyCallList, AcceptCallList, LineKinds, StatusMembers
<1>   HIDE DEF c, d
<1>   DEFINE r == Confirms(l, {"reboot"})
<1>8. /\ DOMAIN e = StatusMembers /\ e.current_call = None /\ e.ring_count = b.ring_count
      /\ e.pending = b.pending /\ e.ok = b.ok /\ e.error = b.error
      /\ ~Final(l) => e.cme_error = b.cme_error /\ e.clcc_up_to_date = b.clcc_up_to_date
      /\ e.at_ok = ((b.at_ok \/ Confirms(l, {"check_ready"})) /\ ~r)
      /\ e.echo_disabled = ((b.echo_disabled \/ Confirms(l, {"disable_echo"})) /\ ~r)
      /\ e.rdy = (b.rdy /\ ~r)
      /\ e.qcfg = IF r THEN [x \in Entries |-> "UNKNOWN"] ELSE b.qcfg
      /\ \A f \in Flags : e[f] \in BOOLEAN
  <2>1. (\A f \in Flags : b[f] \in BOOLEAN) /\ b.current_call = None
        BY <1>1, <1>4, <1>5, <1>6 DEF StatusMembers, Flags
  <2>2. CASE ~(l.kind = "OK" /\ st.pending # None)
    <3>1. e = b
          BY <1>7, <2>2
    <3>2. \A ops : ~Confirms(l, ops)
          BY <2>2 DEF Confirms
    <3>   HIDE DEF e
    <3>   QED BY <1>6, <2>1, <3>1, <3>2 DEF Flags
  <2>3. CASE l.kind = "OK" /\ st.pending # None
    <3>1. e = ApplyOk(b, st.pending) /\ st.pending.op \notin CallOps
          BY <1>7, <2>3 DEF StatusType
    <3>2. \A ops : Confirms(l, ops) <=> st.pending.op \in ops
          BY <2>3 DEF Confirms
    <3>3. Final(l)
          BY <2>3 DEF Final
    <3>   HIDE DEF e
    <3>4. CASE st.pending.op = "check_ready"
      <4>1. e = [b EXCEPT !.at_ok = TRUE]
            BY <3>1, <3>4 DEF ApplyOk
      <4>   QED BY <1>6, <2>1, <3>2, <3>3, <3>4, <4>1 DEF StatusMembers, Flags
    <3>5. CASE st.pending.op = "disable_echo"
      <4>1. e = [b EXCEPT !.echo_disabled = TRUE]
            BY <3>1, <3>5 DEF ApplyOk
      <4>   QED BY <1>6, <2>1, <3>2, <3>3, <3>5, <4>1 DEF StatusMembers, Flags
    <3>6. CASE st.pending.op = "reboot"
      <4>1. e = Rebooted(b)
            BY <3>1, <3>6 DEF ApplyOk
      <4>2. /\ DOMAIN e = StatusMembers /\ e.current_call = None
            /\ e.ring_count = b.ring_count /\ e.pending = b.pending
            /\ e.ok = b.ok /\ e.error = b.error
            /\ e.at_ok = FALSE /\ e.echo_disabled = FALSE /\ e.rdy = FALSE
            /\ e.qcfg = [x \in Entries |-> "UNKNOWN"]
            /\ e.cme_error = FALSE /\ e.clcc_up_to_date = FALSE
            BY <1>6, <4>1 DEF Rebooted, ClccOutOfDate, StatusMembers
      <4>   QED BY <2>1, <3>2, <3>3, <3>6, <4>2 DEF Flags
    <3>7. CASE st.pending.op = "request_call_list"
      <4>1. e = [b EXCEPT !.clcc_up_to_date = TRUE]
            BY <3>1, <3>7 DEF ApplyOk
      <4>   QED BY <1>6, <2>1, <3>2, <3>3, <3>7, <4>1 DEF StatusMembers, Flags
    <3>8. CASE st.pending.op \notin {"check_ready", "disable_echo", "reboot", "request_call_list"}
      <4>1. e = b
            BY <3>1, <3>8 DEF ApplyOk, CallOps
      <4>   QED BY <1>6, <2>1, <3>2, <3>8, <4>1 DEF Flags
    <3>   QED BY <3>4, <3>5, <3>6, <3>7, <3>8
  <2>   QED BY <2>2, <2>3
<1>   HIDE DEF e, r
<1>9. LET t == ApplyLine(st, l)
      IN  /\ DOMAIN t = StatusMembers /\ t.pending = IF Final(l) THEN None ELSE e.pending
          /\ \A f \in StatusMembers \ {"pending"} : t[f] = e[f]
      BY <1>3, <1>8 DEF StatusMembers
<1>   DEFINE t == ApplyLine(st, l)
<1>   HIDE DEF t
<1>10. /\ DOMAIN t = StatusMembers /\ t.pending = IF Final(l) THEN None ELSE e.pending
       /\ \A f \in StatusMembers \ {"pending"} : t[f] = e[f]
       BY <1>9 DEF t
<1>11. \A f \in StatusMembers \ {"qcfg"} : a[f] = st[f]
       BY <1>4
<1>12. /\ DOMAIN t = StatusMembers /\ t.current_call = None /\ t.ring_count = st.ring_count
       /\ t.pending = IF Final(l) THEN None ELSE st.pending
       /\ \A f \in Flags : t[f] \in BOOLEAN
  <2>1. /\ "current_call" \in StatusMembers \ {"pending", "qcfg"}
        /\ "ring_count" \in StatusMembers \ {"pending", "qcfg"}
        /\ "pending" \in StatusMembers \ {"qcfg"} /\ Flags \subseteq StatusMembers \ {"pending"}
        BY DEF StatusMembers, Flags
  <2>2. t.current_call = None /\ t.ring_count = st.ring_count
        BY <1>2, <1>6, <1>8, <1>10, <1>11, <2>1 DEF LineKinds
  <2>3. t.pending = IF Final(l) THEN None ELSE st.pending
        BY <1>2, <1>6, <1>8, <1>10, <1>11, <2>1
  <2>4. ASSUME NEW f \in Flags PROVE t[f] \in BOOLEAN
        BY <1>2, <1>6, <1>8, <1>10, <1>11, <2>1, <2>4
  <2>   QED BY <1>10, <2>2, <2>3, <2>4
<1>13. ~Final(l) => /\ t.ok = st.ok /\ t.error = st.error /\ t.cme_error = st.cme_error
                    /\ t.clcc_up_to_date = st.clcc_up_to_date
  <2>1. ~Final(l) => l.kind # "OK" /\ l.kind # "ERROR" /\ ~Cme(l)
        BY DEF Final, Cme
  <2>2. a.ok \in BOOLEAN /\ a.error \in BOOLEAN /\ a.cme_error \in BOOLEAN
        BY <1>5, <1>11 DEF StatusMembers, Flags
  <2>   QED BY <1>6, <1>8, <1>10, <1>11, <2>1, <2>2 DEF StatusMembers
<1>14. /\ t.at_ok = ((st.at_ok \/ Confirms(l, {"check_ready"})) /\ ~r)
       /\ t.echo_disabled = ((st.echo_disabled \/ Confirms(l, {"disable_echo"})) /\ ~r)
       /\ t.rdy = ((st.rdy \/ l.kind = "RDY") /\ ~r)
       /\ t.ok = (st.ok \/ l.kind = "OK")
       BY <1>6, <1>8, <1>10, <1>11 DEF StatusMembers
<1>15. t.qcfg = IF r THEN [x \in Entries |-> "UNKNOWN"] ELSE q
       BY <1>4, <1>6, <1>8, <1>10 DEF StatusMembers
<1>16. l.kind = "QCFG" => ~Confirms(l, {"assign_qcfg"})
       BY DEF Confirms
<1>   QED BY <1>12, <1>13, <1>14, <1>15, <1>16 DEF LineEffect, t, q, r

LEMMA ReadLineInv ==
    ASSUME NEW p, DialogueInv(p), ReadLine
    PROVE  DialogueInv(p)'
<1>   DEFINE l == Head(line)
<1>1. /\ DialogueType(p) /\ StatusType /\ ControlType(ct, p) /\ RulesInv(ct) /\ FlightInv
      /\ LinesInv /\ line \in Seq(LineSet) /\ line # <<>>
      BY DEF DialogueInv, DialogueType, ReadLine
<1>2. /\ st' = ApplyLine(st, l) /\ line' = Tail(line)
      /\ UNCHANGED <<config, ct, command, modem, left>>
      BY DEF ReadLine
<1>3. /\ line' \in Seq(LineSet) /\ Len(line) \in Nat /\ Len(line) >= 1
      /\ Len(line') = Len(line) - 1 /\ l = line[1] /\ l \in LineSet
      /\ \A i \in 1 .. Len(line') : i + 1 \in 1 .. Len(line) /\ line'[i] = line[i + 1]
      /\ \A i \in 1 .. Len(line) : i # 1 => i - 1 \in 1 .. Len(line') /\ line'[i - 1] = line[i]
      BY <1>1, <1>2, TailIs
<1>   HIDE DEF l
<1>4. ASSUME Final(l) \/ l.kind = "QCFG"
      PROVE  /\ Awaited /\ st.pending # None /\ Submitted(ct, st.pending.op)
             /\ st.pending \in Commands /\ ForEntry(st.pending)
             /\ Held(ct, st.pending.op)
             /\ st.pending.op = "assign_qcfg"
                  => InState("UNKNOWN") = {} /\ ~Constructed(ct, "query_qcfg")
  <2>1. 1 \in 1 .. Len(line)
        BY <1>3
  <2>2. CASE Final(l)
        BY <1>1, <1>3, <2>1, <2>2 DEF Awaited, FlightInv, StatusType
  <2>3. CASE l.kind = "QCFG"
    <3>1. \E j \in 1 .. Len(line) : Final(line[j])
          BY <1>1, <1>3, <2>1, <2>3 DEF LinesInv
    <3>   QED BY <1>1, <3>1 DEF Awaited, FlightInv, StatusType
  <2>   QED BY <1>4, <2>2, <2>3
<1>5. LineEffect(l, st')
      BY <1>1, <1>2, <1>3, ApplyLineIs DEF l
<1>   DEFINE op == st.pending.op
             rebooted == Confirms(l, {"reboot"})
             assigned == Confirms(l, {"assign_qcfg"})
<1>6. /\ rebooted \/ assigned \/ Confirms(l, {"check_ready"}) \/ Confirms(l, {"disable_echo"})
           => Final(l) /\ st.pending # None
      /\ rebooted => st.pending.op = "reboot"
      /\ assigned => st.pending.op = "assign_qcfg"
      BY DEF Confirms, Final
<1>7. l.kind = "QCFG" => ~Final(l) /\ l.arg[1] \in Entries /\ st.pending.op = "query_qcfg"
  <2>1. 1 \in 1 .. Len(line)
        BY <1>3
  <2>   QED BY <1>1, <1>3, <2>1 DEF LinesInv, LineSet, Settings, Final
<1>8. /\ DOMAIN st'.qcfg = Entries
      /\ rebooted => InState("MODIFIED")' = {}
      /\ assigned => InState("UNKNOWN")' \subseteq InState("UNKNOWN")
      /\ l.kind = "QCFG" => InState("MODIFIED")' \subseteq InState("MODIFIED")
      /\ ~rebooted /\ ~assigned /\ l.kind # "QCFG" => st'.qcfg = st.qcfg
  <2>1. DOMAIN st.qcfg = Entries
        BY <1>1 DEF StatusType
  <2>2. CASE rebooted
    <3>1. st'.qcfg = [e \in Entries |-> "UNKNOWN"]
          BY <1>5, <2>2 DEF LineEffect
    <3>   QED BY <1>6, <1>7, <2>2, <3>1 DEF InState
  <2>3. CASE assigned
    <3>1. ~rebooted
          BY <1>6, <2>3
    <3>2. st'.qcfg = [st.qcfg EXCEPT ![st.pending.arg] = "MODIFIED"]
          BY <1>5, <2>3, <3>1 DEF LineEffect
    <3>   QED BY <1>6, <1>7, <2>1, <2>3, <3>1, <3>2 DEF InState
  <2>4. CASE l.kind = "QCFG"
    <3>1. st'.qcfg = [st.qcfg EXCEPT ![l.arg[1]] = IF l.arg[2] THEN "CONFIRMED" ELSE "MISMATCH"]
          BY <1>5, <1>6, <1>7, <2>4 DEF LineEffect
    <3>   QED BY <1>6, <1>7, <2>1, <2>4, <3>1 DEF InState
  <2>5. CASE ~rebooted /\ ~assigned /\ l.kind # "QCFG"
    <3>1. st'.qcfg = st.qcfg
          BY <1>5, <2>5 DEF LineEffect
    <3>   QED BY <2>1, <2>5, <3>1
  <2>   QED BY <2>2, <2>3, <2>4, <2>5
<1>   HIDE DEF rebooted, assigned
<1>9. DialogueType(p)'
  <2>1. StatusType'
    <3>1. st'.pending # None => st'.pending = st.pending
          BY <1>5 DEF LineEffect
    <3>   QED BY <1>1, <1>5, <1>8, <3>1 DEF StatusType, LineEffect
  <2>2. ControlType(ct, p)'
    <3>1. st'.ring_count = st.ring_count
          BY <1>5 DEF LineEffect
    <3>   QED BY <1>1, <1>2, <3>1 DEF ControlType, Constructed
  <2>   QED BY <1>1, <1>2, <1>3, <2>1, <2>2 DEF DialogueType, ModemType
<1>10. RulesInv(ct)'
  <2>1. CASE rebooted
    <3>1. Submitted(ct, "reboot") /\ ~Constructed(ct, "disable_echo")
          /\ ~Constructed(ct, "assign_qcfg")
          BY <1>1, <1>4, <1>6, <2>1 DEF RulesInv, Submitted
    <3>   QED BY <1>2, <1>8, <2>1, <3>1 DEF RulesInv, Constructed, Submitted
  <2>2. CASE ~rebooted
    <3>1. st.rdy => st'.rdy
          BY <1>5, <2>2 DEF LineEffect, rebooted
    <3>2. st.echo_disabled => st'.echo_disabled
          BY <1>5, <2>2 DEF LineEffect, rebooted
    <3>3. CASE assigned
      <4>1. Constructed(ct, "assign_qcfg") /\ InState("UNKNOWN") = {}
            /\ ~Constructed(ct, "query_qcfg")
            BY <1>4, <1>6, <3>3 DEF Submitted
      <4>2. st.rdy /\ st.echo_disabled
            BY <1>1, <4>1 DEF RulesInv
      <4>3. InState("UNKNOWN")' = {}
            BY <1>8, <3>3, <4>1
      <4>   QED BY <1>1, <1>2, <3>1, <3>2, <4>1, <4>2, <4>3 DEF RulesInv, Constructed, Submitted
    <3>4. CASE l.kind = "QCFG"
      <4>1. Constructed(ct, "query_qcfg")
            BY <1>4, <1>7, <3>4 DEF Submitted
      <4>2. InState("MODIFIED")' = {}
            BY <1>1, <1>8, <3>4, <4>1 DEF RulesInv
      <4>   QED BY <1>1, <1>2, <3>1, <3>2, <4>2 DEF RulesInv, Constructed, Submitted
    <3>5. CASE ~assigned /\ l.kind # "QCFG"
      <4>1. InState("MODIFIED")' = InState("MODIFIED") /\ InState("UNKNOWN")' = InState("UNKNOWN")
            BY <1>8, <2>2, <3>5 DEF InState
      <4>   QED BY <1>1, <1>2, <3>1, <3>2, <4>1 DEF RulesInv, Constructed, Submitted
    <3>   QED BY <3>3, <3>4, <3>5
  <2>   QED BY <2>1, <2>2
<1>11. CASE Final(l)
  <2>1. 1 \in 1 .. Len(line)
        BY <1>3
  <2>2. \A j \in 1 .. Len(line) : Final(line[j]) => j = 1
        BY <1>1, <1>3, <1>11, <2>1 DEF LinesInv
  <2>3. command = <<>>
        BY <1>1, <1>3, <1>11, <2>1 DEF LinesInv
  <2>4. \A i \in 1 .. Len(line') : ~Final(line'[i])
    <3>   SUFFICES ASSUME NEW i \in 1 .. Len(line'), Final(line'[i]) PROVE FALSE
          OBVIOUS
    <3>1. i + 1 \in 1 .. Len(line) /\ Final(line[i + 1])
          BY <1>3
    <3>2. i + 1 = 1
          BY <2>2, <3>1
    <3>   QED BY <1>3, <3>2
  <2>5. \A i \in 1 .. Len(line') : line'[i].kind # "QCFG"
    <3>   SUFFICES ASSUME NEW i \in 1 .. Len(line'), line'[i].kind = "QCFG" PROVE FALSE
          OBVIOUS
    <3>1. i + 1 \in 1 .. Len(line) /\ line[i + 1].kind = "QCFG"
          BY <1>3
    <3>2. PICK j \in (i + 1) + 1 .. Len(line) : Final(line[j])
          BY <1>1, <3>1 DEF LinesInv
    <3>3. j \in 1 .. Len(line) /\ j # 1
          BY <1>3
    <3>   QED BY <2>2, <3>2, <3>3
  <2>6. ~Awaited'
        BY <1>2, <2>3, <2>4 DEF Awaited
  <2>   QED BY <1>2, <1>9, <1>10, <2>3, <2>4, <2>5, <2>6 DEF DialogueInv, FlightInv, LinesInv
<1>12. CASE ~Final(l)
  <2>1. ~rebooted /\ ~assigned /\ st'.pending = st.pending
        /\ st'.ok = st.ok /\ st'.error = st.error /\ st'.cme_error = st.cme_error
        /\ st'.clcc_up_to_date = st.clcc_up_to_date
        /\ st'.at_ok = st.at_ok /\ st'.echo_disabled = st.echo_disabled
    <3>1. \A ops : ~Confirms(l, ops)
          BY <1>12 DEF Confirms, Final
    <3>2. st.at_ok \in BOOLEAN /\ st.echo_disabled \in BOOLEAN
          BY <1>1 DEF StatusType, Flags
    <3>   QED BY <1>5, <1>12, <3>1, <3>2 DEF LineEffect, rebooted, assigned
  <2>2. Awaited' => Awaited
        BY <1>2, <1>3 DEF Awaited
  <2>3. FlightInv'
    <3>   SUFFICES ASSUME Awaited PROVE FlightInv'
          BY <2>2 DEF FlightInv
    <3>1. /\ st.pending # None /\ Submitted(ct, op) /\ Held(ct, op)
          /\ op = "assign_qcfg" => InState("UNKNOWN") = {} /\ ~Constructed(ct, "query_qcfg")
          BY <1>1 DEF FlightInv
    <3>2. CASE l.kind = "QCFG"
      <4>1. op = "query_qcfg" /\ Constructed(ct, "query_qcfg")
            BY <1>7, <3>1, <3>2 DEF Submitted
      <4>2. InState("MODIFIED")' = {}
            BY <1>1, <1>8, <3>2, <4>1 DEF RulesInv
      <4>3. ~RebootNeeded'
            BY <4>2 DEF RebootNeeded
      <4>   QED BY <1>2, <2>1, <3>1, <4>1, <4>3 DEF FlightInv, Held, Submitted, Constructed
    <3>3. CASE l.kind # "QCFG"
      <4>1. st'.qcfg = st.qcfg
            BY <1>8, <2>1, <3>3
      <4>2. /\ InState("UNKNOWN")' = InState("UNKNOWN")
            /\ RebootNeeded' <=> RebootNeeded
            BY <4>1 DEF InState, RebootNeeded
      <4>   QED BY <1>2, <2>1, <3>1, <4>2 DEF FlightInv, Held, Submitted, Constructed
    <3>   QED BY <3>2, <3>3
  <2>4. command' # <<>> => /\ command' = <<st'.pending>>
                           /\ \A i \in 1 .. Len(line') : ~Final(line'[i])
        BY <1>1, <1>2, <1>3, <2>1 DEF LinesInv
  <2>5. ASSUME NEW i \in 1 .. Len(line'), Final(line'[i])
        PROVE  /\ line'[i].re = st'.pending.op
               /\ \A j \in 1 .. Len(line') : Final(line'[j]) => i = j
    <3>1. i + 1 \in 1 .. Len(line) /\ line'[i] = line[i + 1] /\ i \in Int
          BY <1>3
    <3>2. ASSUME NEW j \in 1 .. Len(line'), Final(line'[j]) PROVE i = j
      <4>1. j + 1 \in 1 .. Len(line) /\ line'[j] = line[j + 1] /\ j \in Int
            BY <1>3
      <4>2. i + 1 = j + 1
            BY <1>1, <2>5, <3>1, <3>2, <4>1 DEF LinesInv
      <4>   QED BY <3>1, <4>1, <4>2
    <3>   QED BY <1>1, <2>1, <2>5, <3>1, <3>2 DEF LinesInv
  <2>6. ASSUME NEW i \in 1 .. Len(line'), line'[i].kind = "QCFG"
        PROVE  /\ st'.pending # None /\ st'.pending.op = "query_qcfg"
               /\ \E j \in i + 1 .. Len(line') : Final(line'[j])
    <3>1. i + 1 \in 1 .. Len(line) /\ line'[i] = line[i + 1] /\ i \in Int
          BY <1>3
    <3>2. PICK j \in (i + 1) + 1 .. Len(line) : Final(line[j])
          BY <1>1, <2>6, <3>1 DEF LinesInv
    <3>3. j \in 1 .. Len(line) /\ j # 1 /\ j \in Int
          BY <1>3, <3>1
    <3>4. j - 1 \in i + 1 .. Len(line') /\ line'[j - 1] = line[j]
          BY <1>3, <3>1, <3>3
    <3>   QED BY <1>1, <2>1, <2>6, <3>1, <3>2, <3>4 DEF LinesInv
  <2>7. LinesInv'
        BY <2>4, <2>5, <2>6 DEF LinesInv
  <2>   QED BY <1>9, <1>10, <2>3, <2>7 DEF DialogueInv
<1>   QED BY <1>11, <1>12

-------------------------------------------------------------------------------
(* The driver applies the configuration *)

LEMMA OperationsAre ==
    /\ DOMAIN Operations = 1 .. 14
    /\ Operations[1] = "check_ready" /\ Operations[2] = "disable_echo"
    /\ Operations[9] = "query_qcfg" /\ Operations[10] = "assign_qcfg"
    /\ \A i \in 1 .. 14 : Operations[i] \in Ops /\ (Operations[i] = "assign_qcfg" => i = 10)
<1>1. DOMAIN Operations = 1 .. 14
      BY DEF Operations
<1>2. \A i \in 1 .. 14 : i \in {1, 2, 3, 4, 5, 6, 7, 8, 9, 10, 11, 12, 13, 14}
      OBVIOUS
<1>3. \A i \in 1 .. 14 : Operations[i] = "assign_qcfg" => i = 10
      BY <1>2 DEF Operations
<1>4. \A i \in 1 .. 14 : Operations[i] \in Ops
      BY <1>1 DEF Ops, Range
<1>5. /\ Operations[1] = "check_ready" /\ Operations[2] = "disable_echo"
      /\ Operations[9] = "query_qcfg" /\ Operations[10] = "assign_qcfg"
      BY DEF Operations
<1>   QED BY <1>1, <1>3, <1>4, <1>5

LEMMA SubmitIs ==
    ASSUME NEW c, Formed(c), NEW o \in Ops, c.op[o] \in OpStates, Constructed(c, o)
    PROVE  LET d == [c EXCEPT !.op[o].state = "SUBMITTED"]
           IN  /\ Only(c, d, {o}) /\ d.current_pin = c.current_pin
               /\ d.op[o] = [state |-> "SUBMITTED", arg |-> c.op[o].arg]
<1>   DEFINE x == [c.op[o] EXCEPT !.state = "SUBMITTED"]
             d == [c EXCEPT !.op[o].state = "SUBMITTED"]
<1>1. x = [state |-> "SUBMITTED", arg |-> c.op[o].arg]
      BY DEF OpStates, Constructed
<1>2. d = SetOp(c, o, x)
      BY DEF SetOp
<1>   HIDE DEF x, d
<1>3. Only(c, d, {o}) /\ d.op[o] = x /\ d.current_pin = c.current_pin
      BY <1>2, OpSet
<1>   QED BY <1>1, <1>3 DEF d

LEMMA CommandSubmittedIs ==
    ASSUME StatusType, NEW cmd
    PROVE  LET t == CommandSubmitted(st, cmd)
           IN  /\ DOMAIN t = StatusMembers /\ t.pending = cmd /\ t.current_call = None
               /\ t.ok = FALSE /\ t.error = FALSE /\ t.cme_error = FALSE
               /\ \A f \in {"at_ok", "echo_disabled", "rdy", "ring_count", "qcfg"} : t[f] = st[f]
               /\ t.clcc_up_to_date = IF cmd.op = "request_call_list" THEN FALSE
                                      ELSE st.clcc_up_to_date
<1>1. DOMAIN st = StatusMembers /\ st.current_call = None
      BY DEF StatusType
<1>   DEFINE a == ResetCommand(st)
             b == [a EXCEPT !.pending = cmd]
             t == CommandSubmitted(st, cmd)
<1>2. /\ DOMAIN a = StatusMembers /\ a.current_call = None
      /\ a.ok = FALSE /\ a.error = FALSE /\ a.cme_error = FALSE
      /\ \A f \in {"at_ok", "echo_disabled", "rdy", "ring_count", "qcfg", "clcc_up_to_date"} :
            a[f] = st[f]
      BY <1>1 DEF ResetCommand, StatusMembers
<1>   HIDE DEF a
<1>3. t = IF cmd.op = "request_call_list" THEN ClccOutOfDate(b) ELSE b
      BY DEF CommandSubmitted, a
<1>4. /\ DOMAIN b = StatusMembers /\ b.current_call = None /\ b.pending = cmd
      /\ \A f \in {"at_ok", "echo_disabled", "rdy", "ring_count", "qcfg", "clcc_up_to_date",
                    "ok", "error", "cme_error"} : b[f] = a[f]
      BY <1>2 DEF StatusMembers
<1>   HIDE DEF b, t
<1>5. CASE cmd.op = "request_call_list"
      BY <1>2, <1>3, <1>4, <1>5 DEF ClccOutOfDate, StatusMembers, t
<1>6. CASE cmd.op # "request_call_list"
      BY <1>2, <1>3, <1>4, <1>6 DEF t
<1>   QED BY <1>5, <1>6

\* The rules when the configuration is applied: an awaited operation is kept
LEMMA ApplyKeeps ==
    ASSUME NEW p \in Pins, DialogueInv(p), OneCfg(config, p), Awaited
    PROVE  LET o == st.pending.op
           IN  /\ o \in Ops /\ Submitted(Applied, o) /\ Held(Applied, o)
               /\ o = "assign_qcfg"
                    => InState("UNKNOWN") = {} /\ ~Constructed(Applied, "query_qcfg")
<1>   DEFINE o == st.pending.op
<1>1. /\ ControlType(ct, p) /\ RulesInv(ct) /\ st.current_call = None
      /\ st.pending # None /\ Submitted(ct, o) /\ Held(ct, o) /\ o \in Ops
      /\ o = "assign_qcfg" => InState("UNKNOWN") = {} /\ ~Constructed(ct, "query_qcfg")
      BY DEF DialogueInv, DialogueType, StatusType, FlightInv, Commands
<1>   HIDE DEF o
<1>2. /\ RulesResult(Prepared, Applied, p)
      /\ Constructed(Applied, "query_qcfg")
            => Constructed(ct, "query_qcfg") \/ InState("UNKNOWN") # {}
      /\ Applied.op[o] = ct.op[o]
      BY <1>1, AppliedIs DEF Submitted
<1>3. Submitted(Applied, o)
      BY <1>1, <1>2 DEF Submitted, Constructed
<1>4. Held(Applied, o)
      BY <1>1, <1>2 DEF Held, RulesResult
<1>   QED BY <1>1, <1>2, <1>3, <1>4 DEF o

\* The command that ApplyConfig submits
NextOp == Operations[NextPending(Applied)]
Command == [op |-> NextOp, arg |-> Applied.op[NextOp].arg]

LEMMA ApplyConfigIs ==
    ASSUME ApplyConfig
    PROVE  /\ UNCHANGED <<config, line, modem, left>>
           /\ \/ ct' = Applied /\ st' = st /\ command' = command
              \/ /\ SubmitAllowed(Applied) /\ NextPending(Applied) # 0
                 /\ command' = Append(command, Command)
                 /\ ct' = [Applied EXCEPT !.op[NextOp].state = "SUBMITTED"]
                 /\ st' = CommandSubmitted(st, Command)
BY DEF ApplyConfig, Applied, Prepared, NextOp, Command

Submission ==
    /\ UNCHANGED <<config, line, modem, left>>
    /\ SubmitAllowed(Applied) /\ NextPending(Applied) # 0
    /\ command' = Append(command, Command)
    /\ ct' = [Applied EXCEPT !.op[NextOp].state = "SUBMITTED"]
    /\ st' = CommandSubmitted(st, Command)

LEMMA CommandIs ==
    ASSUME NEW p \in Pins, DialogueInv(p), OneCfg(config, p), Submission
    PROVE  /\ ~Awaited /\ command' = <<Command>>
           /\ Command \in Commands /\ ForEntry(Command) /\ Command.op \notin CallOps
           /\ RulesResult(Prepared, Applied, p) /\ ControlType(Applied, p) /\ Formed(Applied)
           /\ NextOp \in Ops /\ Waits(Applied, NextOp)
           /\ NextOp = "check_ready" => ~st.at_ok
           /\ NextOp = "disable_echo" => ~st.echo_disabled /\ st.at_ok
           /\ NextOp = "assign_qcfg"
                => InState("UNKNOWN") = {} /\ ~Constructed(Applied, "query_qcfg")
<1>   DEFINE i == NextPending(Applied)
<1>1. /\ DialogueType(p) /\ ControlType(ct, p) /\ RulesInv(ct) /\ st.current_call = None
      BY DEF DialogueInv, DialogueType, StatusType
<1>2. /\ RulesResult(Prepared, Applied, p)
      /\ Constructed(Prepared, "check_ready") <=> ~st.at_ok
      BY <1>1, AppliedIs
<1>3. ControlType(Applied, p) /\ Formed(Applied)
      BY <1>2 DEF RulesResult, ControlType, Formed
<1>4. InFlight(Applied) = {}
      BY DEF Submission, SubmitAllowed
<1>5. ~Awaited
      BY <1>4, ApplyKeeps DEF InFlight
<1>6. command' = <<Command>>
  <2>1. command = <<>>
        BY <1>5 DEF Awaited
  <2>   QED BY <2>1 DEF Submission
<1>7. /\ i \in 1 .. 14 /\ Waits(Applied, Operations[i])
      /\ \A j \in 1 .. 14 : j < i => ~Waits(Applied, Operations[j])
      BY NextPendingIs DEF Submission
<1>8. NextOp \in Ops /\ Waits(Applied, NextOp) /\ Constructed(Applied, NextOp)
      BY <1>7, OperationsAre DEF NextOp, Waits
<1>9. Command \in Commands /\ Command.op = NextOp
  <2>1. Applied.op[NextOp] \in OpStates /\ Applied.op[NextOp] # None
        BY <1>3, <1>8 DEF ControlType, Constructed
  <2>   QED BY <1>8, <2>1 DEF Command, Commands, OpStates
<1>10. Command.op \notin CallOps /\ ForEntry(Command)
       BY <1>3, <1>8, <1>9 DEF ControlType, ForEntry, Command
<1>11. /\ NextOp = "check_ready" => ~st.at_ok
       /\ NextOp = "disable_echo" => ~st.echo_disabled /\ st.at_ok
       BY <1>2, <1>8 DEF RulesResult
<1>12. ASSUME NextOp = "assign_qcfg"
       PROVE  InState("UNKNOWN") = {} /\ ~Constructed(Applied, "query_qcfg")
  <2>1. i = 10
        BY <1>7, <1>12, OperationsAre DEF NextOp
  <2>2. ~Waits(Applied, "query_qcfg")
        BY <1>7, <2>1, OperationsAre
  <2>3. ~Submitted(Applied, "query_qcfg")
        BY <1>4, OpsAre DEF InFlight
  <2>4. Applied.op["query_qcfg"] \in OpStates
        BY <1>3, OpsAre DEF ControlType
  <2>5. ~Constructed(Applied, "query_qcfg")
        BY <2>2, <2>3, <2>4 DEF Waits, Submitted, OpStates, Constructed
  <2>   QED BY <1>2, <1>8, <1>12, <2>5 DEF RulesResult
<1>   QED BY <1>2, <1>3, <1>5, <1>6, <1>8, <1>9, <1>10, <1>11, <1>12

LEMMA SubmissionInv ==
    ASSUME NEW p \in Pins, DialogueInv(p), OneCfg(config, p), Submission
    PROVE  DialogueInv(p)'
<1>   DEFINE cmd == Command
             o == NextOp
<1>1. /\ ~Awaited /\ command' = <<cmd>>
      /\ cmd \in Commands /\ ForEntry(cmd) /\ cmd.op \notin CallOps
      /\ RulesResult(Prepared, Applied, p) /\ ControlType(Applied, p) /\ Formed(Applied)
      /\ o \in Ops /\ Waits(Applied, o)
      /\ o = "check_ready" => ~st.at_ok
      /\ o = "disable_echo" => ~st.echo_disabled /\ st.at_ok
      /\ o = "assign_qcfg" => InState("UNKNOWN") = {} /\ ~Constructed(Applied, "query_qcfg")
      BY CommandIs
<1>2. /\ DialogueType(p) /\ StatusType /\ LinesInv
      /\ UNCHANGED <<config, line, modem, left>> /\ line \in Seq(LineSet)
      BY DEF DialogueInv, DialogueType, Submission
<1>3. cmd.op = o /\ cmd.arg = Applied.op[o].arg /\ cmd # None
  <2>1. cmd.op = o /\ cmd.arg = Applied.op[o].arg
        BY DEF Command
  <2>   QED BY <1>1, <2>1, NoneAssumption DEF Commands
<1>4. /\ Only(Applied, ct', {o}) /\ ct'.current_pin = Applied.current_pin
      /\ ct'.op[o] = [state |-> "SUBMITTED", arg |-> Applied.op[o].arg]
  <2>1. Applied.op[o] \in OpStates /\ Constructed(Applied, o)
        BY <1>1 DEF ControlType, Waits
  <2>   QED BY <1>1, <2>1, SubmitIs DEF Submission
<1>5. /\ DOMAIN st' = StatusMembers /\ st'.pending = cmd /\ st'.current_call = None
      /\ st'.ok = FALSE /\ st'.error = FALSE /\ st'.cme_error = FALSE
      /\ \A f \in {"at_ok", "echo_disabled", "rdy", "ring_count", "qcfg"} : st'[f] = st[f]
      /\ st'.clcc_up_to_date = IF cmd.op = "request_call_list" THEN FALSE
                               ELSE st.clcc_up_to_date
      BY <1>2, CommandSubmittedIs DEF Submission
<1>   HIDE DEF cmd, o
<1>6. StatusType'
  <2>1. \A f \in Flags : st'[f] \in BOOLEAN
        BY <1>2, <1>5 DEF StatusType, Flags
  <2>   QED BY <1>1, <1>2, <1>5, <2>1 DEF StatusType, ForEntry
<1>7. ct'.op[o] \in OpStates /\ ct'.op[o] # None
  <2>1. cmd.arg \in Args
        BY <1>1 DEF Commands
  <2>   QED BY <1>3, <1>4, <2>1, NoneAssumption DEF OpStates
<1>8. \A q \in Ops : /\ Constructed(ct', q) <=> Constructed(Applied, q)
                     /\ q # o => ct'.op[q] = Applied.op[q]
      BY <1>1, <1>4, <1>7 DEF Only, Constructed, Waits
<1>9. ControlType(ct, p)'
  <2>1. /\ DOMAIN ct' = Members /\ DOMAIN ct'.op = Ops /\ ct'.outbound = None
        /\ ct'.current_ring_count = st'.ring_count /\ ct'.current_pin \in {None, p}
        BY <1>1, <1>4, <1>5 DEF Only, ControlType
  <2>2. \A q \in Ops : ct'.op[q] \in OpStates
        BY <1>1, <1>7, <1>8 DEF ControlType
  <2>3. /\ Constructed(ct', "set_pin") => ct'.current_pin = p
        /\ \A q \in CallOps : ~Constructed(ct', q)
        BY <1>1, <1>4, <1>8, OpsAre DEF ControlType, CallOps
  <2>4. ASSUME NEW q \in {"query_qcfg", "assign_qcfg"}, Constructed(ct', q)
        PROVE  ct'.op[q].arg \in Entries
    <3>1. Constructed(Applied, q) /\ Applied.op[q].arg \in Entries
          BY <1>1, <1>8, <2>4, OpsAre DEF ControlType
    <3>2. ct'.op[q].arg = Applied.op[q].arg
          BY <1>4, <1>8, OpsAre
    <3>   QED BY <3>1, <3>2
  <2>   QED BY <2>1, <2>2, <2>3, <2>4 DEF ControlType, Constructed
<1>10. /\ InState("UNKNOWN")' = InState("UNKNOWN") /\ InState("MODIFIED")' = InState("MODIFIED")
       /\ RebootNeeded' <=> RebootNeeded
       BY <1>5 DEF InState, RebootNeeded
<1>11. /\ \A q \in {"disable_echo", "assign_qcfg", "query_qcfg", "reboot", "check_ready"} :
             Constructed(ct', q) <=> Constructed(Applied, q)
       BY <1>8, OpsAre
<1>12. RulesInv(ct)'
  <2>1. RulesInv(Applied)
        BY <1>1 DEF RulesResult
  <2>2. ~Submitted(Applied, "reboot")
        BY OpsAre DEF Submission, SubmitAllowed, InFlight
  <2>   QED BY <1>5, <1>10, <1>11, <2>1, <2>2 DEF RulesInv, Constructed, Submitted
<1>13. FlightInv'
  <2>1. st'.pending # None /\ Submitted(ct', st'.pending.op)
        BY <1>3, <1>4, <1>5, <1>7 DEF Submitted, Constructed
  <2>2. RebootNeeded' => Constructed(ct', "reboot")
        BY <1>1, <1>10, <1>11 DEF RulesResult
  <2>3. Held(ct, st.pending.op)'
    <3>1. st'.pending.op = o
          BY <1>3, <1>5
    <3>   QED BY <1>1, <1>3, <1>5, <2>2, <3>1 DEF Held, Constructed
  <2>4. o = "assign_qcfg" => InState("UNKNOWN")' = {} /\ ~Constructed(ct', "query_qcfg")
        BY <1>1, <1>10, <1>11
  <2>   QED BY <1>3, <1>5, <2>1, <2>3, <2>4 DEF FlightInv, Submitted, Constructed
<1>14. LinesInv'
  <2>1. \A i \in 1 .. Len(line) : ~Final(line[i])
        BY <1>1 DEF Awaited
  <2>2. \A i \in 1 .. Len(line) : line[i].kind # "QCFG"
    <3>   SUFFICES ASSUME NEW i \in 1 .. Len(line), line[i].kind = "QCFG" PROVE FALSE
          OBVIOUS
    <3>1. PICK j \in i + 1 .. Len(line) : Final(line[j])
          BY <1>2 DEF LinesInv
    <3>2. j \in 1 .. Len(line)
          BY <1>2
    <3>   QED BY <2>1, <3>1, <3>2
  <2>   QED BY <1>1, <1>2, <1>5, <2>1, <2>2 DEF LinesInv
<1>15. DialogueType(p)'
  <2>1. command' \in Seq(Commands)
        BY <1>1
  <2>   QED BY <1>2, <1>6, <1>9, <2>1 DEF DialogueType, ModemType
<1>   QED BY <1>12, <1>13, <1>14, <1>15 DEF DialogueInv

LEMMA ApplyConfigKeeps ==
    ASSUME NEW p \in Pins, DialogueInv(p), OneCfg(config, p), ApplyConfig
    PROVE  DialogueInv(p)'
<1>1. CASE Submission
      BY <1>1, SubmissionInv
<1>2. CASE ct' = Applied /\ st' = st /\ command' = command
  <2>1. UNCHANGED <<config, line, modem, left>>
        BY ApplyConfigIs
  <2>2. /\ DialogueType(p) /\ ControlType(ct, p) /\ RulesInv(ct) /\ LinesInv
        /\ st.current_call = None
        BY DEF DialogueInv, DialogueType, StatusType
  <2>3. ControlType(Applied, p) /\ RulesInv(Applied)
        BY <2>2, AppliedIs DEF RulesResult
  <2>4. DialogueType(p)'
        BY <1>2, <2>1, <2>2, <2>3 DEF DialogueType, StatusType, ControlType, ModemType, Constructed
  <2>5. RulesInv(ct)'
        BY <1>2, <2>3 DEF RulesInv, Constructed, Submitted, InState
  <2>6. LinesInv'
        BY <1>2, <2>1, <2>2 DEF LinesInv
  <2>7. FlightInv'
    <3>1. Awaited' <=> Awaited
          BY <1>2, <2>1 DEF Awaited
    <3>2. Awaited => st.pending # None
          BY DEF DialogueInv, FlightInv
    <3>   QED BY <1>2, <3>1, <3>2, ApplyKeeps
              DEF FlightInv, Held, Submitted, Constructed, InState, RebootNeeded
  <2>   QED BY <2>4, <2>5, <2>6, <2>7 DEF DialogueInv
<1>   QED BY <1>1, <1>2, ApplyConfigIs DEF Submission

-------------------------------------------------------------------------------
(* The timer, the user, and every step *)

\* The one PIN of all configurations
OnePin(p) == p \in Pins /\ \A c \in Configs : OneCfg(c, p)

LEMMA HandleTimerInv ==
    ASSUME NEW p, DialogueInv(p), Slow = {}, NEW timeout \in BOOLEAN, HandleTimer(timeout)
    PROVE  DialogueInv(p)'
<1>1. /\ DialogueType(p) /\ StatusType /\ ControlType(ct, p) /\ RulesInv(ct)
      /\ FlightInv /\ LinesInv /\ UNCHANGED <<config, command, line, modem, left>>
      BY DEF DialogueInv, DialogueType, HandleTimer
<1>2. command = <<>> /\ line = <<>>
      BY DEF HandleTimer, TimerPossible
<1>3. InvalidateCallList(st) = st
      BY <1>1 DEF InvalidateCallList, ControlType
<1>4. ~Awaited' /\ LinesInv'
      BY <1>1, <1>2 DEF Awaited, LinesInv
<1>5. CASE ~timeout
  <2>1. st' = st /\ ct' = ct
        BY <1>3, <1>5 DEF HandleTimer
  <2>2. DialogueType(p)' /\ RulesInv(ct)'
        BY <1>1, <2>1 DEF DialogueType, StatusType, ControlType, ModemType, RulesInv,
                          Constructed, Submitted, InState
  <2>   QED BY <1>4, <2>2 DEF DialogueInv, FlightInv
<1>6. CASE timeout
  <2>   DEFINE a == ResetCommand(st)
               op == [o \in Ops |-> IF Submitted(ct, o) THEN None ELSE ct.op[o]]
  <2>1. st' = [a EXCEPT !.at_ok = FALSE] /\ ct' = [ct EXCEPT !.op = op]
        BY <1>3, <1>6 DEF HandleTimer, CancelSubmitted
  <2>2. /\ DOMAIN a = StatusMembers /\ a.pending = None /\ a.current_call = None
        /\ a.ok = FALSE /\ a.error = FALSE /\ a.cme_error = FALSE
        /\ \A f \in {"echo_disabled", "rdy", "ring_count", "qcfg", "clcc_up_to_date"} : a[f] = st[f]
        BY <1>1 DEF ResetCommand, StatusType, StatusMembers
  <2>   HIDE DEF a
  <2>3. /\ DOMAIN st' = StatusMembers /\ st'.pending = None /\ st'.current_call = None
        /\ st'.ok = FALSE /\ st'.error = FALSE /\ st'.cme_error = FALSE /\ st'.at_ok = FALSE
        /\ \A f \in {"echo_disabled", "rdy", "ring_count", "qcfg", "clcc_up_to_date"} :
              st'[f] = st[f]
        BY <2>1, <2>2 DEF StatusMembers
  <2>4. StatusType'
    <3>1. \A f \in Flags : st'[f] \in BOOLEAN
          BY <1>1, <2>3 DEF StatusType, Flags
    <3>   QED BY <1>1, <2>3, <3>1 DEF StatusType
  <2>5. /\ DOMAIN op = Ops
        /\ \A o \in Ops : op[o] = IF Submitted(ct, o) THEN None ELSE ct.op[o]
        OBVIOUS
  <2>   HIDE DEF op
  <2>6. /\ DOMAIN ct' = Members /\ ct'.op = op
        /\ \A f \in Members \ {"op"} : ct'[f] = ct[f]
        BY <1>1, <2>1 DEF ControlType, Members
  <2>7. /\ Only(ct, ct', Ops) /\ ct'.current_pin = ct.current_pin
        /\ \A o \in Ops : ct'.op[o] = IF Submitted(ct, o) THEN None ELSE ct.op[o]
        BY <2>5, <2>6 DEF Only, Members
  <2>8. ControlType(ct', p) /\ RulesInv(ct')
    <3>1. \A o \in Ops : ct'.op[o] \in OpStates
          BY <1>1, <2>7 DEF ControlType, OpStates
    <3>   QED BY <1>1, <2>7, <3>1, OpsAre, FewerOps
  <2>9. RulesInv(ct)'
    <3>1. ~Submitted(ct', "reboot")
          BY <2>7, OpsAre DEF Submitted, Constructed
    <3>   QED BY <2>3, <2>8, <3>1 DEF RulesInv, Constructed, Submitted, InState
  <2>10. DialogueType(p)'
         BY <1>1, <2>3, <2>4, <2>8 DEF DialogueType, ControlType, ModemType, Constructed
  <2>   QED BY <1>4, <2>9, <2>10 DEF DialogueInv, FlightInv
<1>   QED BY <1>5, <1>6

LEMMA SetConfigInv ==
    ASSUME NEW p, DialogueInv(p), NEW cfg \in Configs, SetConfig(cfg)
    PROVE  DialogueInv(p)'
<1>1. /\ DialogueType(p) /\ RulesInv(ct) /\ FlightInv /\ LinesInv
      /\ UNCHANGED <<st, ct, command, line, modem>> /\ config' = cfg
      /\ left' = [left EXCEPT !.configs = @ - 1]
      BY DEF DialogueInv, SetConfig
<1>2. DialogueType(p)'
      BY <1>1 DEF DialogueType, StatusType, ControlType, ModemType, Constructed
<1>   QED BY <1>1, <1>2 DEF DialogueInv, FlightInv, LinesInv, RulesInv, Awaited, Held, Submitted,
                            Constructed, InState, RebootNeeded

LEMMA DialogueInit ==
    ASSUME NEW p, MaxCalls = 0, Init
    PROVE  DialogueInv(p)
<1>1. /\ \A o \in Ops : ct.op[o] = None
      /\ DOMAIN ct = Members /\ DOMAIN ct.op = Ops /\ ct.outbound = None
      /\ ct.current_pin = None /\ ct.current_ring_count = 0
      BY DEF Init, InitControl, Members
<1>2. /\ \A e \in Entries : st.qcfg[e] = "UNKNOWN"
      /\ DOMAIN st = StatusMembers /\ DOMAIN st.qcfg = Entries /\ st.current_call = None
      /\ st.pending = None /\ st.ring_count = 0 /\ st.rdy
      /\ \A f \in Flags : st[f] \in BOOLEAN
      BY DEF Init, InitStatus, StatusMembers, Flags
<1>3. StatusType
      BY <1>2 DEF StatusType
<1>4. ControlType(ct, p)
      BY <1>1, <1>2, OpsAre DEF ControlType, Constructed, OpStates, CallOps
<1>5. ModemType
  <2>1. PICK run \in {"up", "boot"} : modem = [InitModem EXCEPT !.run = run]
        BY DEF Init
  <2>   DEFINE unset == [e \in Entries |-> FALSE]
  <2>2. unset \in [Entries -> BOOLEAN] /\ run \in {"up", "boot", "off"} /\ "SIM PIN" \in SimStates
        BY <2>1 DEF SimStates
  <2>3. modem = [run |-> run, echo |-> TRUE, sim |-> "SIM PIN", tries |-> 3,
                 setting |-> unset, call |-> None]
        BY <2>1 DEF InitModem
  <2>   HIDE DEF unset
  <2>4. 3 \in Int /\ TRUE \in BOOLEAN /\ None \in {None}
        OBVIOUS
  <2>   QED BY <2>2, <2>3, <2>4, Zenon DEF ModemType
<1>6. DialogueType(p)
      BY <1>3, <1>4, <1>5 DEF Init, DialogueType, Bounds
<1>7. RulesInv(ct)
      BY <1>1, <1>2, OpsAre DEF RulesInv, Constructed, InState
<1>8. FlightInv /\ LinesInv
      BY DEF Init, FlightInv, LinesInv, Awaited
<1>   QED BY <1>6, <1>7, <1>8 DEF DialogueInv

LEMMA DialogueStep ==
    ASSUME NEW p, OnePin(p), Slow = {}, DialogueInv(p), [Next]_vars
    PROVE  DialogueInv(p)'
<1>1. p \in Pins /\ OneCfg(config, p)
      BY DEF OnePin, DialogueInv, DialogueType
<1>2. CASE ReadLine
      BY <1>2, ReadLineInv
<1>3. CASE ApplyConfig
      BY <1>1, <1>3, ApplyConfigKeeps
<1>4. CASE \E timeout \in BOOLEAN : HandleTimer(timeout)
      BY <1>4, HandleTimerInv
<1>5. CASE \E cfg \in Configs : SetConfig(cfg)
      BY <1>5, SetConfigInv
<1>6. CASE ModemNext
      BY <1>6, ModemInv
<1>7. CASE UNCHANGED vars
      BY <1>7 DEF vars, DialogueInv, DialogueType, StatusType, ControlType, ModemType, FlightInv,
                  LinesInv, RulesInv, Awaited, Held, Submitted, Constructed, InState, RebootNeeded
<1>   QED BY <1>2, <1>3, <1>4, <1>5, <1>6, <1>7 DEF Next, DriverNext

\* A final line answers the pending command, and only final lines complete one
LEMMA Completes ==
    ASSUME NEW p, DialogueInv(p), [Next]_vars
    PROVE  (st.pending # None /\ st'.pending = None /\ Len(line') < Len(line))
              => Head(line).re = st.pending.op
<1>1. /\ line \in Seq(LineSet) /\ StatusType /\ LinesInv /\ Len(line) \in Nat
      BY DEF DialogueInv, DialogueType
<1>2. CASE ReadLine
  <2>   DEFINE l == Head(line)
  <2>1. line # <<>> /\ st' = ApplyLine(st, l)
        BY <1>2 DEF ReadLine
  <2>2. l = line[1] /\ l \in LineSet /\ 1 \in 1 .. Len(line)
        BY <1>1, <2>1, TailIs
  <2>   HIDE DEF l
  <2>3. st'.pending = IF Final(l) THEN None ELSE st.pending
        BY <1>1, <2>1, <2>2, ApplyLineIs DEF LineEffect
  <2>4. Final(l) => l.re = st.pending.op
        BY <1>1, <2>2 DEF LinesInv
  <2>   QED BY <2>3, <2>4 DEF l
<1>3. CASE ModemNext
  <2>1. st' = st
        BY <1>3 DEF ModemNext, ModemAnswers, ModemRefuses, ModemBoots, SimAvailable,
                    RemoteCalls, RingsAgain, RemotePicksUp, RemoteHangsUp
  <2>   QED BY <2>1
<1>4. CASE line' = line
      BY <1>1, <1>4
<1>   QED BY <1>2, <1>3, <1>4 DEF Next, DriverNext, ApplyConfig, HandleTimer, SetConfig, vars

\* A command is completed by no other answer than its own, with any settings, any number of
\* configuration changes, and refusals of any commands (driver.h, status.h:337).
THEOREM AnswersMatchCommands ==
    ASSUME OnePromptUser PROVE Spec => AnswerMatchesCommand
<1>1. PICK p \in Pins : OnePin(p)
      BY DEF OnePromptUser, OnePin, OneCfg
<1>2. Slow = {} /\ MaxCalls = 0
      BY DEF OnePromptUser
<1>3. Init => DialogueInv(p)
      BY <1>2, DialogueInit
<1>4. DialogueInv(p) /\ [Next]_vars => DialogueInv(p)'
      BY <1>1, <1>2, DialogueStep
<1>5. DialogueInv(p) /\ [Next]_vars
        => [(st.pending # None /\ st'.pending = None /\ Len(line') < Len(line))
              => Head(line).re = st.pending.op]_<<st, line>>
      BY Completes
<1>   QED BY <1>3, <1>4, <1>5, PTL DEF Spec, AnswerMatchesCommand

-------------------------------------------------------------------------------
(* The echo mode: what the driver takes for granted of the modem *)

RdyAt(j) == j \in 1 .. Len(line) /\ line[j].kind = "RDY"
OkAt(i)  == i \in 1 .. Len(line) /\ line[i].kind = "OK"

\* What the driver takes for granted is true, or a line on its way will correct it
EchoInv ==
    /\ st.at_ok => st.rdy
    /\ ~st.rdy => modem.run # "up" \/ \E j \in Nat : RdyAt(j)
    /\ ~st.rdy => \A i \in 1 .. Len(line) : Final(line[i]) => \E j \in 1 .. i - 1 : RdyAt(j)
    /\ \A i \in Nat : OkAt(i) /\ st.pending.op = "reboot"
          => modem.run # "up" \/ \E j \in Nat : j > i /\ RdyAt(j)
    /\ st.echo_disabled => \/ ~modem.echo
                           \/ /\ st.pending # None /\ st.pending.op = "reboot"
                              /\ \E i \in Nat : OkAt(i)
    /\ \A i \in Nat : OkAt(i) /\ st.pending.op = "disable_echo" => ~modem.echo

LEMMA ReadLineEcho ==
    ASSUME NEW p, DialogueInv(p), EchoInv, ReadLine
    PROVE  EchoInv'
<1>   DEFINE l == Head(line)
<1>1. /\ StatusType /\ LinesInv /\ line \in Seq(LineSet) /\ line # <<>>
      BY DEF DialogueInv, DialogueType, ReadLine
<1>2. /\ st' = ApplyLine(st, l) /\ line' = Tail(line) /\ modem' = modem
      BY DEF ReadLine
<1>3. /\ Len(line) \in Nat /\ Len(line) >= 1 /\ Len(line') = Len(line) - 1
      /\ l = line[1] /\ l \in LineSet
      /\ \A i \in 1 .. Len(line') : i + 1 \in 1 .. Len(line) /\ line'[i] = line[i + 1]
      /\ \A i \in 1 .. Len(line) : i # 1 => i - 1 \in 1 .. Len(line') /\ line'[i - 1] = line[i]
      BY <1>1, <1>2, TailIs
<1>   HIDE DEF l
<1>4. LineEffect(l, st')
      BY <1>1, <1>2, <1>3, ApplyLineIs DEF l
<1>5. /\ \A j \in Nat : j # 1 /\ RdyAt(j) => RdyAt(j - 1)' /\ j - 1 \in Nat
      /\ \A j \in Nat : j # 1 /\ OkAt(j) => OkAt(j - 1)' /\ j - 1 \in Nat
      /\ \A j \in Nat : OkAt(j)' => OkAt(j + 1)
  <2>1. ASSUME NEW j \in Nat PROVE /\ j # 1 /\ RdyAt(j) => RdyAt(j - 1)' /\ j - 1 \in Nat
                                   /\ j # 1 /\ OkAt(j) => OkAt(j - 1)' /\ j - 1 \in Nat
                                   /\ OkAt(j)' => OkAt(j + 1)
        BY <1>3 DEF RdyAt, OkAt
  <2>   QED BY <2>1
<1>6. \A i \in Nat : OkAt(i) => i \in 1 .. Len(line) /\ Final(line[i])
      BY DEF OkAt, Final
<1>7. ASSUME NEW i \in 1 .. Len(line'), Final(line'[i])
      PROVE  ~Final(l) /\ i + 1 \in 1 .. Len(line) /\ Final(line[i + 1]) /\ st'.pending = st.pending
             /\ i \in Nat /\ i >= 1
  <2>1. i + 1 \in 1 .. Len(line) /\ Final(line[i + 1]) /\ i \in Nat /\ i >= 1 /\ 1 \in 1 .. Len(line)
        BY <1>3, <1>7
  <2>2. ~Final(l)
        BY <1>1, <1>3, <2>1 DEF LinesInv
  <2>   QED BY <1>4, <2>1, <2>2 DEF LineEffect
<1>8. 1 \in Nat /\ 1 \in 1 .. Len(line) /\ (l.kind = "OK" => OkAt(1) /\ Final(line[1]))
  <2>1. 1 \in Nat /\ 1 \in 1 .. Len(line)
        BY <1>3
  <2>   QED BY <1>3, <2>1 DEF OkAt, Final
<1>9. Confirms(l, {"check_ready"}) => st.rdy
  <2>   SUFFICES ASSUME Confirms(l, {"check_ready"}), ~st.rdy PROVE FALSE
        OBVIOUS
  <2>1. \E j \in 1 .. 1 - 1 : RdyAt(j)
        BY <1>8 DEF EchoInv, Confirms
  <2>   QED BY <2>1
<1>10. st'.at_ok => st'.rdy
       BY <1>4, <1>9 DEF EchoInv, LineEffect
<1>11. ~st'.rdy => Confirms(l, {"reboot"}) \/ (~st.rdy /\ ~RdyAt(1))
  <2>1. RdyAt(1) <=> l.kind = "RDY"
        BY <1>3, <1>8 DEF RdyAt
  <2>   QED BY <1>4, <2>1 DEF LineEffect
<1>12. ~st'.rdy => modem'.run # "up" \/ \E j \in Nat : RdyAt(j)'
  <2>1. CASE Confirms(l, {"reboot"})
    <3>1. modem.run # "up" \/ \E j \in Nat : j > 1 /\ RdyAt(j)
          BY <1>8, <2>1 DEF EchoInv, Confirms
    <3>   QED BY <1>2, <1>5, <3>1
  <2>2. CASE ~st.rdy /\ ~RdyAt(1)
    <3>1. modem.run # "up" \/ \E j \in Nat : j # 1 /\ RdyAt(j)
          BY <2>2 DEF EchoInv
    <3>   QED BY <1>2, <1>5, <3>1
  <2>   QED BY <1>11, <2>1, <2>2
<1>13. ASSUME ~st'.rdy, NEW i \in 1 .. Len(line'), Final(line'[i])
       PROVE  \E j \in 1 .. i - 1 : RdyAt(j)'
  <2>1. ~Final(l) /\ i + 1 \in 1 .. Len(line) /\ Final(line[i + 1]) /\ i \in Nat
        BY <1>7, <1>13
  <2>2. ~st.rdy /\ ~RdyAt(1)
        BY <1>11, <1>13, <2>1 DEF Confirms, Final
  <2>3. PICK j \in 1 .. (i + 1) - 1 : RdyAt(j)
        BY <2>1, <2>2 DEF EchoInv
  <2>4. j # 1 /\ j \in Nat
        BY <2>1, <2>2, <2>3
  <2>   QED BY <1>5, <2>1, <2>3, <2>4
<1>14. ASSUME NEW i \in Nat, OkAt(i)', st'.pending.op = "reboot"
       PROVE  modem'.run # "up" \/ \E j \in Nat : j > i /\ RdyAt(j)'
  <2>1. i \in 1 .. Len(line') /\ Final(line'[i]) /\ OkAt(i + 1) /\ i + 1 \in Nat
        BY <1>5, <1>14 DEF OkAt, Final
  <2>2. st'.pending = st.pending
        BY <1>7, <2>1
  <2>3. modem.run # "up" \/ \E j \in Nat : j > i + 1 /\ RdyAt(j)
        BY <1>14, <2>1, <2>2 DEF EchoInv
  <2>4. ASSUME NEW j \in Nat, j > i + 1, RdyAt(j) PROVE \E k \in Nat : k > i /\ RdyAt(k)'
        BY <1>5, <2>4
  <2>   QED BY <1>2, <2>3, <2>4
<1>15. ASSUME NEW i \in Nat, OkAt(i)', st'.pending.op = "disable_echo"
       PROVE  ~modem'.echo
  <2>1. i \in 1 .. Len(line') /\ Final(line'[i]) /\ OkAt(i + 1) /\ i + 1 \in Nat
        BY <1>5, <1>15 DEF OkAt, Final
  <2>2. st'.pending = st.pending
        BY <1>7, <2>1
  <2>   QED BY <1>2, <1>15, <2>1, <2>2 DEF EchoInv
<1>16. ASSUME st'.echo_disabled, modem'.echo
       PROVE  /\ st'.pending # None /\ st'.pending.op = "reboot"
              /\ \E i \in Nat : OkAt(i)'
  <2>1. ~Confirms(l, {"disable_echo"})
        BY <1>2, <1>8, <1>16 DEF EchoInv, Confirms
  <2>2. st.echo_disabled /\ ~Confirms(l, {"reboot"})
        BY <1>4, <1>16, <2>1 DEF LineEffect
  <2>3. /\ st.pending # None /\ st.pending.op = "reboot"
        /\ \E i \in Nat : OkAt(i)
        BY <1>2, <1>16, <2>2 DEF EchoInv
  <2>4. PICK i \in Nat : OkAt(i)
        BY <2>3
  <2>5. i # 1
        BY <1>3, <2>2, <2>3, <2>4 DEF OkAt, Confirms
  <2>6. ~Final(l)
        BY <1>1, <1>3, <1>6, <1>8, <2>4, <2>5 DEF LinesInv
  <2>7. st'.pending = st.pending
        BY <1>4, <2>6 DEF LineEffect
  <2>   QED BY <1>5, <2>3, <2>4, <2>5, <2>7
<1>   QED BY <1>10, <1>12, <1>13, <1>14, <1>15, <1>16 DEF EchoInv

\* The modem sends the answer to a command, or an announcement
LEMMA MoreLines ==
    ASSUME NEW p, DialogueInv(p), EchoInv, NEW ls \in Seq(LineSet), line' = line \o ls, st' = st,
           \/ /\ command # <<>> /\ modem.run = "up" /\ Reply(st.pending, ls)
              /\ st.pending.op # "reboot" /\ modem'.echo => modem.echo
              /\ st.pending.op = "disable_echo" /\ (\E i \in 1 .. Len(ls) : ls[i].kind = "OK")
                   => ~modem'.echo
              /\ st.pending.op = "reboot"
                   => \/ modem'.run # "up" /\ \E i \in 1 .. Len(ls) : ls[i].kind = "OK"
                      \/ modem' = modem /\ \A i \in 1 .. Len(ls) : ls[i].kind # "OK"
           \/ /\ modem'.echo = modem.echo /\ \A i \in 1 .. Len(ls) : ~Final(ls[i])
              /\ \/ modem'.run = modem.run
                 \/ \E i \in 1 .. Len(ls) : ls[i].kind = "RDY"
    PROVE  EchoInv'
<1>1. /\ line \in Seq(LineSet) /\ LinesInv /\ FlightInv
      BY DEF DialogueInv, DialogueType
<1>2. /\ Len(line') = Len(line) + Len(ls) /\ Len(line) \in Nat /\ Len(ls) \in Nat
      /\ \A i \in 1 .. Len(line) : line'[i] = line[i]
      /\ \A i \in 1 .. Len(ls) : line'[Len(line) + i] = ls[i]
      /\ \A i \in 1 .. Len(line') : i \notin 1 .. Len(line) =>
            i - Len(line) \in 1 .. Len(ls) /\ line'[i] = ls[i - Len(line)]
      BY <1>1, ConcatIs
<1>3. \A j \in Nat : /\ RdyAt(j) => RdyAt(j)' /\ j <= Len(line)
                     /\ OkAt(j) => OkAt(j)' /\ j <= Len(line)
                     /\ OkAt(j)' => \/ OkAt(j)
                                    \/ /\ j - Len(line) \in 1 .. Len(ls)
                                       /\ ls[j - Len(line)].kind = "OK"
      BY <1>2 DEF RdyAt, OkAt
<1>4. \A i \in 1 .. Len(ls) : \E k \in Nat : /\ k > Len(line)
                                             /\ ls[i].kind = "OK" => OkAt(k)'
                                             /\ ls[i].kind = "RDY" => RdyAt(k)'
  <2>1. ASSUME NEW i \in 1 .. Len(ls)
        PROVE  \E k \in Nat : /\ k > Len(line)
                              /\ ls[i].kind = "OK" => OkAt(k)'
                              /\ ls[i].kind = "RDY" => RdyAt(k)'
    <3>1. PICK k \in Nat : k = Len(line) + i
          BY <1>2
    <3>2. k \in 1 .. Len(line') /\ line'[k] = ls[i] /\ k > Len(line)
          BY <1>2, <3>1
    <3>   QED BY <3>2 DEF RdyAt, OkAt
  <2>   QED BY <2>1
<1>5. st.at_ok => st.rdy
      BY DEF EchoInv
<1>6. ~st.rdy => modem'.run # "up" \/ \E j \in Nat : RdyAt(j)'
  <2>1. CASE ~st.rdy /\ \E j \in Nat : RdyAt(j)
        BY <1>3, <1>4, <2>1
  <2>2. CASE ~st.rdy /\ modem.run # "up"
        BY <1>3, <1>4, <2>2
  <2>   QED BY <2>1, <2>2 DEF EchoInv
<1>7. CASE command # <<>> /\ modem.run = "up" /\ Reply(st.pending, ls)
           /\ (st.pending.op # "reboot" /\ modem'.echo => modem.echo)
           /\ (st.pending.op = "disable_echo" /\ (\E i \in 1 .. Len(ls) : ls[i].kind = "OK")
                   => ~modem'.echo)
           /\ (st.pending.op = "reboot"
                   => \/ modem'.run # "up" /\ \E i \in 1 .. Len(ls) : ls[i].kind = "OK"
                      \/ modem' = modem /\ \A i \in 1 .. Len(ls) : ls[i].kind # "OK")
  <2>1. (\A i \in 1 .. Len(line) : ~Final(line[i])) /\ st.pending # None
        BY <1>1, <1>7 DEF LinesInv, FlightInv, Awaited
  <2>2. \A j \in Nat : ~OkAt(j)
        BY <2>1 DEF OkAt, Final
  <2>3. ASSUME ~st.rdy, NEW i \in 1 .. Len(line'), Final(line'[i])
        PROVE  \E j \in 1 .. i - 1 : RdyAt(j)'
    <3>1. PICK j \in Nat : RdyAt(j)
          BY <1>7, <2>3 DEF EchoInv
    <3>2. i \notin 1 .. Len(line)
          BY <1>2, <2>1, <2>3
    <3>3. j \in 1 .. i - 1
          BY <1>2, <3>1, <3>2 DEF RdyAt
    <3>   QED BY <1>3, <1>4, <3>1, <3>3
  <2>4. \A i \in Nat : OkAt(i)' => \E k \in 1 .. Len(ls) : ls[k].kind = "OK"
        BY <1>3, <1>4, <2>2
  <2>5. st.pending.op = "reboot" /\ (\E k \in 1 .. Len(ls) : ls[k].kind = "OK")
          => modem'.run # "up" /\ \E i \in Nat : OkAt(i)'
        BY <1>3, <1>4, <1>7
  <2>6. st.echo_disabled => ~modem.echo
        BY <2>2 DEF EchoInv
  <2>7. st.echo_disabled /\ modem'.echo =>
          st.pending.op = "reboot" /\ \E i \in Nat : OkAt(i)'
        BY <1>7, <2>5, <2>6
  <2>   QED BY <1>5, <1>6, <1>7, <2>1, <2>3, <2>4, <2>5, <2>7 DEF EchoInv
<1>8. CASE /\ modem'.echo = modem.echo /\ \A i \in 1 .. Len(ls) : ~Final(ls[i])
           /\ \/ modem'.run = modem.run
              \/ \E i \in 1 .. Len(ls) : ls[i].kind = "RDY"
  <2>1. \A i \in Nat : OkAt(i)' => OkAt(i)
        BY <1>3, <1>4, <1>8 DEF Final
  <2>2. \A i \in 1 .. Len(line') : Final(line'[i]) => i \in 1 .. Len(line) /\ Final(line[i])
        BY <1>2, <1>8
  <2>3. ASSUME ~st.rdy, NEW i \in 1 .. Len(line'), Final(line'[i])
        PROVE  \E j \in 1 .. i - 1 : RdyAt(j)'
    <3>1. i \in 1 .. Len(line) /\ Final(line[i])
          BY <2>2, <2>3
    <3>2. PICK j \in 1 .. i - 1 : RdyAt(j)
          BY <2>3, <3>1 DEF EchoInv
    <3>   QED BY <1>2, <1>3, <1>4, <3>1, <3>2
  <2>4. ASSUME NEW i \in Nat, OkAt(i)', st.pending.op = "reboot"
        PROVE  modem'.run # "up" \/ \E j \in Nat : j > i /\ RdyAt(j)'
    <3>1. OkAt(i) /\ i <= Len(line)
          BY <1>3, <1>4, <2>1, <2>4
    <3>2. modem.run # "up" \/ \E j \in Nat : j > i /\ RdyAt(j)
          BY <2>4, <3>1 DEF EchoInv
    <3>3. ASSUME NEW k \in 1 .. Len(ls), ls[k].kind = "RDY"
          PROVE  \E j \in Nat : j > i /\ RdyAt(j)'
      <4>1. PICK j \in Nat : j > Len(line) /\ RdyAt(j)'
            BY <1>3, <1>4, <3>3
      <4>2. j > i
            BY <1>2, <3>1, <4>1
      <4>   QED BY <4>1, <4>2
    <3>   QED BY <1>3, <1>4, <1>8, <3>2, <3>3
  <2>5. \A i \in Nat : OkAt(i)' /\ st.pending.op = "disable_echo" => ~modem'.echo
        BY <1>8, <2>1 DEF EchoInv
  <2>6. st.echo_disabled => \/ ~modem'.echo
                            \/ /\ st.pending # None /\ st.pending.op = "reboot"
                               /\ \E i \in Nat : OkAt(i)'
        BY <1>3, <1>4, <1>8 DEF EchoInv
  <2>   QED BY <1>5, <1>6, <2>3, <2>4, <2>5, <2>6 DEF EchoInv
<1>   QED BY <1>7, <1>8

LEMMA ModemAnswersEcho ==
    ASSUME NEW p, DialogueInv(p), EchoInv, ModemAnswers
    PROVE  EchoInv'
<1>1. /\ DialogueType(p) /\ StatusType /\ FlightInv /\ LinesInv
      BY DEF DialogueInv, DialogueType
<1>2. /\ command # <<>> /\ command = <<st.pending>> /\ st' = st
      /\ st.pending \in Commands /\ st.pending.op \notin CallOps /\ ForEntry(st.pending)
      BY <1>1 DEF ModemAnswers, LinesInv, FlightInv, Awaited, StatusType
<1>3. CASE modem.run = "up"
  <2>1. Respond(st.pending) /\ ModemType
        BY <1>1, <1>2, <1>3 DEF ModemAnswers, DialogueType
  <2>2. Reacts(st.pending)
        BY <1>2, <2>1, RespondIs
  <2>3. PICK ls \in Seq(LineSet) :
           /\ line' = line \o ls /\ Reply(st.pending, ls)
           /\ st.pending.op = "reboot" => \E i \in 1 .. Len(ls) : ls[i].kind = "OK"
        BY <1>2, <2>1, RespondIs
  <2>   QED BY <1>2, <1>3, <2>2, <2>3, MoreLines DEF Reacts
<1>4. CASE modem.run # "up"
  <2>1. modem' = modem /\ line' = line
        BY <1>4 DEF ModemAnswers
  <2>   QED BY <1>2, <2>1 DEF EchoInv, RdyAt, OkAt
<1>   QED BY <1>3, <1>4

LEMMA ModemEcho ==
    ASSUME NEW p, DialogueInv(p), EchoInv, ModemNext
    PROVE  EchoInv'
<1>1. /\ DialogueType(p) /\ FlightInv /\ LinesInv /\ ModemType
      /\ line \in Seq(LineSet) /\ command \in Seq(Commands) /\ left.calls = 0
      /\ modem.call = None
      BY DEF DialogueInv, DialogueType, ModemType
<1>2. CASE ModemRefuses
  <2>   DEFINE cmd == Head(command)
               l == Line("ERROR", None, cmd.op)
               ls == <<l>>
  <2>1. /\ command # <<>> /\ modem.run = "up" /\ st' = st /\ modem' = modem
        /\ line' = line \o ls
        BY <1>2 DEF ModemRefuses, Sends
  <2>2. cmd = st.pending /\ cmd \in Commands
        BY <1>1, <2>1 DEF LinesInv
  <2>3. ls \in Seq(LineSet) /\ Reply(st.pending, ls) /\ l.kind = "ERROR"
        BY <2>2, RefusalIs DEF Line
  <2>   HIDE DEF l
  <2>4. \A i \in 1 .. Len(ls) : ls[i].kind # "OK"
        BY <2>3
  <2>   HIDE DEF ls
  <2>   QED BY <2>1, <2>3, <2>4, MoreLines
<1>3. CASE ModemBoots
  <2>   DEFINE l == Line("RDY", None, None)
               ls == <<l>>
  <2>1. st' = st /\ modem' = [modem EXCEPT !.run = "up"] /\ line' = line \o ls
        BY <1>3 DEF ModemBoots, Sends
  <2>2. l \in LineSet /\ l.kind = "RDY" /\ ~Final(l)
        BY DEF Line, LineSet, LineKinds, Final
  <2>   HIDE DEF l
  <2>3. /\ ls \in Seq(LineSet) /\ \A i \in 1 .. Len(ls) : ~Final(ls[i])
        /\ \E i \in 1 .. Len(ls) : ls[i].kind = "RDY"
        BY <2>2
  <2>   HIDE DEF ls
  <2>4. modem'.echo = modem.echo
        BY <1>1, <2>1 DEF ModemType
  <2>   QED BY <2>1, <2>3, <2>4, MoreLines
<1>4. CASE SimAvailable
  <2>1. st' = st /\ line' = line /\ modem'.run = modem.run /\ modem'.echo = modem.echo
        BY <1>1, <1>4 DEF SimAvailable, ModemType
  <2>   QED BY <2>1 DEF EchoInv, RdyAt, OkAt
<1>5. ~(\/ \E n \in Numbers : RemoteCalls(n)
        \/ RingsAgain \/ RemotePicksUp \/ RemoteHangsUp)
      BY <1>1 DEF RemoteCalls, RingsAgain, RemotePicksUp, RemoteHangsUp
<1>   QED BY <1>2, <1>3, <1>4, <1>5, ModemAnswersEcho DEF ModemNext

LEMMA ApplyConfigEcho ==
    ASSUME NEW p \in Pins, DialogueInv(p), OneCfg(config, p), EchoInv, ApplyConfig
    PROVE  EchoInv'
<1>1. CASE st' = st
      BY <1>1, ApplyConfigIs DEF EchoInv, RdyAt, OkAt
<1>2. CASE Submission
  <2>1. /\ \A f \in {"at_ok", "echo_disabled", "rdy"} : st'[f] = st[f]
    <3>1. StatusType
          BY DEF DialogueInv, DialogueType
    <3>   QED BY <1>2, <3>1, CommandSubmittedIs DEF Submission
  <2>2. line' = line /\ modem' = modem
        BY <1>2 DEF Submission
  <2>3. \A i \in 1 .. Len(line) : ~Final(line[i])
        BY <1>2, CommandIs DEF Awaited
  <2>4. \A i \in Nat : ~OkAt(i)
        BY <2>3 DEF OkAt, Final
  <2>   QED BY <2>1, <2>2, <2>3, <2>4 DEF EchoInv, RdyAt, OkAt
<1>   QED BY <1>1, <1>2, ApplyConfigIs DEF Submission

LEMMA EchoStep ==
    ASSUME NEW p, OnePin(p), Slow = {}, DialogueInv(p), EchoInv, [Next]_vars
    PROVE  EchoInv'
<1>1. p \in Pins /\ OneCfg(config, p)
      BY DEF OnePin, DialogueInv, DialogueType
<1>2. CASE ReadLine
      BY <1>2, ReadLineEcho
<1>3. CASE ApplyConfig
      BY <1>1, <1>3, ApplyConfigEcho
<1>4. ASSUME NEW timeout \in BOOLEAN, HandleTimer(timeout) PROVE EchoInv'
  <2>1. /\ line = <<>> /\ line' = line /\ modem' = modem
        BY <1>4 DEF HandleTimer, TimerPossible
  <2>2. DOMAIN st = StatusMembers /\ ct.outbound = None
        BY DEF DialogueInv, DialogueType, StatusType, ControlType
  <2>3. /\ st'.rdy = st.rdy /\ st'.echo_disabled = st.echo_disabled
        /\ st'.at_ok => st.at_ok
    <3>1. CASE ~timeout
          BY <1>4, <2>2, <3>1 DEF HandleTimer, InvalidateCallList
    <3>2. CASE timeout
      <4>1. st' = [ResetCommand(st) EXCEPT !.at_ok = FALSE]
            BY <1>4, <2>2, <3>2 DEF HandleTimer, InvalidateCallList
      <4>   QED BY <2>2, <4>1 DEF ResetCommand, StatusMembers
    <3>   QED BY <3>1, <3>2
  <2>4. \A i \in Nat : ~OkAt(i)
        BY <2>1 DEF OkAt
  <2>   QED BY <2>1, <2>3, <2>4 DEF EchoInv, RdyAt, OkAt
<1>5. CASE \E cfg \in Configs : SetConfig(cfg)
      BY <1>5 DEF SetConfig, EchoInv, RdyAt, OkAt
<1>6. CASE ModemNext
      BY <1>6, ModemEcho
<1>7. CASE UNCHANGED vars
      BY <1>7 DEF vars, EchoInv, RdyAt, OkAt
<1>   QED BY <1>2, <1>3, <1>4, <1>5, <1>6, <1>7 DEF Next, DriverNext

\* Only with the echo disabled is another command submitted
LEMMA SubmitsQuietly ==
    ASSUME NEW p, OnePin(p), DialogueInv(p), EchoInv, [Next]_vars,
           Submits(Ops \ {"check_ready", "disable_echo"})
    PROVE  ~modem.echo
<1>1. p \in Pins /\ OneCfg(config, p) /\ command \in Seq(Commands)
      BY DEF OnePin, DialogueInv, DialogueType
<1>2. Submission
  <2>1. Len(command') > Len(command)
        BY DEF Submits
  <2>2. ~UNCHANGED command /\ ~(command # <<>> /\ command' = Tail(command))
        BY <1>1, <2>1
  <2>3. ApplyConfig
        BY <2>2 DEF vars, Next, DriverNext, ReadLine, HandleTimer, SetConfig, ModemNext,
                    ModemAnswers, ModemRefuses, ModemBoots, SimAvailable, RemoteCalls,
                    RingsAgain, RemotePicksUp, RemoteHangsUp
  <2>   QED BY <2>2, <2>3, ApplyConfigIs DEF Submission
<1>3. /\ ~Awaited /\ command' = <<Command>>
      /\ RulesResult(Prepared, Applied, p) /\ ControlType(Applied, p)
      BY <1>1, <1>2, CommandIs
<1>4. NextOp \notin {"check_ready", "disable_echo"}
  <2>1. Sent = Command
        BY <1>3 DEF Sent, Last
  <2>   QED BY <2>1 DEF Submits, Command
<1>   DEFINE i == NextPending(Applied)
<1>5. /\ i \in 1 .. 14 /\ NextOp = Operations[i]
      /\ \A j \in 1 .. 14 : j < i => ~Waits(Applied, Operations[j])
      BY <1>2, NextPendingIs DEF Submission, NextOp
<1>   HIDE DEF i
<1>6. ~Waits(Applied, "check_ready") /\ ~Waits(Applied, "disable_echo")
  <2>1. i # 1 /\ i # 2
        BY <1>4, <1>5, OperationsAre
  <2>2. 1 \in 1 .. 14 /\ 2 \in 1 .. 14 /\ 1 < i /\ 2 < i
        BY <1>5, <2>1
  <2>   QED BY <1>5, <2>2, OperationsAre
<1>7. \A o \in Ops : ~Submitted(Applied, o)
      BY <1>2 DEF Submission, SubmitAllowed, InFlight
<1>8. \A o \in {"check_ready", "disable_echo"} : ~Constructed(Applied, o)
      BY <1>3, <1>6, <1>7, OpsAre DEF ControlType, OpStates, Waits, Submitted, Constructed
<1>9. st.echo_disabled
  <2>1. CASE Submitted(Applied, "reboot") \/ Constructed(Applied, "disable_echo")
        BY <1>7, <1>8, <2>1, OpsAre
  <2>2. CASE /\ Applied.op["check_ready"] = Prepared.op["check_ready"]
             /\ ~st.rdy \/ ~st.at_ok
    <3>1. ~Constructed(Prepared, "check_ready")
          BY <1>8, <2>2 DEF Constructed
    <3>2. Constructed(Prepared, "check_ready") <=> ~st.at_ok
          BY <1>1, AppliedIs DEF DialogueInv, DialogueType, StatusType
    <3>   QED BY <2>2, <3>1, <3>2 DEF EchoInv
  <2>   QED BY <1>3, <2>1, <2>2 DEF RulesResult
<1>10. \A k \in Nat : ~OkAt(k)
       BY <1>3 DEF Awaited, OkAt, Final
<1>   QED BY <1>9, <1>10 DEF EchoInv

\* Whatever reboots and refusals happen, only AT and ATE0 reach a modem that echoes
\* (control.h:503).
THEOREM EchoStaysOff ==
    ASSUME OnePromptUser PROVE Spec => EchoOff
<1>1. PICK p \in Pins : OnePin(p)
  <2>1. PICK p \in Pins : \A c \in Configs : c.pin \in {None, p} /\ c.call = None
        BY DEF OnePromptUser
  <2>   QED BY <2>1 DEF OnePin, OneCfg
<1>2. Slow = {} /\ MaxCalls = 0
      BY DEF OnePromptUser
<1>   DEFINE Inv == DialogueInv(p) /\ EchoInv
<1>3. Init => Inv
  <2>1. Init => EchoInv
        BY DEF Init, InitStatus, EchoInv, OkAt
  <2>   QED BY <1>2, <2>1, DialogueInit
<1>4. Inv /\ [Next]_vars => Inv'
      BY <1>1, <1>2, DialogueStep, EchoStep
<1>5. Inv /\ [Next]_vars
        => [Submits(Ops \ {"check_ready", "disable_echo"}) => ~modem.echo]_vars
      BY <1>1, SubmitsQuietly
<1>   HIDE DEF Inv
<1>   QED BY <1>3, <1>4, <1>5, PTL DEF Spec, EchoOff

-------------------------------------------------------------------------------
(* The SIM card: the PINs and the reboots that lie ahead *)

\* What the driver knows of the settings is true, or will be once the line is read
SettingsInv ==
    /\ \A e \in Entries : /\ st.qcfg[e] \in QcfgStates
                          /\ st.qcfg[e] \in {"CONFIRMED", "MODIFIED"} => modem.setting[e]
    /\ \A i \in 1 .. Len(line) :
          /\ line[i].kind = "QCFG" => line[i].arg[2] = modem.setting[line[i].arg[1]]
          /\ line[i].kind = "OK" /\ st.pending.op = "assign_qcfg"
               => modem.setting[st.pending.arg]

\* A modem boots because it was told to, or because it was switched on, which the
\* driver has not noticed or is about to notice
BootInv ==
    modem.run = "boot" =>
        \/ /\ \A e \in Entries : st.qcfg[e] = "UNKNOWN"
           /\ \A i \in 1 .. Len(line) : ~Final(line[i]) /\ line[i].kind # "QCFG"
        \/ /\ st.pending # None /\ st.pending.op = "reboot"
           /\ \E i \in 1 .. Len(line) : line[i].kind = "OK"

\* Some setting is not, or not yet effectively, as configured
Dirty == \/ \E e \in Entries : ~modem.setting[e]
         \/ InState("MISMATCH") # {} \/ InState("MODIFIED") # {}
         \/ Constructed(ct, "assign_qcfg")

\* A reboot that has been constructed is needed until the modem has confirmed it
RebootInv ==
    /\ st.pending # None => \A o \in Ops : Submitted(ct, o) => o = st.pending.op
    /\ st.ok => st.pending = None
    /\ Constructed(ct, "reboot") =>
          IF Submitted(ct, "reboot") /\ st.ok THEN ~Dirty ELSE RebootNeeded
    /\ Submitted(ct, "reboot") /\ st.pending # None => Awaited \/ modem.run = "off"

\* The PIN may still be wrong and cost an attempt; so it may after a reboot
PinAhead == \/ ct.current_pin = None \/ Waits(ct, "set_pin")
            \/ command # <<>> /\ command[1].op = "set_pin"
RebootAhead == Dirty /\ ~Constructed(ct, "reboot")

\* There is an attempt for each PIN that may be submitted, and one that is kept
TriesInv ==
    \/ modem.run = "off"
    \/ /\ modem.tries >= 1
       /\ PinAhead \/ RebootAhead => modem.tries >= 2
       /\ PinAhead /\ RebootAhead => modem.tries >= 3

PinInv == SettingsInv /\ BootInv /\ RebootInv /\ TriesInv /\ SimNotBlocked

LEMMA PreparedIs ==
    ASSUME NEW p, ControlType(ct, p)
    PROVE  /\ Prepared.current_pin = ct.current_pin
           /\ \A o \in Ops \ {"check_ready"} :
                 \/ Prepared.op[o] = ct.op[o]
                 \/ Prepared.op[o] = None /\ st.ok /\ Submitted(ct, o)
<1>   DEFINE b == CompleteOperation(ct)
             d == Conditional(b, "check_ready", ~st.at_ok)
<1>1. Formed(ct) /\ "check_ready" \in Ops
      BY OpsAre DEF ControlType, Formed
<1>2. /\ Formed(b) /\ b.current_pin = ct.current_pin
      /\ \A o \in Ops : \/ b.op[o] = ct.op[o]
                        \/ b.op[o] = None /\ st.ok /\ Submitted(ct, o)
  <2>1. CASE b = ct
        BY <1>1, <2>1
  <2>2. ASSUME st.ok, NEW q \in Ops, Submitted(ct, q), b = Destruct(ct, q)
        PROVE  /\ Formed(b) /\ b.current_pin = ct.current_pin
               /\ \A o \in Ops : \/ b.op[o] = ct.op[o]
                                 \/ b.op[o] = None /\ st.ok /\ Submitted(ct, o)
    <3>1. Only(ct, b, {q}) /\ b.op[q] = None /\ b.current_pin = ct.current_pin
          BY <1>1, <2>2, DestructIs
    <3>   QED BY <2>2, <3>1, OnlyFormed DEF Only
  <2>   QED BY <2>1, <2>2, CompleteIs
<1>   HIDE DEF b
<1>3. Only(b, d, {"check_ready"}) /\ d.current_pin = b.current_pin
      BY <1>1, <1>2, ConditionalIs
<1>4. Prepared = d
      BY DEF Prepared, b
<1>   HIDE DEF d
<1>5. \A o \in Ops \ {"check_ready"} : d.op[o] = b.op[o]
      BY <1>3 DEF Only
<1>   QED BY <1>2, <1>3, <1>4, <1>5

LEMMA AppliedQuiet ==
    ASSUME NEW p, ControlType(ct, p)
    PROVE  \A o \in Ops : Submitted(Applied, o) => Submitted(ct, o)
<1>1. Shape(ct)
      BY DEF Shape, ControlType, Members
<1>2. Quiet(ct, CompleteOperation(ct)) /\ Shape(CompleteOperation(ct))
      BY <1>1, CompleteQuiet DEF Quiet
<1>3. Quiet(CompleteOperation(ct), Prepared) /\ Shape(Prepared)
      BY <1>2, ConditionalQuiet DEF Quiet, Prepared
<1>4. Quiet(Prepared, Applied)
      BY <1>3, RulesQuiet DEF Applied
<1>5. Quiet(ct, Applied)
      BY <1>2, <1>3, <1>4, QuietTransitive
<1>   QED BY <1>5 DEF Quiet

\* What the rules do about the reboot and the PIN
LEMMA AppliedPin ==
    ASSUME NEW p \in Pins, DialogueInv(p), OneCfg(config, p), RebootInv
    PROVE  /\ Constructed(Applied, "assign_qcfg")
                => Constructed(ct, "assign_qcfg") \/ InState("MISMATCH") # {}
           /\ Constructed(Applied, "reboot") =>
                IF Submitted(Applied, "reboot") /\ st.ok THEN ~Dirty ELSE RebootNeeded
           /\ Dirty /\ ~Constructed(Applied, "reboot") => ~Constructed(ct, "reboot")
           /\ ct.current_pin # None /\ ~Waits(ct, "set_pin") =>
                \/ Applied.current_pin # None /\ ~Waits(Applied, "set_pin")
                \/ Constructed(Applied, "reboot") /\ RebootAhead
<1>1. ControlType(ct, p) /\ RulesInv(ct) /\ st.current_call = None
      BY DEF DialogueInv, DialogueType, StatusType
<1>2. RulesResult(Prepared, Applied, p)
      BY <1>1, AppliedIs
<1>3. /\ Prepared.current_pin = ct.current_pin
      /\ \A o \in {"reboot", "assign_qcfg", "set_pin"} :
            /\ \/ Prepared.op[o] = ct.op[o]
               \/ Prepared.op[o] = None /\ st.ok /\ Submitted(ct, o)
            /\ Submitted(Applied, o) => Submitted(ct, o)
  <2>1. {"reboot", "assign_qcfg", "set_pin"} \subseteq Ops \ {"check_ready"}
        BY OpsAre
  <2>   QED BY <1>1, <2>1, PreparedIs, AppliedQuiet
<1>4. Dirty /\ Constructed(ct, "reboot") => Prepared.op["reboot"] = ct.op["reboot"]
      BY <1>3 DEF RebootInv
<1>5. RebootNeeded => Dirty
      BY DEF RebootNeeded, Dirty
<1>6. Constructed(Applied, "assign_qcfg")
        => Constructed(ct, "assign_qcfg") \/ InState("MISMATCH") # {}
      BY <1>2, <1>3 DEF RulesResult, Constructed
<1>7. Constructed(Applied, "reboot") =>
         IF Submitted(Applied, "reboot") /\ st.ok THEN ~Dirty ELSE RebootNeeded
  <2>1. CASE ~Constructed(Prepared, "reboot") /\ RebootNeeded
    <3>1. ~(Submitted(ct, "reboot") /\ st.ok)
          BY <1>5, <2>1 DEF RebootInv, Submitted
    <3>   QED BY <1>3, <2>1, <3>1
  <2>2. CASE Applied.op["reboot"] = Prepared.op["reboot"]
        BY <1>3, <2>2 DEF RebootInv, Constructed, Submitted
  <2>   QED BY <1>2, <2>1, <2>2 DEF RulesResult
<1>8. Dirty /\ ~Constructed(Applied, "reboot") => ~Constructed(ct, "reboot")
      BY <1>2, <1>4 DEF RulesResult, Constructed
<1>9. ASSUME ct.current_pin # None, ~Waits(ct, "set_pin")
      PROVE  \/ Applied.current_pin # None /\ ~Waits(Applied, "set_pin")
             \/ Constructed(Applied, "reboot") /\ RebootAhead
  <2>1. CASE ~Constructed(Prepared, "reboot") /\ RebootNeeded
        BY <1>2, <1>4, <1>5, <2>1 DEF RulesResult, RebootAhead, Constructed
  <2>2. CASE PinKept(Prepared, Applied)
        BY <1>3, <1>9, <2>2 DEF PinKept, Waits, Constructed
  <2>   QED BY <1>2, <2>1, <2>2 DEF RulesResult
<1>   QED BY <1>6, <1>7, <1>8, <1>9

LEMMA ApplyConfigPin ==
    ASSUME NEW p \in Pins, DialogueInv(p), OneCfg(config, p), PinInv, ApplyConfig
    PROVE  PinInv'
<1>1. /\ StatusType /\ ModemType /\ ControlType(ct, p)
      /\ SettingsInv /\ BootInv /\ RebootInv /\ TriesInv /\ SimNotBlocked
      BY DEF DialogueInv, DialogueType, PinInv
<1>2. /\ Constructed(Applied, "assign_qcfg")
           => Constructed(ct, "assign_qcfg") \/ InState("MISMATCH") # {}
      /\ Constructed(Applied, "reboot") =>
           IF Submitted(Applied, "reboot") /\ st.ok THEN ~Dirty ELSE RebootNeeded
      /\ Dirty /\ ~Constructed(Applied, "reboot") => ~Constructed(ct, "reboot")
      /\ ct.current_pin # None /\ ~Waits(ct, "set_pin") =>
           \/ Applied.current_pin # None /\ ~Waits(Applied, "set_pin")
           \/ Constructed(Applied, "reboot") /\ RebootAhead
      BY <1>1, AppliedPin
<1>3. \A o \in Ops : Submitted(Applied, o) => Submitted(ct, o)
      BY <1>1, AppliedQuiet
<1>4. line' = line /\ modem' = modem
      BY ApplyConfigIs
<1>5. {"reboot", "assign_qcfg", "set_pin"} \subseteq Ops
      BY OpsAre
<1>6. CASE ct' = Applied /\ st' = st /\ command' = command
  <2>1. SettingsInv' /\ BootInv'
        BY <1>1, <1>4, <1>6 DEF SettingsInv, BootInv
  <2>2. /\ InState("MISMATCH")' = InState("MISMATCH")
        /\ InState("MODIFIED")' = InState("MODIFIED")
        /\ RebootNeeded' = RebootNeeded /\ Awaited' = Awaited
        BY <1>4, <1>6 DEF InState, RebootNeeded, Awaited
  <2>3. Dirty' => Dirty
        BY <1>2, <1>4, <1>6, <2>2 DEF Dirty
  <2>4. RebootInv'
        BY <1>1, <1>2, <1>3, <1>4, <1>5, <1>6, <2>2, <2>3 DEF RebootInv
  <2>5. TriesInv'
        BY <1>1, <1>2, <1>4, <1>6, <2>3 DEF TriesInv, PinAhead, RebootAhead, ModemType
  <2>   QED BY <1>1, <1>4, <2>1, <2>4, <2>5 DEF PinInv, SimNotBlocked
<1>7. CASE Submission
  <2>   DEFINE o == NextOp
  <2>1. /\ ~Awaited /\ command' = <<Command>> /\ Command.op = o
        /\ Formed(Applied) /\ ControlType(Applied, p) /\ o \in Ops /\ Waits(Applied, o)
        BY <1>7, CommandIs DEF Command
  <2>2. ct' = [Applied EXCEPT !.op[o].state = "SUBMITTED"] /\ st' = CommandSubmitted(st, Command)
        BY <1>7 DEF Submission
  <2>3. /\ Only(Applied, ct', {o}) /\ ct'.current_pin = Applied.current_pin
        /\ Submitted(ct', o) /\ ~Waits(ct', o)
    <3>1. Applied.op[o] \in OpStates /\ Constructed(Applied, o)
          BY <2>1 DEF ControlType, Waits
    <3>   HIDE DEF o
    <3>2. /\ Only(Applied, ct', {o}) /\ ct'.current_pin = Applied.current_pin
          /\ ct'.op[o] = [state |-> "SUBMITTED", arg |-> Applied.op[o].arg]
          BY <2>1, <2>2, <3>1, SubmitIs
    <3>3. ct'.op[o] # None
          BY <3>1, <3>2, NoneAssumption DEF OpStates, Constructed
    <3>   QED BY <3>2, <3>3 DEF Submitted, Constructed, Waits
  <2>4. \A q \in Ops : ~Submitted(Applied, q)
        BY <1>7 DEF Submission, SubmitAllowed, InFlight
  <2>   HIDE DEF o
  <2>5. /\ \A q \in Ops \ {o} : ct'.op[q] = Applied.op[q]
        /\ \A q \in Ops : Constructed(ct', q) <=> Constructed(Applied, q)
        /\ \A q \in Ops : Submitted(ct', q) <=> q = o
        /\ \A q \in Ops : Waits(ct', q) => Waits(Applied, q)
        BY <2>1, <2>3, <2>4 DEF Only, Constructed, Submitted, Waits
  <2>6. st'.qcfg = st.qcfg /\ st'.pending = Command /\ ~st'.ok
        BY <1>1, <2>2, CommandSubmittedIs
  <2>7. \A i \in 1 .. Len(line) : ~Final(line[i]) /\ line[i].kind # "OK"
        BY <2>1 DEF Awaited, Final
  <2>8. SettingsInv' /\ BootInv'
        BY <1>1, <1>4, <2>6, <2>7 DEF SettingsInv, BootInv
  <2>9. /\ InState("MISMATCH")' = InState("MISMATCH")
        /\ InState("MODIFIED")' = InState("MODIFIED")
        /\ RebootNeeded' = RebootNeeded /\ Awaited'
        BY <2>1, <2>6 DEF InState, RebootNeeded, Awaited
  <2>10. Dirty' => Dirty
         BY <1>2, <1>4, <1>5, <2>5, <2>9 DEF Dirty
  <2>11. RebootInv'
         BY <1>2, <1>5, <2>1, <2>4, <2>5, <2>6, <2>9 DEF RebootInv
  <2>12. PinAhead' => \/ PinAhead
                      \/ Constructed(Applied, "reboot") /\ RebootAhead
    <3>1. command'[1].op = "set_pin" => Waits(Applied, "set_pin")
          BY <2>1
    <3>   QED BY <1>2, <1>5, <2>1, <2>3, <2>5, <3>1 DEF PinAhead
  <2>13. RebootAhead' => RebootAhead /\ ~Constructed(Applied, "reboot")
         BY <1>2, <1>5, <2>5, <2>10 DEF RebootAhead
  <2>14. TriesInv'
         BY <1>1, <1>4, <2>12, <2>13 DEF TriesInv, ModemType
  <2>   QED BY <1>1, <1>4, <2>8, <2>11, <2>14 DEF PinInv, SimNotBlocked
<1>   QED BY <1>6, <1>7, ApplyConfigIs DEF Submission

LEMMA ReadLinePin ==
    ASSUME NEW p, DialogueInv(p), PinInv, ReadLine
    PROVE  PinInv'
<1>   DEFINE l == Head(line)
<1>1. /\ StatusType /\ ModemType /\ ControlType(ct, p) /\ RulesInv(ct) /\ FlightInv /\ LinesInv
      /\ SettingsInv /\ BootInv /\ RebootInv /\ TriesInv /\ SimNotBlocked
      /\ line \in Seq(LineSet) /\ line # <<>>
      BY DEF DialogueInv, DialogueType, PinInv, ReadLine
<1>2. /\ st' = ApplyLine(st, l) /\ line' = Tail(line)
      /\ modem' = modem /\ ct' = ct /\ command' = command
      BY DEF ReadLine
<1>3. /\ Len(line) \in Nat /\ Len(line) >= 1 /\ Len(line') = Len(line) - 1
      /\ l = line[1] /\ l \in LineSet
      /\ \A i \in 1 .. Len(line') : i + 1 \in 1 .. Len(line) /\ line'[i] = line[i + 1]
      /\ \A i \in 1 .. Len(line) : i # 1 => i - 1 \in 1 .. Len(line') /\ line'[i - 1] = line[i]
      BY <1>1, <1>2, TailIs
<1>   HIDE DEF l
<1>4. LineEffect(l, st')
      BY <1>1, <1>2, <1>3, ApplyLineIs DEF l
<1>5. 1 \in 1 .. Len(line)
      BY <1>3
<1>6. \A i \in 1 .. Len(line') : Final(line'[i]) => ~Final(l) /\ st'.pending = st.pending
  <2>1. ASSUME NEW i \in 1 .. Len(line'), Final(line'[i])
        PROVE  ~Final(l) /\ st'.pending = st.pending
    <3>1. i + 1 \in 1 .. Len(line) /\ Final(line[i + 1]) /\ i + 1 # 1
          BY <1>3, <2>1
    <3>2. ~Final(l)
          BY <1>1, <1>3, <1>5, <3>1 DEF LinesInv
    <3>   QED BY <1>4, <3>2 DEF LineEffect
  <2>   QED BY <2>1
<1>7. Final(l) => /\ st.pending # None /\ Submitted(ct, st.pending.op) /\ ~st.ok
                  /\ st.pending \in Commands /\ ForEntry(st.pending)
      BY <1>1, <1>3, <1>5 DEF FlightInv, Awaited, StatusType, Held
<1>8. l.kind = "QCFG" => /\ l.arg[1] \in Entries /\ l.arg[2] \in BOOLEAN
                         /\ l.arg[2] = modem.setting[l.arg[1]]
                         /\ Constructed(ct, "query_qcfg") /\ ~Final(l)
  <2>1. SUFFICES ASSUME l.kind = "QCFG"
                 PROVE  /\ l.arg[1] \in Entries /\ l.arg[2] \in BOOLEAN
                        /\ l.arg[2] = modem.setting[l.arg[1]]
                        /\ Constructed(ct, "query_qcfg") /\ ~Final(l)
        OBVIOUS
  <2>2. l.arg[1] \in Entries /\ l.arg[2] \in BOOLEAN
        BY <1>3, <2>1 DEF LineSet, Settings
  <2>3. l.arg[2] = modem.setting[l.arg[1]]
        BY <1>1, <1>3, <1>5, <2>1 DEF SettingsInv
  <2>4. st.pending.op = "query_qcfg" /\ Awaited
        BY <1>1, <1>3, <1>5, <2>1 DEF LinesInv, Awaited
  <2>5. Constructed(ct, "query_qcfg")
        BY <1>1, <2>4 DEF FlightInv, Submitted
  <2>   QED BY <2>1, <2>2, <2>3, <2>5 DEF Final
\* What the line tells about the settings
<1>   DEFINE Forgotten == Confirms(l, {"reboot"}) /\ \A e \in Entries : st'.qcfg[e] = "UNKNOWN"
             Assigned == /\ Confirms(l, {"assign_qcfg"}) /\ st.pending.arg \in Entries
                         /\ Constructed(ct, "assign_qcfg") /\ modem.setting[st.pending.arg]
                         /\ \A e \in Entries :
                               st'.qcfg[e] = IF e = st.pending.arg THEN "MODIFIED" ELSE st.qcfg[e]
             Told == /\ l.kind = "QCFG"
                     /\ \A e \in Entries :
                           st'.qcfg[e] = IF e # l.arg[1] THEN st.qcfg[e]
                                         ELSE IF modem.setting[e] THEN "CONFIRMED" ELSE "MISMATCH"
             Unchanged == l.kind # "QCFG" /\ st'.qcfg = st.qcfg
<1>9. Forgotten \/ Assigned \/ Told \/ Unchanged
  <2>1. CASE Confirms(l, {"reboot"})
        BY <1>4, <2>1 DEF LineEffect
  <2>2. CASE Confirms(l, {"assign_qcfg"})
    <3>1. l.kind = "OK" /\ Final(l) /\ st.pending.op = "assign_qcfg"
          BY <2>2 DEF Confirms, Final
    <3>2. st.pending.arg \in Entries /\ Constructed(ct, "assign_qcfg")
          BY <1>7, <3>1 DEF ForEntry, Submitted
    <3>3. modem.setting[st.pending.arg]
          BY <1>1, <1>3, <1>5, <3>1 DEF SettingsInv
    <3>4. st'.qcfg = [st.qcfg EXCEPT ![st.pending.arg] = "MODIFIED"]
          BY <1>4, <2>2, <3>1 DEF LineEffect, Confirms
    <3>5. DOMAIN st.qcfg = Entries
          BY <1>1 DEF StatusType
    <3>   QED BY <2>2, <3>2, <3>3, <3>4, <3>5
  <2>3. CASE l.kind = "QCFG"
    <3>1. st'.qcfg = [st.qcfg EXCEPT ![l.arg[1]] = IF l.arg[2] THEN "CONFIRMED" ELSE "MISMATCH"]
          BY <1>4, <2>3 DEF LineEffect, Confirms
    <3>2. DOMAIN st.qcfg = Entries
          BY <1>1 DEF StatusType
    <3>   QED BY <1>8, <2>3, <3>1, <3>2
  <2>4. CASE l.kind # "QCFG" /\ ~Confirms(l, {"reboot"}) /\ ~Confirms(l, {"assign_qcfg"})
        BY <1>4, <2>4 DEF LineEffect
  <2>   QED BY <2>1, <2>2, <2>3, <2>4
<1>10. SettingsInv'
  <2>1. \A e \in Entries : /\ st'.qcfg[e] \in QcfgStates
                           /\ st'.qcfg[e] \in {"CONFIRMED", "MODIFIED"} => modem.setting[e]
        BY <1>1, <1>9 DEF SettingsInv, QcfgStates
  <2>2. ASSUME NEW i \in 1 .. Len(line')
        PROVE  /\ line'[i].kind = "QCFG" => line'[i].arg[2] = modem.setting[line'[i].arg[1]]
               /\ line'[i].kind = "OK" /\ st'.pending.op = "assign_qcfg"
                    => modem.setting[st'.pending.arg]
    <3>1. line'[i].kind = "OK" => st'.pending = st.pending
          BY <1>6 DEF Final
    <3>2. i + 1 \in 1 .. Len(line) /\ line'[i] = line[i + 1]
          BY <1>3
    <3>   QED BY <1>1, <3>1, <3>2 DEF SettingsInv
  <2>   QED BY <1>2, <2>1, <2>2 DEF SettingsInv
<1>11. BootInv'
  <2>1. CASE /\ \A e \in Entries : st.qcfg[e] = "UNKNOWN"
             /\ \A i \in 1 .. Len(line) : ~Final(line[i]) /\ line[i].kind # "QCFG"
    <3>1. ~Final(l) /\ l.kind # "QCFG"
          BY <1>3, <1>5, <2>1
    <3>2. st'.qcfg = st.qcfg
          BY <1>9, <3>1 DEF Confirms, Final
    <3>3. \A i \in 1 .. Len(line') : ~Final(line'[i]) /\ line'[i].kind # "QCFG"
          BY <1>3, <2>1
    <3>   QED BY <2>1, <3>2, <3>3 DEF BootInv
  <2>2. ASSUME st.pending # None, st.pending.op = "reboot",
               NEW i \in 1 .. Len(line), line[i].kind = "OK"
        PROVE  BootInv'
    <3>1. CASE i = 1
      <4>1. Confirms(l, {"reboot"}) /\ Final(l)
            BY <1>3, <2>2, <3>1 DEF Confirms, Final
      <4>2. \A e \in Entries : st'.qcfg[e] = "UNKNOWN"
            BY <1>4, <4>1 DEF LineEffect
      <4>3. \A j \in 1 .. Len(line') : ~Final(line'[j]) /\ line'[j].kind # "QCFG"
            BY <1>1, <1>3, <1>6, <2>2, <4>1 DEF LinesInv
      <4>   QED BY <4>2, <4>3 DEF BootInv
    <3>2. CASE i # 1
      <4>1. i - 1 \in 1 .. Len(line') /\ line'[i - 1].kind = "OK"
            BY <1>3, <2>2, <3>2
      <4>2. st'.pending = st.pending
            BY <1>6, <4>1 DEF Final
      <4>   QED BY <2>2, <4>1, <4>2 DEF BootInv
    <3>   QED BY <3>1, <3>2
  <2>   QED BY <1>1, <1>2, <2>1, <2>2 DEF BootInv
<1>12. Dirty' => Dirty
  <2>1. ASSUME NEW e \in Entries, st'.qcfg[e] \in {"MISMATCH", "MODIFIED"}
        PROVE  Dirty
        BY <1>9, <2>1 DEF Dirty, InState
  <2>   QED BY <1>2, <2>1 DEF Dirty, InState
<1>13. st'.pending # None => st'.pending = st.pending /\ ~Final(l) /\ st'.ok = st.ok
       BY <1>4 DEF LineEffect
<1>14. ASSUME Constructed(ct, "reboot")
       PROVE  (IF Submitted(ct, "reboot") /\ st.ok THEN ~Dirty ELSE RebootNeeded)'
  <2>1. CASE Submitted(ct, "reboot") /\ st.ok
    <3>1. ~Dirty /\ ~Dirty' /\ st.pending = None
          BY <1>1, <1>12, <1>14, <2>1 DEF RebootInv
    <3>2. ~Final(l)
          BY <1>7, <3>1
    <3>3. st'.ok
          BY <1>4, <2>1, <3>2 DEF LineEffect
    <3>   QED BY <1>2, <2>1, <3>1, <3>3
  <2>2. CASE ~(Submitted(ct, "reboot") /\ st.ok)
    <3>1. RebootNeeded /\ ~Constructed(ct, "assign_qcfg")
          BY <1>1, <1>14, <2>2 DEF RebootInv, RulesInv
    <3>2. ~Constructed(ct, "query_qcfg")
          BY <1>1, <3>1 DEF RulesInv, RebootNeeded
    <3>3. CASE Confirms(l, {"reboot"})
      <4>1. l.kind = "OK" /\ Submitted(ct, "reboot")
            BY <1>7, <3>3 DEF Confirms, Final
      <4>2. \A e \in Entries : modem.setting[e]
            BY <1>1, <3>1 DEF SettingsInv, RebootNeeded, InState, QcfgStates
      <4>3. InState("MISMATCH")' = {} /\ InState("MODIFIED")' = {}
            BY <1>4, <3>3 DEF InState, LineEffect
      <4>4. ~Dirty' /\ st'.ok
            BY <1>2, <1>4, <3>1, <4>1, <4>2, <4>3 DEF Dirty, LineEffect
      <4>   QED BY <1>2, <4>1, <4>4
    <3>4. CASE ~Confirms(l, {"reboot"})
      <4>1. st'.qcfg = st.qcfg
            BY <1>8, <1>9, <3>1, <3>2, <3>4
      <4>2. RebootNeeded'
            BY <3>1, <4>1 DEF RebootNeeded, InState
      <4>3. Submitted(ct, "reboot") => l.kind # "OK"
            BY <1>1, <1>7, <3>4, OpsAre DEF RebootInv, Confirms, Final
      <4>4. Submitted(ct, "reboot") => ~st'.ok
            BY <1>4, <2>2, <4>3 DEF LineEffect
      <4>   QED BY <1>2, <4>2, <4>4
    <3>   QED BY <3>3, <3>4
  <2>   QED BY <2>1, <2>2
<1>15. RebootInv'
  <2>1. st'.pending # None => \A o \in Ops : Submitted(ct, o) => o = st'.pending.op
        BY <1>1, <1>13 DEF RebootInv
  <2>2. st'.ok => st'.pending = None
        BY <1>1, <1>13 DEF RebootInv
  <2>3. Submitted(ct, "reboot") /\ st'.pending # None => Awaited' \/ modem.run = "off"
    <3>1. SUFFICES ASSUME Submitted(ct, "reboot"), st'.pending # None, modem.run # "off"
                   PROVE  Awaited'
          OBVIOUS
    <3>2. Awaited /\ ~Final(l)
          BY <1>1, <1>13, <3>1 DEF RebootInv
    <3>   QED BY <1>2, <1>3, <3>2 DEF Awaited
  <2>   QED BY <1>2, <1>14, <2>1, <2>2, <2>3 DEF RebootInv
<1>16. TriesInv'
  <2>1. RebootAhead' => RebootAhead
        BY <1>2, <1>12 DEF RebootAhead
  <2>   QED BY <1>1, <1>2, <2>1 DEF TriesInv, PinAhead, ModemType
<1>   QED BY <1>1, <1>2, <1>10, <1>11, <1>15, <1>16 DEF PinInv, SimNotBlocked

LEMMA HandleTimerPin ==
    ASSUME NEW p, DialogueInv(p), PinInv, Slow = {}, NEW timeout \in BOOLEAN,
           HandleTimer(timeout)
    PROVE  PinInv'
<1>1. /\ StatusType /\ ControlType(ct, p)
      /\ SettingsInv /\ BootInv /\ RebootInv /\ TriesInv /\ SimNotBlocked
      BY DEF DialogueInv, DialogueType, PinInv
<1>2. /\ command = <<>> /\ line = <<>>
      /\ command' = command /\ line' = line /\ modem' = modem
      BY DEF HandleTimer, TimerPossible
<1>3. InvalidateCallList(st) = st
      BY <1>1 DEF InvalidateCallList, ControlType
<1>4. CASE ~timeout
  <2>1. st' = st /\ ct' = ct
        BY <1>3, <1>4 DEF HandleTimer
  <2>   QED BY <1>1, <1>2, <2>1 DEF PinInv, SettingsInv, BootInv, RebootInv, TriesInv,
                 SimNotBlocked, Dirty, InState, RebootNeeded, PinAhead, RebootAhead, Awaited
<1>5. CASE timeout
  <2>   DEFINE op == [o \in Ops |-> IF Submitted(ct, o) THEN None ELSE ct.op[o]]
  <2>1. st' = [ResetCommand(st) EXCEPT !.at_ok = FALSE] /\ ct' = [ct EXCEPT !.op = op]
        BY <1>3, <1>5 DEF HandleTimer, CancelSubmitted
  <2>2. st'.pending = None /\ ~st'.ok /\ st'.qcfg = st.qcfg
        BY <1>1, <2>1 DEF StatusType, StatusMembers, ResetCommand
  <2>3. ct'.op = op /\ ct'.current_pin = ct.current_pin
        BY <1>1, <2>1 DEF ControlType, Members
  <2>4. \A o \in Ops : ct'.op[o] = IF Submitted(ct, o) THEN None ELSE ct.op[o]
        BY <2>3
  <2>5. /\ \A o \in Ops : Constructed(ct', o) <=> Constructed(ct, o) /\ ~Submitted(ct, o)
        /\ \A o \in Ops : ~Submitted(ct', o) /\ (Waits(ct', o) => Waits(ct, o))
        BY <2>4 DEF Constructed, Submitted, Waits
  <2>6. {"reboot", "assign_qcfg", "set_pin"} \subseteq Ops
        BY OpsAre
  <2>7. /\ InState("MISMATCH")' = InState("MISMATCH")
        /\ InState("MODIFIED")' = InState("MODIFIED")
        /\ RebootNeeded' = RebootNeeded /\ ~Awaited
        BY <1>2, <2>2 DEF InState, RebootNeeded, Awaited
  <2>8. Dirty' => Dirty
        BY <1>2, <2>5, <2>6, <2>7 DEF Dirty
\* A reboot is not given up: a modem that is on would have answered
  <2>9. modem.run # "off" => ~Submitted(ct, "reboot")
    <3>1. st.pending # None
          BY <1>5 DEF HandleTimer
    <3>   QED BY <1>1, <2>7, <3>1 DEF RebootInv
  <2>10. SettingsInv' /\ BootInv'
    <3>1. \A i \in 1 .. Len(line) : FALSE
          BY <1>2
    <3>   QED BY <1>1, <1>2, <2>2, <3>1 DEF SettingsInv, BootInv
  <2>11. RebootInv'
         BY <1>1, <2>2, <2>5, <2>6, <2>7 DEF RebootInv, Submitted
  <2>12. TriesInv'
    <3>1. CASE modem.run = "off"
          BY <1>2, <3>1 DEF TriesInv
    <3>2. CASE modem.run # "off"
      <4>1. RebootAhead' => RebootAhead
            BY <2>5, <2>6, <2>8, <2>9, <3>2 DEF RebootAhead
      <4>2. PinAhead' => PinAhead
            BY <1>2, <2>3, <2>5, <2>6 DEF PinAhead
      <4>   QED BY <1>1, <1>2, <4>1, <4>2 DEF TriesInv
    <3>   QED BY <3>1, <3>2
  <2>   QED BY <1>1, <1>2, <2>10, <2>11, <2>12 DEF PinInv, SimNotBlocked
<1>   QED BY <1>4, <1>5

\* The SIM card and the settings when the modem carries out a command
LEMMA RespondPin ==
    ASSUME ModemType, NEW cmd \in Commands, cmd.op \notin CallOps, ForEntry(cmd), Respond(cmd)
    PROVE  /\ \A e \in Entries : modem.setting[e] => modem'.setting[e]
           /\ cmd.op = "assign_qcfg" => modem'.setting[cmd.arg]
           /\ cmd.op = "query_qcfg" =>
                /\ modem' = modem
                /\ \E c \in LineSet, ok \in LineSet :
                      /\ line' = line \o <<c, ok>> /\ c.arg = <<cmd.arg, modem.setting[cmd.arg]>>
                      /\ ok.kind = "OK"
           /\ modem'.run \in {modem.run, "off"} \/ cmd.op = "reboot"
           /\ \/ modem'.sim # "SIM PUK"
              \/ modem'.sim = modem.sim
              \/ cmd.op = "set_pin" /\ modem.tries = 1
           /\ \/ modem'.tries \in {3, modem.tries}
              \/ cmd.op = "set_pin" /\ modem'.tries = modem.tries - 1
<1>1. /\ DOMAIN modem = {"run", "echo", "sim", "tries", "setting", "call"}
      /\ modem.setting \in [Entries -> BOOLEAN] /\ modem.call = None
      BY DEF ModemType
<1>   DEFINE a == cmd.arg
             OK == Line("OK", None, cmd.op)
             c == Line("QCFG", <<a, modem.setting[a]>>, cmd.op)
<1>2. CASE cmd.op \in {"check_ready", "request_pin_state", "request_pin_count",
                       "request_call_list"}
  <2>1. modem' = modem
        BY <1>2 DEF Respond, Sends
  <2>   QED BY <1>2, <2>1
<1>3. CASE cmd.op \in {"disable_echo", "power_down", "reboot"}
  <2>1. \/ modem' = [modem EXCEPT !.echo = FALSE]
        \/ modem' = [modem EXCEPT !.run = "off", !.call = None]
        \/ /\ cmd.op = "reboot"
           /\ modem' = [modem EXCEPT !.run = "boot", !.echo = TRUE, !.sim = "BUSY", !.call = None]
        BY <1>3 DEF Respond, Sends
  <2>2. /\ modem'.setting = modem.setting /\ modem'.tries = modem.tries
        /\ modem'.run \in {modem.run, "off"} \/ cmd.op = "reboot"
        /\ modem'.sim = modem.sim \/ modem'.sim = "BUSY"
        BY <1>1, <2>1
  <2>   QED BY <1>3, <2>2
<1>4. CASE cmd.op = "set_pin"
  <2>1. \/ modem' = modem
        \/ modem' = [modem EXCEPT !.sim = "READY", !.tries = 3]
        \/ modem' = [modem EXCEPT !.tries = @ - 1,
                                  !.sim = IF modem.tries = 1 THEN "SIM PUK" ELSE @]
        BY <1>4 DEF Respond, Sends
  <2>2. /\ modem'.setting = modem.setting /\ modem'.run = modem.run
        /\ modem'.sim # "SIM PUK" \/ modem'.sim = modem.sim \/ modem.tries = 1
        /\ modem'.tries \in {3, modem.tries, modem.tries - 1}
        BY <1>1, <2>1
  <2>   QED BY <1>4, <2>2
<1>5. CASE cmd.op = "query_qcfg"
  <2>1. line' = line \o <<c, OK>> /\ modem' = modem
        BY <1>5 DEF Respond, Sends
  <2>2. c \in LineSet /\ OK \in LineSet /\ OK.kind = "OK" /\ c.arg = <<a, modem.setting[a]>>
    <3>1. <<a, modem.setting[a]>> \in Settings
          BY <1>1, <1>5 DEF ForEntry, Settings
    <3>   QED BY <3>1 DEF Line, LineSet, LineKinds, Commands
  <2>   HIDE DEF c, OK
  <2>   QED BY <1>5, <2>1, <2>2
<1>6. CASE cmd.op = "assign_qcfg"
  <2>   DEFINE m == [modem.setting EXCEPT ![a] = TRUE]
  <2>1. modem' = [modem EXCEPT !.setting = m]
        BY <1>6 DEF Respond, Sends
  <2>2. m[a] /\ \A e \in Entries : modem.setting[e] => m[e]
        BY <1>1, <1>6 DEF ForEntry
  <2>   HIDE DEF m
  <2>3. /\ modem'.setting = m /\ modem'.run = modem.run /\ modem'.sim = modem.sim
        /\ modem'.tries = modem.tries
        BY <1>1, <2>1
  <2>   QED BY <1>6, <2>2, <2>3
<1>   QED BY <1>2, <1>3, <1>4, <1>5, <1>6, OpsAre DEF CallOps, Commands

LEMMA SameRest ==
    ASSUME NEW S, NEW s \in Seq(S), NEW t \in Seq(S), NEW u \in Seq(S), s \o t = s \o u
    PROVE  t = u
<1>1. /\ Len(s \o t) = Len(s) + Len(t) /\ \A i \in 1 .. Len(t) : (s \o t)[Len(s) + i] = t[i]
      /\ Len(s) \in Nat /\ Len(t) \in Nat
      BY ConcatIs
<1>2. /\ Len(s \o u) = Len(s) + Len(u) /\ \A i \in 1 .. Len(u) : (s \o u)[Len(s) + i] = u[i]
      /\ Len(u) \in Nat
      BY ConcatIs
<1>3. Len(t) = Len(u) /\ \A i \in 1 .. Len(t) : t[i] = u[i]
      BY <1>1, <1>2
<1>   QED BY <1>3

\* The modem sends more lines
LEMMA MorePin ==
    ASSUME NEW p, DialogueInv(p), PinInv, NEW ls \in Seq(LineSet), line' = line \o ls,
           st' = st, ct' = ct,
           \A e \in Entries : modem.setting[e] => modem'.setting[e],
           command = <<>> => modem'.setting = modem.setting,
           \A i \in 1 .. Len(ls) :
              /\ ls[i].kind = "QCFG" => ls[i].arg[2] = modem'.setting[ls[i].arg[1]]
              /\ ls[i].kind = "OK" /\ st.pending.op = "assign_qcfg"
                   => modem'.setting[st.pending.arg],
           modem'.run = "boot" => /\ st.pending # None /\ st.pending.op = "reboot"
                                  /\ \E i \in 1 .. Len(ls) : ls[i].kind = "OK",
           modem'.run = "off" \/ modem.run # "off",
           command' # command /\ Submitted(ct, "reboot") /\ st.pending # None
             => modem'.run = "off" \/ \E i \in 1 .. Len(ls) : Final(ls[i])
    PROVE  SettingsInv' /\ BootInv' /\ RebootInv' /\ (RebootAhead' => RebootAhead)
<1>1. /\ line \in Seq(LineSet) /\ StatusType /\ FlightInv /\ LinesInv
      /\ SettingsInv /\ RebootInv
      BY DEF DialogueInv, DialogueType, PinInv
<1>2. /\ Len(line') = Len(line) + Len(ls) /\ Len(line) \in Nat /\ Len(ls) \in Nat
      /\ \A i \in 1 .. Len(line) : i \in 1 .. Len(line') /\ line'[i] = line[i]
      /\ \A i \in 1 .. Len(ls) : Len(line) + i \in 1 .. Len(line') /\ line'[Len(line) + i] = ls[i]
      /\ \A i \in 1 .. Len(line') : i \notin 1 .. Len(line) =>
            i - Len(line) \in 1 .. Len(ls) /\ line'[i] = ls[i - Len(line)]
      BY <1>1, ConcatIs
<1>3. SettingsInv'
  <2>1. ASSUME NEW i \in 1 .. Len(line)
        PROVE  /\ line[i].kind = "QCFG" => line[i].arg[2] = modem'.setting[line[i].arg[1]]
               /\ line[i].kind = "OK" /\ st.pending.op = "assign_qcfg"
                    => modem'.setting[st.pending.arg]
    <3>1. line[i].kind = "QCFG" => command = <<>>
      <4>1. SUFFICES ASSUME line[i].kind = "QCFG" PROVE command = <<>>
            OBVIOUS
      <4>2. PICK j \in i + 1 .. Len(line) : Final(line[j])
            BY <1>1, <4>1 DEF LinesInv
      <4>3. j \in 1 .. Len(line)
            BY <1>2
      <4>   QED BY <1>1, <4>2, <4>3 DEF LinesInv
    <3>2. line[i].kind = "OK" => st.pending # None
          BY <1>1 DEF FlightInv, Awaited, Final
    <3>   QED BY <1>1, <3>1, <3>2 DEF SettingsInv, StatusType, ForEntry
  <2>2. ASSUME NEW i \in 1 .. Len(line')
        PROVE  /\ line'[i].kind = "QCFG" => line'[i].arg[2] = modem'.setting[line'[i].arg[1]]
               /\ line'[i].kind = "OK" /\ st.pending.op = "assign_qcfg"
                    => modem'.setting[st.pending.arg]
        BY <1>2, <2>1
  <2>   QED BY <1>1, <2>2 DEF SettingsInv
<1>4. BootInv'
      BY <1>2 DEF BootInv
<1>5. Awaited' \/ modem'.run = "off" \/ ~Submitted(ct, "reboot") \/ st.pending = None
  <2>1. CASE command' # command
        BY <1>2, <2>1 DEF Awaited
  <2>2. CASE command' = command
        BY <1>1, <1>2, <2>2 DEF Awaited, RebootInv
  <2>   QED BY <2>1, <2>2
<1>6. Dirty' => Dirty
      BY DEF Dirty, InState
<1>7. RebootInv'
      BY <1>1, <1>5, <1>6 DEF RebootInv, RebootNeeded, InState
<1>   QED BY <1>3, <1>4, <1>6, <1>7 DEF RebootAhead

LEMMA ModemAnswersPin ==
    ASSUME NEW p \in Pins, DialogueInv(p), PinInv, ModemAnswers
    PROVE  PinInv'
<1>1. /\ DialogueType(p) /\ StatusType /\ ModemType /\ ControlType(ct, p) /\ FlightInv /\ LinesInv
      /\ BootInv /\ RebootInv /\ TriesInv /\ SimNotBlocked /\ modem.tries \in Int
      BY DEF DialogueInv, DialogueType, ModemType, PinInv
<1>   DEFINE cmd == st.pending
<1>2. /\ command # <<>> /\ command = <<cmd>> /\ command[1] = cmd /\ command' = <<>>
      /\ st' = st /\ ct' = ct /\ cmd # None
      /\ cmd \in Commands /\ cmd.op \notin CallOps /\ ForEntry(cmd) /\ Submitted(ct, cmd.op)
  <2>1. command # <<>> /\ command = <<cmd>> /\ command' = Tail(command) /\ st' = st /\ ct' = ct
        BY <1>1 DEF ModemAnswers, LinesInv
  <2>   QED BY <1>1, <2>1 DEF FlightInv, Awaited, StatusType
<1>3. \A i \in 1 .. Len(line) : ~Final(line[i])
      BY <1>1, <1>2 DEF LinesInv
<1>4. PinAhead' => PinAhead
      BY <1>2 DEF PinAhead
<1>5. Submitted(ct, "reboot") => cmd.op = "reboot"
      BY <1>1, <1>2, OpsAre DEF RebootInv
<1>6. CASE modem.run = "up"
  <2>1. Respond(cmd)
        BY <1>2, <1>6 DEF ModemAnswers
  <2>2. PICK ls \in Seq(LineSet) :
           /\ line' = line \o ls /\ Reply(cmd, ls)
           /\ cmd.op = "reboot" => \E i \in 1 .. Len(ls) : ls[i].kind = "OK"
        BY <1>1, <1>2, <2>1, RespondIs
  <2>3. /\ \A e \in Entries : modem.setting[e] => modem'.setting[e]
        /\ cmd.op = "assign_qcfg" => modem'.setting[cmd.arg]
        /\ modem'.run \in {modem.run, "off"} \/ cmd.op = "reboot"
        /\ \/ modem'.sim # "SIM PUK"
           \/ modem'.sim = modem.sim
           \/ cmd.op = "set_pin" /\ modem.tries = 1
        /\ \/ modem'.tries \in {3, modem.tries}
           \/ cmd.op = "set_pin" /\ modem'.tries = modem.tries - 1
        BY <1>1, <1>2, <2>1, RespondPin
  <2>4. ASSUME NEW i \in 1 .. Len(ls), ls[i].kind = "QCFG"
        PROVE  ls[i].arg[2] = modem'.setting[ls[i].arg[1]]
    <3>1. cmd.op = "query_qcfg"
          BY <2>2, <2>4 DEF Reply
    <3>2. /\ modem' = modem
          /\ \E c \in LineSet, ok \in LineSet :
                /\ line' = line \o <<c, ok>> /\ c.arg = <<cmd.arg, modem.setting[cmd.arg]>>
                /\ ok.kind = "OK"
          BY <1>1, <1>2, <2>1, <3>1, RespondPin
    <3>3. PICK c \in LineSet, ok \in LineSet :
             /\ line' = line \o <<c, ok>> /\ c.arg = <<cmd.arg, modem.setting[cmd.arg]>>
             /\ ok.kind = "OK"
          BY <3>2
    <3>4. line \in Seq(LineSet) /\ <<c, ok>> \in Seq(LineSet)
          BY <1>1 DEF DialogueType
    <3>5. ls = <<c, ok>>
          BY <2>2, <3>3, <3>4, SameRest
    <3>6. ls[i] = c
          BY <2>4, <3>3, <3>5
    <3>   QED BY <3>2, <3>3, <3>6
  <2>5. SettingsInv' /\ BootInv' /\ RebootInv' /\ (RebootAhead' => RebootAhead)
    <3>1. modem'.run = "boot" => cmd.op = "reboot"
          BY <1>6, <2>3
    <3>2. \A i \in 1 .. Len(ls) : ls[i].kind = "OK" => Final(ls[i])
          BY DEF Final
    <3>   QED BY <1>2, <1>5, <1>6, <2>2, <2>3, <2>4, <3>1, <3>2, MorePin
  <2>6. cmd.op = "set_pin" => PinAhead /\ ~PinAhead'
    <3>1. SUFFICES ASSUME cmd.op = "set_pin" PROVE PinAhead /\ ~PinAhead'
          OBVIOUS
    <3>2. PinAhead
          BY <1>2, <3>1 DEF PinAhead
    <3>3. Submitted(ct, "set_pin") /\ ct.current_pin = p /\ p # None
          BY <1>1, <1>2, <3>1, AtProtocolAssumption DEF ControlType, Submitted
    <3>   QED BY <1>2, <3>2, <3>3 DEF PinAhead, Submitted, Waits
  <2>7. /\ modem.tries >= 1
        /\ PinAhead \/ RebootAhead => modem.tries >= 2
        /\ PinAhead /\ RebootAhead => modem.tries >= 3
        BY <1>1, <1>6 DEF TriesInv
  <2>8. TriesInv'
    <3>1. CASE modem'.tries \in {3, modem.tries}
          BY <1>1, <1>4, <2>5, <2>7, <3>1 DEF TriesInv
    <3>2. CASE cmd.op = "set_pin" /\ modem'.tries = modem.tries - 1
          BY <1>1, <2>5, <2>6, <2>7, <3>2 DEF TriesInv
    <3>   QED BY <2>3, <3>1, <3>2
  <2>9. SimNotBlocked'
    <3>1. cmd.op = "set_pin" => modem.tries # 1
          BY <1>1, <2>6, <2>7
    <3>   QED BY <1>1, <2>3, <3>1 DEF SimNotBlocked
  <2>   QED BY <2>5, <2>8, <2>9 DEF PinInv
<1>7. CASE modem.run # "up"
  <2>1. modem' = modem /\ line' = line
        BY <1>7 DEF ModemAnswers
\* No reboot is underway to a modem that boots
  <2>2. modem.run = "off" \/ ~Submitted(ct, "reboot")
    <3>1. SUFFICES ASSUME modem.run = "boot", Submitted(ct, "reboot") PROVE FALSE
          BY <1>1, <1>7 DEF ModemType
    <3>2. RebootNeeded
          BY <1>1, <1>2, <3>1 DEF RebootInv, Submitted
    <3>3. \E e \in Entries : st.qcfg[e] = "MODIFIED"
          BY <3>2 DEF RebootNeeded, InState
    <3>   QED BY <1>1, <1>3, <3>1, <3>3 DEF BootInv, Final
  <2>3. SettingsInv' /\ BootInv'
        BY <1>1, <1>2, <2>1 DEF PinInv, SettingsInv, BootInv
  <2>4. (Dirty' <=> Dirty) /\ (RebootNeeded' <=> RebootNeeded)
        BY <1>2, <2>1 DEF Dirty, RebootNeeded, InState
  <2>5. RebootInv'
        BY <1>1, <1>2, <2>1, <2>2, <2>4 DEF RebootInv
  <2>6. TriesInv'
        BY <1>1, <1>2, <1>4, <2>1, <2>4 DEF TriesInv, RebootAhead
  <2>   QED BY <1>1, <2>1, <2>3, <2>5, <2>6 DEF PinInv, SimNotBlocked
<1>   QED BY <1>6, <1>7

LEMMA ModemPin ==
    ASSUME NEW p \in Pins, DialogueInv(p), PinInv, ModemNext
    PROVE  PinInv'
<1>1. /\ DialogueType(p) /\ ModemType /\ FlightInv /\ LinesInv
      /\ TriesInv /\ SimNotBlocked /\ BootInv
      /\ line \in Seq(LineSet) /\ command \in Seq(Commands) /\ left.calls = 0
      /\ modem.call = None /\ DOMAIN modem = {"run", "echo", "sim", "tries", "setting", "call"}
      BY DEF DialogueInv, DialogueType, ModemType, PinInv
<1>2. CASE ModemRefuses
  <2>   DEFINE l == Line("ERROR", None, Head(command).op)
               ls == <<l>>
  <2>1. /\ command # <<>> /\ modem.run = "up" /\ st' = st /\ ct' = ct /\ modem' = modem
        /\ line' = line \o ls /\ command' = Tail(command)
        BY <1>2 DEF ModemRefuses, Sends
  <2>2. command = <<st.pending>> /\ command' = <<>> /\ st.pending \in Commands
        BY <1>1, <2>1 DEF LinesInv
  <2>3. l \in LineSet /\ l.kind = "ERROR" /\ Final(l)
        BY <2>2 DEF Line, LineSet, LineKinds, Commands, Final
  <2>   HIDE DEF l
  <2>4. /\ ls \in Seq(LineSet) /\ \A i \in 1 .. Len(ls) : ls[i].kind = "ERROR"
        /\ \E i \in 1 .. Len(ls) : Final(ls[i])
        BY <2>3
  <2>   HIDE DEF ls
  <2>5. SettingsInv' /\ BootInv' /\ RebootInv' /\ (RebootAhead' => RebootAhead)
        BY <2>1, <2>4, MorePin
  <2>6. PinAhead' => PinAhead
        BY <2>1, <2>2 DEF PinAhead
  <2>7. TriesInv'
        BY <1>1, <2>1, <2>5, <2>6 DEF TriesInv, ModemType
  <2>   QED BY <1>1, <2>1, <2>5, <2>7 DEF PinInv, SimNotBlocked
<1>3. CASE ModemBoots
  <2>   DEFINE l == Line("RDY", None, None)
               ls == <<l>>
  <2>1. /\ modem.run = "boot" /\ st' = st /\ ct' = ct /\ command' = command
        /\ modem' = [modem EXCEPT !.run = "up"] /\ line' = line \o ls
        BY <1>3 DEF ModemBoots, Sends
  <2>2. l \in LineSet /\ l.kind = "RDY"
        BY DEF Line, LineSet, LineKinds
  <2>   HIDE DEF l
  <2>3. ls \in Seq(LineSet) /\ \A i \in 1 .. Len(ls) : ls[i].kind = "RDY"
        BY <2>2
  <2>   HIDE DEF ls
  <2>4. /\ modem'.run = "up" /\ modem'.setting = modem.setting
        /\ modem'.tries = modem.tries /\ modem'.sim = modem.sim
        BY <1>1, <2>1
  <2>5. SettingsInv' /\ BootInv' /\ RebootInv' /\ (RebootAhead' => RebootAhead)
        BY <2>1, <2>3, <2>4, MorePin
  <2>6. TriesInv'
        BY <1>1, <2>1, <2>4, <2>5 DEF TriesInv, PinAhead, ModemType
  <2>   QED BY <1>1, <2>4, <2>5, <2>6 DEF PinInv, SimNotBlocked
<1>4. CASE SimAvailable
  <2>1. /\ modem.run = "up" /\ st' = st /\ ct' = ct /\ command' = command /\ line' = line
        /\ modem' = [modem EXCEPT !.sim = "SIM PIN"]
        BY <1>4 DEF SimAvailable
  <2>2. /\ modem'.run = "up" /\ modem'.setting = modem.setting
        /\ modem'.tries = modem.tries /\ modem'.sim = "SIM PIN"
        BY <1>1, <2>1
  <2>3. line' = line \o <<>> /\ <<>> \in Seq(LineSet)
    <3>1. line \in Seq(LineSet) /\ line' = line
          BY <1>1, <2>1
    <3>   QED BY <3>1
  <2>4. \A i \in 1 .. Len(<<>>) : FALSE
        OBVIOUS
  <2>5. SettingsInv' /\ BootInv' /\ RebootInv' /\ (RebootAhead' => RebootAhead)
        BY <2>1, <2>2, <2>3, <2>4, MorePin
  <2>6. TriesInv'
        BY <1>1, <2>1, <2>2, <2>5 DEF TriesInv, PinAhead, ModemType
  <2>   QED BY <2>2, <2>5, <2>6 DEF PinInv, SimNotBlocked
<1>5. ~(\/ \E n \in Numbers : RemoteCalls(n)
        \/ RingsAgain \/ RemotePicksUp \/ RemoteHangsUp)
      BY <1>1 DEF RemoteCalls, RingsAgain, RemotePicksUp, RemoteHangsUp
<1>   QED BY <1>2, <1>3, <1>4, <1>5, ModemAnswersPin DEF ModemNext

LEMMA PinInit == Init => PinInv
<1>1. SUFFICES ASSUME Init PROVE PinInv
      OBVIOUS
<1>2. /\ \A o \in Ops : ct.op[o] = None
      /\ \A e \in Entries : st.qcfg[e] = "UNKNOWN"
      /\ st.pending = None /\ ~st.ok /\ line = <<>>
      BY <1>1 DEF Init, InitControl, InitStatus
<1>3. modem.sim = "SIM PIN" /\ modem.tries = 3
      BY <1>1 DEF Init, InitModem
<1>4. \A i \in 1 .. Len(line) : FALSE
      BY <1>2
<1>5. SettingsInv /\ BootInv
      BY <1>2, <1>4 DEF SettingsInv, BootInv, QcfgStates
<1>6. RebootInv
      BY <1>2, OpsAre DEF RebootInv, Constructed, Submitted
<1>7. TriesInv
  <2>1. 3 >= 1 /\ 3 >= 2 /\ 3 >= 3
        OBVIOUS
  <2>   QED BY <1>3, <2>1, Zenon DEF TriesInv
<1>8. SimNotBlocked
      BY <1>3 DEF SimNotBlocked
<1>   QED BY <1>5, <1>6, <1>7, <1>8 DEF PinInv

LEMMA PinStep ==
    ASSUME NEW p, OnePin(p), Slow = {}, DialogueInv(p), PinInv, [Next]_vars
    PROVE  PinInv'
<1>1. p \in Pins /\ OneCfg(config, p)
      BY DEF OnePin, DialogueInv, DialogueType
<1>2. CASE ReadLine
      BY <1>2, ReadLinePin
<1>3. CASE ApplyConfig
      BY <1>1, <1>3, ApplyConfigPin
<1>4. CASE \E timeout \in BOOLEAN : HandleTimer(timeout)
      BY <1>4, HandleTimerPin
<1>5. CASE UNCHANGED <<st, ct, command, line, modem>>
  <2>1. SettingsInv' /\ BootInv'
        BY <1>5 DEF PinInv, SettingsInv, BootInv
  <2>2. /\ InState("MISMATCH")' = InState("MISMATCH")
        /\ InState("MODIFIED")' = InState("MODIFIED")
        /\ RebootNeeded' = RebootNeeded
        BY <1>5 DEF InState, RebootNeeded
  <2>3. Dirty' = Dirty /\ PinAhead' = PinAhead /\ Awaited' = Awaited
        BY <1>5, <2>2 DEF Dirty, PinAhead, Awaited
  <2>4. RebootInv'
        BY <1>5, <2>2, <2>3 DEF PinInv, RebootInv
  <2>5. TriesInv' /\ SimNotBlocked'
        BY <1>5, <2>3 DEF PinInv, TriesInv, RebootAhead, SimNotBlocked
  <2>   QED BY <2>1, <2>4, <2>5 DEF PinInv
<1>6. CASE ModemNext
      BY <1>1, <1>6, ModemPin
<1>   QED BY <1>2, <1>3, <1>4, <1>5, <1>6 DEF Next, DriverNext, SetConfig, vars

\* With one PIN configured, right or wrong, the SIM card keeps an attempt, in whatever
\* order the PIN is configured and taken back, commands are refused and the modem
\* reboots for the sake of its settings (_current_pin, control.h:346).
THEOREM AttemptIsKept ==
    ASSUME OnePromptUser PROVE Spec => []SimNotBlocked
<1>1. PICK p \in Pins : OnePin(p)
  <2>1. PICK p \in Pins : \A c \in Configs : c.pin \in {None, p} /\ c.call = None
        BY DEF OnePromptUser
  <2>   QED BY <2>1 DEF OnePin, OneCfg
<1>2. Slow = {} /\ MaxCalls = 0
      BY DEF OnePromptUser
<1>   DEFINE Inv == DialogueInv(p) /\ PinInv
<1>3. Init => Inv
      BY <1>2, DialogueInit, PinInit
<1>4. Inv /\ [Next]_vars => Inv'
      BY <1>1, <1>2, DialogueStep, PinStep
<1>5. Inv => SimNotBlocked
      BY DEF PinInv
<1>   HIDE DEF Inv
<1>   QED BY <1>3, <1>4, <1>5, PTL DEF Spec

-------------------------------------------------------------------------------
(***************************************************************************)
(* Redialling.  Up to the first call that comes in, each line NO CARRIER   *)
(* is due to a dialling, and each dialling to a configuration.             *)
(***************************************************************************)
\* How often the field f of an element of s is x
Places(s, f, x) == {i \in 1 .. Len(s) : s[i][f] = x}
Occurs(s, f, x) == Cardinality(Places(s, f, x))

\* A sequence of whatever elements
IsSeq(s) == s \in Seq({s[i] : i \in DOMAIN s})

LEMMA SeqIs == ASSUME NEW S, NEW s \in Seq(S) PROVE IsSeq(s)
<1>1. s \in [1 .. Len(s) -> {s[i] : i \in DOMAIN s}] /\ Len(s) \in Nat
      OBVIOUS
<1>   QED BY <1>1 DEF IsSeq

LEMMA PlacesFinite ==
    ASSUME NEW s, Len(s) \in Nat, NEW f, NEW x
    PROVE  IsFiniteSet(Places(s, f, x)) /\ Occurs(s, f, x) \in Nat
<1>1. IsFiniteSet(1 .. Len(s))
      BY FS_Interval
<1>2. Places(s, f, x) \in SUBSET (1 .. Len(s))
      BY DEF Places
<1>   QED BY <1>1, <1>2, FS_Subset, FS_CardinalityType DEF Occurs

LEMMA OccursConcat ==
    ASSUME NEW S, NEW s \in Seq(S), NEW t \in Seq(S), NEW f, NEW x
    PROVE  Occurs(s \o t, f, x) = Occurs(s, f, x) + Occurs(t, f, x)
<1>   DEFINE u == s \o t
             A == Places(s, f, x)
             B == Places(t, f, x)
             C == {Len(s) + i : i \in B}
             g == [i \in B |-> Len(s) + i]
<1>1. /\ Len(u) = Len(s) + Len(t) /\ Len(s) \in Nat /\ Len(t) \in Nat
      /\ \A i \in 1 .. Len(s) : u[i] = s[i]
      /\ \A i \in 1 .. Len(t) : u[Len(s) + i] = t[i]
      /\ \A i \in 1 .. Len(u) : i \notin 1 .. Len(s) =>
            i - Len(s) \in 1 .. Len(t) /\ u[i] = t[i - Len(s)]
      BY ConcatIs
<1>   HIDE DEF u
<1>2. IsFiniteSet(A) /\ IsFiniteSet(B) /\ Cardinality(A) \in Nat /\ Cardinality(B) \in Nat
      BY <1>1, PlacesFinite DEF Occurs
<1>3. B \subseteq 1 .. Len(t) /\ A \subseteq 1 .. Len(s)
      BY DEF Places
<1>4. Places(u, f, x) = A \union C
  <2>1. ASSUME NEW i \in Places(u, f, x) PROVE i \in A \union C
    <3>1. i \in 1 .. Len(u) /\ u[i][f] = x
          BY <2>1 DEF Places
    <3>2. CASE i \in 1 .. Len(s)
          BY <1>1, <3>1, <3>2 DEF Places
    <3>3. CASE i \notin 1 .. Len(s)
      <4>1. i - Len(s) \in B
            BY <1>1, <3>1, <3>3 DEF Places
      <4>2. Len(s) + (i - Len(s)) = i
            BY <1>1, <3>1
      <4>   QED BY <4>1, <4>2
    <3>   QED BY <3>2, <3>3
  <2>2. ASSUME NEW i \in A PROVE i \in Places(u, f, x)
        BY <1>1, <2>2 DEF Places
  <2>3. ASSUME NEW i \in B PROVE Len(s) + i \in Places(u, f, x)
    <3>1. i \in 1 .. Len(t) /\ t[i][f] = x
          BY <2>3 DEF Places
    <3>2. Len(s) + i \in 1 .. Len(u)
          BY <1>1, <3>1
    <3>   QED BY <1>1, <3>1, <3>2 DEF Places
  <2>   QED BY <2>1, <2>2, <2>3
<1>   HIDE DEF A, B
<1>5. A \intersect C = {}
      BY <1>1, <1>3
<1>6. IsFiniteSet(C) /\ Cardinality(C) = Cardinality(B)
  <2>1. g \in Bijection(B, C)
    <3>1. g \in [B -> C]
          OBVIOUS
    <3>2. \A a, b \in B : g[a] = g[b] => a = b
          BY <1>1, <1>3
    <3>3. \A c \in C : \E a \in B : g[a] = c
          OBVIOUS
    <3>   QED BY <3>1, <3>2, <3>3, Fun_IsBij
  <2>   QED BY <1>2, <2>1, FS_Bijection, Fun_ExistsBij
<1>   HIDE DEF C
<1>7. /\ IsFiniteSet(A \union C)
      /\ Cardinality(A \union C) = Cardinality(A) + Cardinality(C) - Cardinality(A \intersect C)
      BY <1>2, <1>6, FS_Union
<1>8. Cardinality(A \intersect C) = 0
      BY <1>5, FS_EmptySet
<1>   QED BY <1>2, <1>4, <1>6, <1>7, <1>8 DEF Occurs, A, B, u

LEMMA OccursNone ==
    ASSUME NEW s, NEW f, NEW x, \A i \in 1 .. Len(s) : s[i][f] # x
    PROVE  Occurs(s, f, x) = 0
<1>1. Places(s, f, x) = {}
      BY DEF Places
<1>   QED BY <1>1, FS_EmptySet DEF Occurs

LEMMA OccursOne ==
    ASSUME NEW l, NEW f, NEW x
    PROVE  Occurs(<<l>>, f, x) = IF l[f] = x THEN 1 ELSE 0
<1>1. Len(<<l>>) = 1 /\ <<l>>[1] = l /\ 1 .. 1 = {1}
      OBVIOUS
<1>2. CASE l[f] = x
  <2>1. Places(<<l>>, f, x) = {1}
        BY <1>1, <1>2 DEF Places
  <2>   QED BY <1>2, <2>1, FS_Singleton DEF Occurs
<1>3. CASE l[f] # x
  <2>1. Places(<<l>>, f, x) = {}
        BY <1>1, <1>3 DEF Places
  <2>   QED BY <1>3, <2>1, FS_EmptySet DEF Occurs
<1>   QED BY <1>2, <1>3

LEMMA OccursTail ==
    ASSUME NEW S, NEW s \in Seq(S), s # <<>>, NEW f, NEW x
    PROVE  Occurs(s, f, x) = Occurs(Tail(s), f, x) + (IF Head(s)[f] = x THEN 1 ELSE 0)
<1>   DEFINE h == <<Head(s)>>
             t == Tail(s)
<1>1. s = h \o t /\ h \in Seq(S) /\ t \in Seq(S) /\ Len(t) \in Nat
      OBVIOUS
<1>2. Occurs(h, f, x) = IF Head(s)[f] = x THEN 1 ELSE 0
      BY OccursOne
<1>   HIDE DEF h, t
<1>3. Occurs(h \o t, f, x) = Occurs(h, f, x) + Occurs(t, f, x)
      BY <1>1, OccursConcat
<1>4. Occurs(t, f, x) \in Nat
      BY <1>1, PlacesFinite
<1>5. Occurs(s, f, x) = Occurs(h, f, x) + Occurs(t, f, x)
      BY <1>1, <1>3
<1>6. CASE Head(s)[f] = x
  <2>1. Occurs(s, f, x) = Occurs(t, f, x) + 1
        BY <1>2, <1>4, <1>5, <1>6
  <2>   QED BY <1>6, <2>1 DEF t
<1>7. CASE Head(s)[f] # x
  <2>1. Occurs(s, f, x) = Occurs(t, f, x) + 0
        BY <1>2, <1>4, <1>5, <1>7
  <2>   QED BY <1>7, <2>1 DEF t
<1>   QED BY <1>6, <1>7

-------------------------------------------------------------------------------
(* What the rules do to the operations and the record of the outbound call *)

\* A call to n before one has come in, and what the driver notes of it
CallsTo(n)  == [number : {n}, stat : {"DIALING", "ACTIVE"}]
Outbound(n) == [call : CallsTo(n), no_carrier_count : Nat]
Dialling(n) == [state : {"PENDING", "SUBMITTED"}, arg : {n}]

\* Control, as long as all calls are to n and none has come in
DialControl(c, n) ==
    /\ Formed(c) /\ c.op["accept_call"] = None
    /\ c.op["initiate_call"] \in {None} \union Dialling(n)
    /\ c.outbound \in {None} \union Outbound(n)

\* d differs from c in what does not concern calls, or is about to be dropped
Tame(c, d) ==
    /\ Formed(d) /\ d.outbound = c.outbound
    /\ \A o \in {"initiate_call", "accept_call"} : d.op[o] \in {None, c.op[o]}

LEMMA TameSame == ASSUME NEW c, Formed(c) PROVE Tame(c, c)
BY DEF Tame

LEMMA TameTransitive ==
    ASSUME NEW b, NEW c, NEW d, Tame(b, c), Tame(c, d)
    PROVE  Tame(b, d)
BY DEF Tame

LEMMA OnlyTame ==
    ASSUME NEW c, NEW d, NEW S, Only(c, d, S), "initiate_call" \notin S, "accept_call" \notin S
    PROVE  Tame(c, d)
BY OpsAre DEF Only, Tame, Formed

LEMMA DestructTame == ASSUME NEW c, Formed(c), NEW o \in Ops PROVE Tame(c, Destruct(c, o))
<1>1. LET d == Destruct(c, o) IN Only(c, d, {o}) /\ d.op[o] = None
      BY DestructIs
<1>   QED BY <1>1, OpsAre DEF Only, Tame, Formed

LEMMA AssureTame ==
    ASSUME NEW c, Formed(c), NEW o \in Ops \ {"initiate_call", "accept_call"}, NEW a
    PROVE  Tame(c, Assure(c, o, a))
BY AssureIs, OnlyTame

LEMMA ConstructTame ==
    ASSUME NEW c, Formed(c), NEW o \in Ops \ {"initiate_call", "accept_call"}, NEW a
    PROVE  Tame(c, Construct(c, o, a))
BY ConstructIs, OnlyTame

LEMMA ConditionalTame ==
    ASSUME NEW c, Formed(c), NEW o \in Ops \ {"initiate_call", "accept_call"}, NEW cond
    PROVE  Tame(c, Conditional(c, o, cond))
BY AssureTame, DestructTame DEF Conditional

LEMMA MembersTame ==
    ASSUME NEW c, Formed(c), NEW x
    PROVE  /\ Tame(c, [c EXCEPT !.current_pin = x])
           /\ Tame(c, [c EXCEPT !.current_ring_count = x])
<1>1. ASSUME NEW d, DOMAIN d = Members, d.op = c.op, d.outbound = c.outbound PROVE Tame(c, d)
      BY <1>1 DEF Tame, Formed
<1>   QED BY <1>1 DEF Formed, Members

LEMMA OutboundSet ==
    ASSUME NEW c, Formed(c), NEW x
    PROVE  LET d == [c EXCEPT !.outbound = x]
           IN  Formed(d) /\ d.op = c.op /\ d.outbound = x
BY DEF Formed, Members

LEMMA CompleteTame ==
    ASSUME NEW c, Formed(c)
    PROVE  Tame(c, CompleteOperation(c))
<1>   DEFINE first == SelectInSeq(Operations, LAMBDA o : Submitted(c, o))
<1>1. CompleteOperation(c) = IF st.ok /\ first # 0 THEN Destruct(c, Operations[first]) ELSE c
      BY DEF CompleteOperation
<1>   HIDE DEF first
<1>2. ASSUME NEW o PROVE Tame(c, Destruct(c, o))
  <2>1. CASE o \in Ops
        BY <2>1, DestructTame
  <2>2. CASE o \notin Ops
    <3>   DEFINE op == [c.op EXCEPT ![o] = None]
                 d == [c EXCEPT !.op = op]
    <3>1. DOMAIN op = Ops /\ \A p \in Ops : op[p] = c.op[p]
          BY <2>2 DEF Formed
    <3>   HIDE DEF op
    <3>2. Formed(d) /\ d.op = op /\ d.outbound = c.outbound
          BY <3>1 DEF Formed, Members
    <3>3. Destruct(c, o) = d
          BY DEF Destruct, op
    <3>   HIDE DEF d
    <3>   QED BY <3>1, <3>2, <3>3, OpsAre DEF Tame
  <2>   QED BY <2>1, <2>2
<1>   QED BY <1>1, <1>2, TameSame

LEMMA QcfgTame == ASSUME NEW c, Formed(c) PROVE Tame(c, ApplyQcfg(c))
<1>   DEFINE c1 == IF Submitted(c, "query_qcfg") /\ st.error
                   THEN Destruct(c, "query_qcfg") ELSE c
             c2 == IF InState("UNKNOWN") = {} THEN c1
                   ELSE Assure(c1, "query_qcfg", CHOOSE e \in InState("UNKNOWN") : TRUE)
             c3 == IF InState("MISMATCH") = {} THEN c2
                   ELSE Assure(c2, "assign_qcfg", CHOOSE e \in InState("MISMATCH") : TRUE)
<1>1. ApplyQcfg(c) = IF RebootNeeded /\ ~Constructed(c3, "reboot")
                     THEN StartReboot(c3) ELSE c3
      BY DEF ApplyQcfg
<1>2. /\ "query_qcfg" \in Ops \ {"initiate_call", "accept_call"}
      /\ "assign_qcfg" \in Ops \ {"initiate_call", "accept_call"}
      BY OpsAre
<1>3. Tame(c, c1) /\ Formed(c1)
      BY <1>2, DestructTame, TameSame DEF Tame
<1>   HIDE DEF c1
<1>4. Tame(c1, c2) /\ Formed(c2)
      BY <1>2, <1>3, AssureTame, TameSame DEF Tame
<1>   HIDE DEF c2
<1>5. Tame(c2, c3) /\ Formed(c3)
      BY <1>2, <1>4, AssureTame, TameSame DEF Tame
<1>   HIDE DEF c3
<1>6. Tame(c3, StartReboot(c3))
  <2>1. LET d == StartReboot(c3)
        IN  Only(c3, d, Ops) /\ \A o \in Ops \ {"reboot"} : d.op[o] = None
        BY <1>5, StartRebootIs
  <2>   QED BY <2>1, OpsAre DEF Only, Tame, Formed
<1>7. Tame(c, c3)
      BY <1>3, <1>4, <1>5, TameTransitive
<1>   QED BY <1>1, <1>6, <1>7, TameTransitive

LEMMA PinTame == ASSUME NEW c, Formed(c), NEW pin PROVE Tame(c, ApplyPin(c, pin))
<1>   DEFINE c1 == IF Submitted(c, "request_pin_state") /\ st.cme_error
                   THEN Destruct(c, "request_pin_state") ELSE c
             f == Destruct(c1, "set_pin")
             failed == Assure(f, "request_pin_count", None)
             asked == Assure(c1, "request_pin_state", None)
             set == Construct(c1, "set_pin", pin)
             noted == [set EXCEPT !.current_pin = pin]
<1>1. \A o \in {"request_pin_state", "request_pin_count", "set_pin"} :
         o \in Ops /\ o \in Ops \ {"initiate_call", "accept_call"}
      BY OpsAre
<1>2. Tame(c, c1) /\ Formed(c1)
      BY <1>1, DestructTame, TameSame DEF Tame
<1>3. ApplyPin(c, pin) \in {failed, asked, noted, c1}
      BY DEF ApplyPin
<1>   HIDE DEF c1
<1>4. Tame(c1, f) /\ Formed(f)
      BY <1>1, <1>2, DestructTame DEF Tame
<1>5. Tame(c1, asked)
      BY <1>1, <1>2, AssureTame
<1>6. Tame(c1, set) /\ Formed(set)
      BY <1>1, <1>2, ConstructTame DEF Tame
<1>   HIDE DEF f, set
<1>7. Tame(f, failed) /\ Tame(set, noted)
      BY <1>1, <1>4, <1>6, AssureTame, MembersTame
<1>   HIDE DEF failed, asked, noted
<1>   QED BY <1>2, <1>3, <1>4, <1>5, <1>6, <1>7, TameTransitive

LEMMA PowerTame == ASSUME NEW c, Formed(c), NEW off PROVE Tame(c, ApplyPower(c, off))
<1>   DEFINE c1 == IF Submitted(c, "power_down") /\ st.error
                   THEN Destruct(c, "power_down") ELSE c
<1>1. "power_down" \in Ops \ {"initiate_call", "accept_call"}
      BY OpsAre
<1>2. Tame(c, c1) /\ Formed(c1)
      BY <1>1, DestructTame, TameSame DEF Tame
<1>3. ApplyPower(c, off) \in {Assure(c1, "power_down", None), c1}
      BY DEF ApplyPower
<1>   HIDE DEF c1
<1>4. Tame(c1, Assure(c1, "power_down", None))
      BY <1>1, <1>2, AssureTame
<1>   QED BY <1>2, <1>3, <1>4, TameTransitive

LEMMA CallListTame == ASSUME NEW c, Formed(c) PROVE Tame(c, KeepCallListUpToDate(c))
<1>1. "request_call_list" \in Ops \ {"initiate_call", "accept_call"}
      BY OpsAre
<1>   QED BY <1>1, DestructTame, AssureTame, TameSame DEF KeepCallListUpToDate

LEMMA RingTame == ASSUME NEW c, Formed(c), NEW ring PROVE Tame(c, ApplyRing(c, ring))
<1>   DEFINE d == Construct(c, "ring", None)
<1>1. ApplyRing(c, ring) \in {[d EXCEPT !.current_ring_count = st.ring_count], c}
      BY DEF ApplyRing
<1>2. Tame(c, d) /\ Formed(d)
      BY OpsAre, ConstructTame DEF Tame
<1>   HIDE DEF d
<1>3. Tame(d, [d EXCEPT !.current_ring_count = st.ring_count])
      BY <1>2, MembersTame
<1>   QED BY <1>1, <1>2, <1>3, TameTransitive, TameSame

\* The configuration has a call that is not rejected
Wants(call) == call # None /\ call.state # "rejected"

\* If a dialling has been built between c and d, one was wanted and none was noted
DialStep(c, d, n, call) ==
    /\ DialControl(d, n)
    /\ Waits(d, "initiate_call") => \/ Waits(c, "initiate_call")
                                    \/ Wants(call) /\ c.outbound = None /\ d.outbound # None
    /\ Wants(call) /\ d.outbound = None => c.outbound = None

LEMMA DialTransitive ==
    ASSUME NEW b, NEW c, NEW d, NEW n, NEW call, DialStep(b, c, n, call), DialStep(c, d, n, call)
    PROVE  DialStep(b, d, n, call)
BY DEF DialStep

LEMMA DialSame ==
    ASSUME NEW c, NEW n, DialControl(c, n), NEW call
    PROVE  DialStep(c, c, n, call)
BY DEF DialStep

LEMMA TameDials ==
    ASSUME NEW c, NEW d, NEW n, DialControl(c, n), Tame(c, d), NEW call
    PROVE  DialStep(c, d, n, call)
BY DEF Tame, DialControl, DialStep, Waits, Constructed

\* What the driver knows of the calls
DialStatus(n) ==
    /\ DOMAIN st = StatusMembers /\ st.no_carrier_count \in Nat
    /\ st.current_call \in {None} \union CallsTo(n)

LEMMA OutboundDials ==
    ASSUME NEW c, NEW n, DialControl(c, n), NEW x \in {None} \union Outbound(n), NEW call,
           Wants(call) /\ x = None => c.outbound = None
    PROVE  DialStep(c, [c EXCEPT !.outbound = x], n, call)
<1>   DEFINE d == [c EXCEPT !.outbound = x]
<1>1. Formed(d) /\ d.op = c.op /\ d.outbound = x
      BY OutboundSet DEF DialControl
<1>   HIDE DEF d
<1>2. DialControl(d, n)
      BY <1>1 DEF DialControl
<1>3. Waits(d, "initiate_call") => Waits(c, "initiate_call")
      BY <1>1 DEF Waits, Constructed
<1>4. DialStep(c, d, n, call)
      BY <1>1, <1>2, <1>3 DEF DialStep
<1>   QED BY <1>4 DEF d

LEMMA HangUpDials ==
    ASSUME NEW c, NEW n, DialControl(c, n), NEW call
    PROVE  DialStep(c, ApplyHangUp(c, call), n, call)
<1>   DEFINE h == Construct(c, "hang_up", None)
             g == [h EXCEPT !.outbound = None]
             c1 == IF c.outbound # None /\ (call = None \/ Rejected(call)) THEN g ELSE c
             e == Construct(c1, "hang_up", None)
<1>1. ApplyHangUp(c, call) \in {c, c1, e}
      BY DEF ApplyHangUp
<1>2. "hang_up" \in Ops \ {"initiate_call", "accept_call"}
      BY OpsAre
<1>3. DialStep(c, h, n, call)
      BY <1>2, ConstructTame, TameDials DEF DialControl
<1>4. ASSUME call = None \/ Rejected(call) PROVE DialStep(c, g, n, call)
  <2>1. ~Wants(call)
        BY <1>4 DEF Wants, Rejected
  <2>2. DialControl(h, n)
        BY <1>3 DEF DialStep
  <2>   HIDE DEF h
  <2>3. DialStep(h, g, n, call)
        BY <2>1, <2>2, OutboundDials
  <2>   QED BY <1>3, <2>3, DialTransitive
<1>5. DialStep(c, c1, n, call)
      BY <1>4, DialSame
<1>   HIDE DEF c1
<1>6. DialStep(c1, e, n, call)
      BY <1>2, <1>5, ConstructTame, TameDials DEF DialStep, DialControl
<1>   QED BY <1>1, <1>5, <1>6, DialTransitive, DialSame

LEMMA NoteDials ==
    ASSUME NEW c, NEW n, DialControl(c, n), DialStatus(n), n \in Numbers, NEW call
    PROVE  DialStep(c, NoteCall(c), n, call)
<1>1. CASE st.current_call # None /\ c.outbound # None
  <2>   DEFINE x == [c.outbound EXCEPT !.call = st.current_call]
  <2>1. NoteCall(c) = [c EXCEPT !.outbound = x]
        BY <1>1 DEF NoteCall
  <2>2. x \in Outbound(n)
        BY <1>1 DEF DialControl, DialStatus, Outbound
  <2>   HIDE DEF x
  <2>3. x # None
    <3>1. Outbound(n) \subseteq [call : [number : Numbers, stat : {"DIALING", "ACTIVE"}],
                                 no_carrier_count : Nat]
          BY DEF Outbound, CallsTo
    <3>   QED BY <2>2, <3>1, NoneAssumption
  <2>   QED BY <2>1, <2>2, <2>3, OutboundDials
<1>2. CASE ~(st.current_call # None /\ c.outbound # None)
      BY <1>2, DialSame DEF NoteCall
<1>   QED BY <1>1, <1>2

\* No call has come in that could be accepted
LEMMA NothingToAccept ==
    ASSUME NEW c, NEW n, DialStatus(n), NEW accepted
    PROVE  AcceptCall(c, accepted) = c
<1>1. st.current_call # None => st.current_call.stat # "INCOMING"
      BY DEF DialStatus, CallsTo
<1>   QED BY <1>1 DEF AcceptCall

\* There is no other number the outbound call could have
LEMMA NothingToForget ==
    ASSUME NEW c, NEW n, DialControl(c, n)
    PROVE  ForgetOutbound(c, n) = c
<1>1. c.outbound # None => c.outbound.call.number = n
      BY DEF DialControl, Outbound, CallsTo
<1>   QED BY <1>1 DEF ForgetOutbound

LEMMA InitiateDials ==
    ASSUME NEW c, NEW n, DialControl(c, n), DialStatus(n), n \in Numbers, NEW call,
           call # None, NEW accepted, accepted => call.state # "rejected"
    PROVE  DialStep(c, InitiateCall(c, n, accepted), n, call)
<1>   DEFINE x == [call |-> [number |-> n, stat |-> "DIALING"],
                   no_carrier_count |-> st.no_carrier_count]
             b == Construct(c, "initiate_call", n)
             d == [b EXCEPT !.outbound = x]
<1>1. CASE InitiateCall(c, n, accepted) = d /\ accepted /\ c.outbound = None
  <2>1. Only(c, b, {"initiate_call"}) /\ b.op["initiate_call"] = Fresh(n) /\ Formed(b)
        BY OpsAre, ConstructIs DEF DialControl, Only, Formed
  <2>   HIDE DEF b
  <2>2. Formed(d) /\ d.op = b.op /\ d.outbound = x
        BY <2>1, OutboundSet
  <2>   HIDE DEF d
  <2>3. x \in Outbound(n) /\ x # None
    <3>1. /\ x \in [call : [number : Numbers, stat : {"DIALING", "ACTIVE"}],
                    no_carrier_count : Nat]
          /\ x \in Outbound(n)
          BY DEF Outbound, CallsTo, DialStatus
    <3>   QED BY <3>1, NoneAssumption
  <2>   HIDE DEF x
  <2>4. Fresh(n) \in Dialling(n)
        BY DEF Fresh, Dialling
  <2>5. d.op["accept_call"] = None
        BY <2>1, <2>2, OpsAre DEF Only, DialControl
  <2>6. DialControl(d, n)
        BY <2>1, <2>2, <2>3, <2>4, <2>5 DEF DialControl
  <2>7. Wants(call)
        BY <1>1 DEF Wants
  <2>8. d.outbound # None
        BY <2>2, <2>3
  <2>   QED BY <1>1, <2>6, <2>7, <2>8 DEF DialStep
<1>2. CASE InitiateCall(c, n, accepted) = c
      BY <1>2, DialSame
<1>   QED BY <1>1, <1>2 DEF InitiateCall

LEMMA CallDials ==
    ASSUME NEW c, NEW n, DialControl(c, n), DialStatus(n), n \in Numbers, NEW call,
           call = None \/ call.number = n
    PROVE  DialStep(c, ApplyCall(c, call), n, call)
<1>1. CASE ApplyCall(c, call) = c
      BY <1>1, DialSame
<1>2. CASE call # None /\ ApplyCall(c, call) # c
  <2>   DEFINE accepted == call.state \in {"none", "accepted"}
               b == NoteCall(c)
  <2>1. ApplyCall(c, call) = InitiateCall(ForgetOutbound(AcceptCall(b, accepted), call.number),
                                          call.number, accepted)
        BY <1>2 DEF ApplyCall
  <2>2. accepted => call.state # "rejected"
        OBVIOUS
  <2>   HIDE DEF accepted
  <2>3. DialStep(c, b, n, call) /\ DialControl(b, n)
        BY NoteDials DEF DialStep
  <2>   HIDE DEF b
  <2>4. AcceptCall(b, accepted) = b
        BY NothingToAccept
  <2>5. ForgetOutbound(b, n) = b
        BY <2>3, NothingToForget
  <2>6. ApplyCall(c, call) = InitiateCall(b, n, accepted)
        BY <1>2, <2>1, <2>4, <2>5
  <2>7. DialStep(b, InitiateCall(b, n, accepted), n, call)
        BY <1>2, <2>2, <2>3, InitiateDials
  <2>   QED BY <2>3, <2>6, <2>7, DialTransitive
<1>   QED BY <1>1, <1>2 DEF ApplyCall

LEMMA AppliedDials ==
    ASSUME NEW n, DialControl(ct, n), DialStatus(n), n \in Numbers,
           config.call = None \/ config.call.number = n
    PROVE  DialStep(ct, Applied, n, config.call)
<1>   DEFINE c0 == CompleteOperation(ct)
             c  == Prepared
             c1 == Conditional(c, "disable_echo", ~st.echo_disabled /\ st.at_ok)
             q  == ApplyQcfg(c1)
             p  == ApplyPin(q, config.pin)
             c2 == ApplyPower(p, config.off)
             h  == ApplyHangUp(c2, config.call)
             c3 == KeepCallListUpToDate(h)
             c4 == ApplyCall(c3, config.call)
             c5 == ApplyRing(c4, config.ring)
             Step(x, y) == DialStep(x, y, n, config.call)
<1>1. Applied \in {c, c1, c5}
      BY DEF Applied, ControlApplyConfig
<1>2. /\ "check_ready" \in Ops \ {"initiate_call", "accept_call"}
      /\ "disable_echo" \in Ops \ {"initiate_call", "accept_call"}
      BY OpsAre
<1>3. ASSUME NEW x, NEW y, DialControl(x, n), Tame(x, y)
      PROVE  Step(x, y) /\ DialControl(y, n) /\ Formed(y)
      BY <1>3, TameDials DEF DialStep, DialControl
<1>4. Tame(ct, c0)
      BY CompleteTame DEF DialControl
<1>5. Step(ct, c0) /\ DialControl(c0, n) /\ Formed(c0)
      BY <1>3, <1>4
<1>   HIDE DEF c0
<1>6. Tame(c0, c)
      BY <1>2, <1>5, ConditionalTame DEF Prepared, c0
<1>7. Step(c0, c) /\ DialControl(c, n) /\ Formed(c)
      BY <1>3, <1>5, <1>6
<1>   HIDE DEF c
<1>8. Tame(c, c1)
      BY <1>2, <1>7, ConditionalTame
<1>9. Step(c, c1) /\ DialControl(c1, n) /\ Formed(c1)
      BY <1>3, <1>7, <1>8
<1>   HIDE DEF c1
<1>10. Tame(c1, q)
       BY <1>9, QcfgTame
<1>11. Step(c1, q) /\ DialControl(q, n) /\ Formed(q)
       BY <1>3, <1>9, <1>10
<1>   HIDE DEF q
<1>12. Tame(q, p)
       BY <1>11, PinTame
<1>13. Step(q, p) /\ DialControl(p, n) /\ Formed(p)
       BY <1>3, <1>11, <1>12
<1>   HIDE DEF p
<1>14. Tame(p, c2)
       BY <1>13, PowerTame
<1>15. Step(p, c2) /\ DialControl(c2, n)
       BY <1>3, <1>13, <1>14
<1>   HIDE DEF c2
<1>16. Step(c2, h) /\ DialControl(h, n) /\ Formed(h)
       BY <1>15, HangUpDials DEF DialStep, DialControl
<1>   HIDE DEF h
<1>17. Tame(h, c3)
       BY <1>16, CallListTame
<1>18. Step(h, c3) /\ DialControl(c3, n)
       BY <1>3, <1>16, <1>17
<1>   HIDE DEF c3
<1>19. Step(c3, c4) /\ DialControl(c4, n) /\ Formed(c4)
       BY <1>18, CallDials DEF DialStep, DialControl
<1>   HIDE DEF c4
<1>20. Tame(c4, c5)
       BY <1>19, RingTame
<1>21. Step(c4, c5)
       BY <1>3, <1>19, <1>20
<1>   HIDE DEF c5
<1>22. Step(ct, c) /\ Step(c, q) /\ Step(q, c2) /\ Step(c2, c3) /\ Step(c3, c5)
       BY <1>5, <1>7, <1>9, <1>11, <1>13, <1>15, <1>16, <1>18, <1>19, <1>21, DialTransitive
<1>23. Step(ct, q) /\ Step(ct, c1) /\ Step(c2, c5)
       BY <1>7, <1>9, <1>22, DialTransitive
<1>24. Step(ct, c5)
       BY <1>22, <1>23, DialTransitive
<1>   QED BY <1>1, <1>22, <1>23, <1>24

-------------------------------------------------------------------------------
(* The invariant: diallings and changes of the configuration *)

\* A call of the modem and a dialling that is pending count once
Calling(m)  == IF m.call = None THEN 0 ELSE 1
DialWaits(c) == IF Waits(c, "initiate_call") THEN 1 ELSE 0

\* The lines NO CARRIER there have been, are under way, or may still be due to a dialling
Dialled == st.no_carrier_count + Occurs(line, "kind", "NO CARRIER") + Calling(modem)
              + Occurs(command, "op", "initiate_call") + DialWaits(ct)

Changes == MaxConfigs - left.configs

\* Commands and lines before a call has come in
DialCommand(cmd, n) == /\ cmd.op \in Ops \ {"accept_call"}
                       /\ cmd.op = "initiate_call" => cmd.arg = n
DialLine(l, n) == l.kind = "CLCC" => l.arg \in CallsTo(n)

DialModem(n) == "call" \in DOMAIN modem /\ modem.call \in {None} \union CallsTo(n)

DialQueues(n) ==
    /\ IsSeq(command) /\ \A i \in 1 .. Len(command) : DialCommand(command[i], n)
    /\ IsSeq(line) /\ \A i \in 1 .. Len(line) : DialLine(line[i], n)

\* A dialling whose call is still noted is one more than there were changes
DialledInv == /\ Dialled <= Changes + 1
              /\ Wants(config.call) /\ ct.outbound = None => Dialled <= Changes

\* Up to the first call that comes in
BeforeCalls(n) ==
    DialControl(ct, n) /\ DialStatus(n) /\ DialModem(n) /\ DialQueues(n) /\ DialledInv

LeftType == left \in [Bounds -> Int] /\ left.calls <= MaxCalls

RedialInv(n) == /\ config \in Configs /\ LeftType
                /\ left.calls = MaxCalls => BeforeCalls(n)

LEMMA DialledType ==
    ASSUME NEW n, DialStatus(n), DialQueues(n)
    PROVE  /\ st.no_carrier_count \in Nat
           /\ Occurs(line, "kind", "NO CARRIER") \in Nat
           /\ Occurs(command, "op", "initiate_call") \in Nat
<1>1. Len(line) \in Nat /\ Len(command) \in Nat
      BY DEF DialQueues, IsSeq
<1>   QED BY <1>1, PlacesFinite DEF DialStatus

-------------------------------------------------------------------------------
(* The modem *)

\* What it sends has no NO CARRIER in it, and it dials when it is told to
LEMMA RespondDials ==
    ASSUME NEW n, DialModem(n), NEW cmd, DialCommand(cmd, n), Respond(cmd)
    PROVE  /\ DialModem(n)'
           /\ modem'.call # None => modem.call # None \/ cmd.op = "initiate_call"
           /\ \E ls : /\ IsSeq(ls) /\ line' = line \o ls
                      /\ \A i \in 1 .. Len(ls) : /\ DialLine(ls[i], n)
                                                 /\ ls[i].kind # "NO CARRIER"
<1>   DEFINE L(kind, arg, re) == Line(kind, arg, re)
             OK == Line("OK", None, cmd.op)
             Mild(ls) == /\ IsSeq(ls)
                         /\ \A i \in 1 .. Len(ls) : /\ DialLine(ls[i], n)
                                                    /\ ls[i].kind # "NO CARRIER"
             Calm(m) == /\ "call" \in DOMAIN m /\ m.call \in {None} \union CallsTo(n)
                        /\ m.call # None => modem.call # None \/ cmd.op = "initiate_call"
             Good(l) == DialLine(l, n) /\ l.kind # "NO CARRIER"
<1>1. ASSUME NEW l, Good(l) PROVE Mild(<<l>>)
  <2>   DEFINE ls == <<l>>
  <2>1. ls \in Seq({l}) /\ \A i \in 1 .. Len(ls) : ls[i] = l
        OBVIOUS
  <2>   HIDE DEF ls
  <2>2. Mild(ls)
        BY <1>1, <2>1, SeqIs
  <2>   QED BY <2>2 DEF ls
<1>2. ASSUME NEW l, NEW m, Good(l), Good(m) PROVE Mild(<<l, m>>)
  <2>1. /\ <<l, m>> \in Seq({l, m}) /\ Len(<<l, m>>) = 2
        /\ \A i \in 1 .. 2 : <<l, m>>[i] \in {l, m}
        OBVIOUS
  <2>   QED BY <1>2, <2>1, SeqIs
<1>3. ASSUME NEW kind, NEW arg, NEW re, kind \notin {"CLCC", "NO CARRIER"}
      PROVE  Good(Line(kind, arg, re))
      BY <1>3 DEF Line, DialLine
<1>4. Good(OK) /\ Calm(modem)
      BY <1>3 DEF DialModem
<1>   HIDE DEF OK, Good
<1>5. Mild(<<OK>>)
      BY <1>1, <1>4
<1>6. SUFFICES \E m, ls : Sends(m, ls) /\ Calm(m) /\ Mild(ls)
  <2>1. PICK m, ls : Sends(m, ls) /\ Calm(m) /\ Mild(ls)
        BY <1>6
  <2>   QED BY <2>1 DEF Sends, DialModem
<1>   HIDE DEF Mild
<1>7. CASE cmd.op \in {"check_ready", "ring", "request_pin_count"}
  <2>1. Sends(modem, <<OK>>)
        BY <1>7 DEF Respond, OK
  <2>   QED BY <1>4, <1>5, <2>1
<1>8. CASE cmd.op = "disable_echo"
  <2>   DEFINE m == [modem EXCEPT !.echo = FALSE]
  <2>1. Sends(m, <<OK>>)
        BY <1>8 DEF Respond, OK
  <2>2. Calm(m)
        BY <1>4
  <2>   HIDE DEF m, Calm
  <2>   QED BY <1>5, <2>1, <2>2
<1>9. CASE cmd.op = "request_pin_state"
  <2>   DEFINE b == Line("CME BUSY", None, cmd.op)
               c == Line("CPIN", modem.sim, cmd.op)
  <2>1. Sends(modem, <<b>>) \/ Sends(modem, <<c, OK>>)
        BY <1>9 DEF Respond, OK
  <2>2. Good(b) /\ Good(c)
        BY <1>3
  <2>   HIDE DEF b, c
  <2>3. Mild(<<b>>) /\ Mild(<<c, OK>>)
        BY <1>1, <1>2, <1>4, <2>2
  <2>   QED BY <1>4, <2>1, <2>3
<1>10. CASE cmd.op = "set_pin"
  <2>   DEFINE b == Line("CME BUSY", None, cmd.op)
               w == Line("CME 16", None, cmd.op)
               c == Line("CPIN", "READY", None)
               m1 == [modem EXCEPT !.sim = "READY", !.tries = 3]
               m2 == [modem EXCEPT !.tries = @ - 1,
                                   !.sim = IF modem.tries = 1 THEN "SIM PUK" ELSE @]
  <2>1. Sends(modem, <<b>>) \/ Sends(m1, <<OK, c>>) \/ Sends(m2, <<w>>)
        BY <1>10 DEF Respond, OK
  <2>2. Good(b) /\ Good(c) /\ Good(w)
        BY <1>3
  <2>   HIDE DEF b, c, w
  <2>3. Mild(<<b>>) /\ Mild(<<OK, c>>) /\ Mild(<<w>>)
        BY <1>1, <1>2, <1>4, <2>2
  <2>4. Calm(m1)
    <3>1. DOMAIN m1 = DOMAIN modem /\ m1.call = modem.call
          BY <1>4
    <3>   QED BY <1>4, <3>1
  <2>5. Calm(m2)
    <3>1. DOMAIN m2 = DOMAIN modem /\ m2.call = modem.call
          BY <1>4
    <3>   QED BY <1>4, <3>1
  <2>   HIDE DEF m1, m2, Calm
  <2>   QED BY <1>4, <2>1, <2>3, <2>4, <2>5
<1>11. CASE cmd.op = "power_down"
  <2>   DEFINE m == [modem EXCEPT !.run = "off", !.call = None]
               d == Line("POWERED DOWN", None, cmd.op)
  <2>1. Sends(m, <<d>>)
        BY <1>11 DEF Respond
  <2>2. Mild(<<d>>)
    <3>1. Good(d)
          BY <1>3
    <3>   HIDE DEF d
    <3>   QED BY <1>1, <3>1
  <2>3. Calm(m)
        BY <1>4
  <2>   HIDE DEF m, d, Calm
  <2>   QED BY <2>1, <2>2, <2>3
<1>12. CASE cmd.op = "reboot"
  <2>   DEFINE m == [modem EXCEPT !.run = "boot", !.echo = TRUE, !.sim = "BUSY", !.call = None]
  <2>1. Sends(m, <<OK>>)
        BY <1>12 DEF Respond, OK
  <2>2. Calm(m)
        BY <1>4
  <2>   HIDE DEF m, Calm
  <2>   QED BY <1>5, <2>1, <2>2
<1>13. CASE cmd.op = "query_qcfg"
  <2>   DEFINE c == Line("QCFG", <<cmd.arg, modem.setting[cmd.arg]>>, cmd.op)
  <2>1. Sends(modem, <<c, OK>>)
        BY <1>13 DEF Respond, OK
  <2>2. Good(c)
        BY <1>3
  <2>   HIDE DEF c
  <2>3. Mild(<<c, OK>>)
        BY <1>2, <1>4, <2>2
  <2>   QED BY <1>4, <2>1, <2>3
<1>14. CASE cmd.op = "assign_qcfg"
  <2>   DEFINE m == [modem EXCEPT !.setting[cmd.arg] = TRUE]
  <2>1. Sends(m, <<OK>>)
        BY <1>14 DEF Respond, OK
  <2>2. Calm(m)
    <3>1. DOMAIN m = DOMAIN modem /\ m.call = modem.call
          BY <1>4
    <3>   QED BY <1>4, <3>1
  <2>   HIDE DEF m, Calm
  <2>   QED BY <1>5, <2>1, <2>2
<1>15. CASE cmd.op = "request_call_list"
  <2>   DEFINE c == Line("CLCC", modem.call, cmd.op)
  <2>1. Sends(modem, CallLine(cmd.op) \o <<OK>>)
        BY <1>15 DEF Respond, OK
  <2>2. CASE modem.call = None
    <3>1. CallLine(cmd.op) \o <<OK>> = <<OK>>
      <4>1. <<>> \o <<OK>> = <<OK>>
            OBVIOUS
      <4>   QED BY <2>2, <4>1 DEF CallLine
    <3>   QED BY <1>4, <1>5, <2>1, <3>1
  <2>3. CASE modem.call # None
    <3>1. Good(c)
      <4>1. c.kind = "CLCC" /\ c.arg = modem.call
            BY DEF Line
      <4>   QED BY <2>3, <4>1 DEF Good, DialLine, DialModem
    <3>2. CallLine(cmd.op) = <<c>>
          BY <2>3 DEF CallLine
    <3>   HIDE DEF c
    <3>3. <<c>> \o <<OK>> = <<c, OK>>
      <4>1. ASSUME NEW a, NEW b PROVE <<a>> \o <<b>> = <<a, b>>
        <5>   DEFINE u == <<a>> \o <<b>>
        <5>1. u \in Seq({a, b}) /\ Len(u) = 2 /\ u[1] = a /\ u[2] = b
              OBVIOUS
        <5>2. <<a, b>> \in Seq({a, b}) /\ Len(<<a, b>>) = 2
              OBVIOUS
        <5>   HIDE DEF u
        <5>3. u = <<a, b>>
              BY <5>1, <5>2
        <5>   QED BY <5>3 DEF u
      <4>   QED BY <4>1
    <3>4. Mild(<<c, OK>>)
          BY <1>2, <1>4, <3>1
    <3>   QED BY <1>4, <2>1, <3>2, <3>3, <3>4
  <2>   QED BY <2>2, <2>3
<1>16. CASE cmd.op = "initiate_call"
  <2>   DEFINE m == [modem EXCEPT !.call = [number |-> cmd.arg, stat |-> "DIALING"]]
  <2>1. Sends(m, <<OK>>) \/ Sends(modem, <<OK>>)
        BY <1>16 DEF Respond, OK
  <2>2. Calm(m)
        BY <1>4, <1>16 DEF DialCommand, CallsTo
  <2>   HIDE DEF m, Calm
  <2>   QED BY <1>4, <1>5, <2>1, <2>2
<1>17. CASE cmd.op = "hang_up"
  <2>   DEFINE m == [modem EXCEPT !.call = None]
  <2>1. Sends(m, <<OK>>)
        BY <1>17 DEF Respond, OK
  <2>2. Calm(m)
        BY <1>4
  <2>   HIDE DEF m, Calm
  <2>   QED BY <1>5, <2>1, <2>2
<1>   QED BY <1>7, <1>8, <1>9, <1>10, <1>11, <1>12, <1>13, <1>14, <1>15, <1>16, <1>17, OpsAre
           DEF DialCommand

LEMMA CountedOnce ==
    /\ \A m : Calling(m) \in {0, 1} /\ (Calling(m) = 0 <=> m.call = None)
    /\ \A c : DialWaits(c) \in {0, 1} /\ (DialWaits(c) = 1 <=> Waits(c, "initiate_call"))
BY DEF Calling, DialWaits

LEMMA QueueTail ==
    ASSUME NEW s, IsSeq(s), s # <<>>
    PROVE  /\ IsSeq(Tail(s)) /\ Len(Tail(s)) \in Nat /\ Len(s) \in Nat /\ 1 \in 1 .. Len(s)
           /\ Head(s) = s[1]
           /\ \A i \in 1 .. Len(Tail(s)) : i + 1 \in 1 .. Len(s) /\ Tail(s)[i] = s[i + 1]
           /\ \A f, x : Occurs(s, f, x) = Occurs(Tail(s), f, x) + (IF Head(s)[f] = x THEN 1 ELSE 0)
<1>   DEFINE S == {s[i] : i \in DOMAIN s}
<1>1. s \in Seq(S)
      BY DEF IsSeq
<1>   HIDE DEF S
<1>2. /\ Tail(s) \in Seq(S) /\ Len(s) \in Nat /\ Len(s) >= 1 /\ Len(Tail(s)) = Len(s) - 1
      /\ Head(s) = s[1]
      /\ \A i \in 1 .. Len(Tail(s)) : i + 1 \in 1 .. Len(s) /\ Tail(s)[i] = s[i + 1]
      BY <1>1, TailIs
<1>3. IsSeq(Tail(s))
      BY <1>2, SeqIs
<1>4. \A f, x : Occurs(s, f, x) = Occurs(Tail(s), f, x) + (IF Head(s)[f] = x THEN 1 ELSE 0)
      BY <1>1, OccursTail
<1>   QED BY <1>2, <1>3, <1>4

LEMMA QueueConcat ==
    ASSUME NEW s, IsSeq(s), NEW t, IsSeq(t)
    PROVE  LET u == s \o t
           IN  /\ IsSeq(u) /\ Len(s) \in Nat /\ Len(t) \in Nat
               /\ \A i \in 1 .. Len(u) : \/ i \in 1 .. Len(s) /\ u[i] = s[i]
                                         \/ \E j \in 1 .. Len(t) : u[i] = t[j]
               /\ \A f, x : Occurs(u, f, x) = Occurs(s, f, x) + Occurs(t, f, x)
<1>   DEFINE S == {s[i] : i \in DOMAIN s} \union {t[i] : i \in DOMAIN t}
             u == s \o t
<1>1. s \in Seq(S) /\ t \in Seq(S)
      BY DEF IsSeq
<1>   HIDE DEF S
<1>2. /\ u \in Seq(S) /\ Len(s) \in Nat /\ Len(t) \in Nat
      /\ \A i \in 1 .. Len(s) : u[i] = s[i]
      /\ \A i \in 1 .. Len(u) : i \notin 1 .. Len(s) =>
            i - Len(s) \in 1 .. Len(t) /\ u[i] = t[i - Len(s)]
      BY <1>1, ConcatIs
<1>3. \A f, x : Occurs(u, f, x) = Occurs(s, f, x) + Occurs(t, f, x)
      BY <1>1, OccursConcat
<1>   HIDE DEF u
<1>4. IsSeq(u)
      BY <1>2, SeqIs
<1>5. \A i \in 1 .. Len(u) : \/ i \in 1 .. Len(s) /\ u[i] = s[i]
                             \/ \E j \in 1 .. Len(t) : u[i] = t[j]
      BY <1>2
<1>   QED BY <1>2, <1>3, <1>4, <1>5 DEF u

LEMMA NoLines == IsSeq(<<>>) /\ Len(<<>>) = 0 /\ \A f, x : Occurs(<<>>, f, x) = 0
<1>1. <<>> \in Seq({}) /\ Len(<<>>) = 0 /\ 1 .. 0 = {}
      OBVIOUS
<1>2. IsSeq(<<>>)
      BY <1>1, SeqIs
<1>3. ASSUME NEW f, NEW x PROVE Occurs(<<>>, f, x) = 0
      BY <1>1, OccursNone
<1>   QED BY <1>1, <1>2, <1>3

LEMMA OneLineIs ==
    ASSUME NEW l
    PROVE  IsSeq(<<l>>) /\ \A i \in 1 .. Len(<<l>>) : <<l>>[i] = l
<1>1. <<l>> \in Seq({l}) /\ \A i \in 1 .. Len(<<l>>) : <<l>>[i] = l
      OBVIOUS
<1>   QED BY <1>1, SeqIs

LEMMA DialledNat ==
    ASSUME NEW n, DialStatus(n), DialQueues(n)
    PROVE  Dialled \in Nat
<1>   DEFINE x == Calling(modem)
             w == DialWaits(ct)
             nc == st.no_carrier_count
             a == Occurs(line, "kind", "NO CARRIER")
             b == Occurs(command, "op", "initiate_call")
<1>1. x \in {0, 1} /\ w \in {0, 1}
      BY CountedOnce
<1>2. nc \in Nat /\ a \in Nat /\ b \in Nat
      BY DialledType
<1>3. Dialled = nc + a + x + b + w
      BY DEF Dialled
<1>   HIDE DEF x, w, nc, a, b
<1>   QED BY <1>1, <1>2, <1>3

\* The first command is taken, or none
Served(cmds) == command' = cmds /\ (cmds = command \/ (command # <<>> /\ cmds = Tail(command)))

\* The lines ls, and what is left then, take no more than there was
Spends(ls, cmds) ==
    Occurs(ls, "kind", "NO CARRIER") + Calling(modem') + Occurs(cmds, "op", "initiate_call")
        <= Calling(modem) + Occurs(command, "op", "initiate_call")

LEMMA SpentSum ==
    ASSUME NEW nc \in Nat, NEW a \in Nat, NEW b \in Nat, NEW d \in Nat, NEW e \in Nat,
           NEW x \in {0, 1}, NEW y \in {0, 1}, NEW w \in {0, 1}, b + y + e <= x + d
    PROVE  /\ nc + a + x + d + w \in Nat /\ nc + (a + b) + y + e + w \in Nat
           /\ nc + (a + b) + y + e + w <= nc + a + x + d + w
OBVIOUS

LEMMA ServedCommands ==
    ASSUME NEW n, DialQueues(n), NEW cmds, Served(cmds)
    PROVE  IsSeq(cmds) /\ \A i \in 1 .. Len(cmds) : DialCommand(cmds[i], n)
<1>1. CASE cmds = command
      BY <1>1 DEF DialQueues
<1>2. CASE command # <<>> /\ cmds = Tail(command)
  <2>   DEFINE t == Tail(command)
  <2>1. /\ IsSeq(t)
        /\ \A i \in 1 .. Len(t) : i + 1 \in 1 .. Len(command) /\ t[i] = command[i + 1]
        BY <1>2, QueueTail DEF DialQueues
  <2>   HIDE DEF t
  <2>2. \A i \in 1 .. Len(t) : DialCommand(t[i], n)
        BY <2>1 DEF DialQueues
  <2>   QED BY <1>2, <2>1, <2>2 DEF t
<1>   QED BY <1>1, <1>2 DEF Served

\* Whatever the modem does, it needs a dialling or a call for a NO CARRIER
LEMMA ModemDials ==
    ASSUME NEW n, BeforeCalls(n), UNCHANGED <<st, ct, config>>,
           left.configs \in Int, left'.configs = left.configs,
           DialModem(n)', NEW ls, IsSeq(ls), line' = line \o ls,
           \A i \in 1 .. Len(ls) : DialLine(ls[i], n),
           NEW cmds, Served(cmds), Spends(ls, cmds)
    PROVE  BeforeCalls(n)'
<1>1. /\ DialControl(ct, n) /\ DialStatus(n) /\ DialModem(n) /\ DialQueues(n) /\ DialledInv
      BY DEF BeforeCalls
<1>2. DialControl(ct', n) /\ DialStatus(n)'
      BY <1>1 DEF DialStatus
<1>3. /\ IsSeq(line) /\ \A i \in 1 .. Len(line) : DialLine(line[i], n)
      /\ IsSeq(command) /\ \A i \in 1 .. Len(command) : DialCommand(command[i], n)
      BY <1>1 DEF DialQueues
<1>4. LET u == line \o ls
      IN  /\ IsSeq(u) /\ Len(line) \in Nat /\ Len(ls) \in Nat
          /\ \A i \in 1 .. Len(u) : \/ i \in 1 .. Len(line) /\ u[i] = line[i]
                                    \/ \E j \in 1 .. Len(ls) : u[i] = ls[j]
          /\ \A f, x : Occurs(u, f, x) = Occurs(line, f, x) + Occurs(ls, f, x)
      BY <1>3, QueueConcat
<1>5. DialQueues(n)'
  <2>1. IsSeq(line') /\ \A i \in 1 .. Len(line') : DialLine(line'[i], n)
        BY <1>3, <1>4
  <2>2. IsSeq(cmds) /\ \A i \in 1 .. Len(cmds) : DialCommand(cmds[i], n)
        BY <1>1, ServedCommands
  <2>3. command' = cmds
        BY DEF Served
  <2>   QED BY <2>1, <2>2, <2>3 DEF DialQueues
<1>6. Dialled \in Nat /\ Dialled' \in Nat /\ Dialled' <= Dialled
  <2>   DEFINE nc == st.no_carrier_count
               a  == Occurs(line, "kind", "NO CARRIER")
               b  == Occurs(ls, "kind", "NO CARRIER")
               d  == Occurs(command, "op", "initiate_call")
               e  == Occurs(cmds, "op", "initiate_call")
               x  == Calling(modem)
               y  == Calling(modem')
               w  == DialWaits(ct)
  <2>1. nc \in Nat /\ a \in Nat /\ d \in Nat
        BY <1>1, DialledType
  <2>2. e \in Nat
    <3>1. IsSeq(cmds)
          BY <1>1, ServedCommands
    <3>2. Len(cmds) \in Nat
          BY <3>1 DEF IsSeq
    <3>   QED BY <3>2, PlacesFinite
  <2>3. Occurs(line', "kind", "NO CARRIER") = a + b /\ b \in Nat
        BY <1>4, PlacesFinite
  <2>4. x \in {0, 1} /\ y \in {0, 1} /\ w \in {0, 1}
        BY CountedOnce
  <2>5. Dialled = nc + a + x + d + w
        BY DEF Dialled
  <2>6. command' = cmds /\ st' = st /\ ct' = ct
        BY DEF Served
  <2>7. Dialled' = nc + Occurs(line', "kind", "NO CARRIER") + y + e + w
        BY <2>6 DEF Dialled
  <2>8. b + y + e <= x + d
        BY DEF Spends
  <2>   HIDE DEF nc, a, b, d, e, x, y, w
  <2>9. /\ nc + a + x + d + w \in Nat /\ nc + (a + b) + y + e + w \in Nat
        /\ nc + (a + b) + y + e + w <= nc + a + x + d + w
        BY <2>1, <2>2, <2>3, <2>4, <2>8, SpentSum
  <2>10. Dialled' = nc + (a + b) + y + e + w
        BY <2>3, <2>7
  <2>   QED BY <2>5, <2>9, <2>10
<1>7. Changes \in Int /\ Changes' = Changes
  <2>1. MaxConfigs \in Int
        BY AtProtocolAssumption
  <2>   QED BY <2>1 DEF Changes
<1>8. DialledInv'
  <2>1. config' = config /\ ct' = ct
        OBVIOUS
  <2>2. Dialled' <= Changes + 1
        BY <1>1, <1>6, <1>7 DEF DialledInv
  <2>3. Dialled <= Changes => Dialled' <= Changes
        BY <1>6, <1>7
  <2>   QED BY <1>1, <1>7, <2>1, <2>2, <2>3 DEF DialledInv
<1>   QED BY <1>2, <1>5, <1>8 DEF BeforeCalls

\* A call is kept, or made because of the command taken
Dials(cmds) ==
    modem'.call # None =>
        \/ modem.call # None
        \/ (command # <<>> /\ cmds = Tail(command) /\ Head(command).op = "initiate_call")

\* What may be sent without a call having ended
MildLine(l, n) == DialLine(l, n) /\ l.kind # "NO CARRIER"
Mild(ls, n) == IsSeq(ls) /\ \A i \in 1 .. Len(ls) : MildLine(ls[i], n)

LEMMA IsSeqLen == ASSUME NEW s, IsSeq(s) PROVE Len(s) \in Nat
BY DEF IsSeq

\* Nothing of what is sent tells of the end of a call
LEMMA SpendsNothing ==
    ASSUME NEW n, DialQueues(n), NEW ls, Mild(ls, n),
           NEW cmds, Served(cmds), Dials(cmds)
    PROVE  Spends(ls, cmds)
<1>   DEFINE b == Occurs(ls, "kind", "NO CARRIER")
             d == Occurs(command, "op", "initiate_call")
             e == Occurs(cmds, "op", "initiate_call")
             x == Calling(modem)
             y == Calling(modem')
             k == IF Head(command).op = "initiate_call" THEN 1 ELSE 0
<1>1. b = 0
      BY OccursNone DEF Mild, MildLine
<1>2. /\ x \in {0, 1} /\ y \in {0, 1}
      /\ (x = 0 <=> modem.call = None) /\ (y = 0 <=> modem'.call = None)
      BY CountedOnce
<1>3. IsSeq(command) /\ Len(command) \in Nat
      BY IsSeqLen DEF DialQueues
<1>4. d \in Nat
      BY <1>3, PlacesFinite
<1>5. ASSUME b + y + e <= x + d PROVE Spends(ls, cmds)
      BY <1>5 DEF Spends
<1>6. CASE cmds = command
  <2>1. e = d /\ (y = 0 \/ x = 1)
    <3>1. command # <<>> => Tail(command) # command
      <4>1. ASSUME command # <<>> PROVE Len(Tail(command)) = Len(command) - 1
        <5>1. command \in Seq({command[i] : i \in DOMAIN command})
              BY <1>3 DEF IsSeq
        <5>   QED BY <4>1, <5>1, TailIs
      <4>   QED BY <1>3, <4>1
    <3>2. modem'.call # None => modem.call # None
          BY <1>6, <3>1 DEF Dials
    <3>   QED BY <1>2, <1>6, <3>2
  <2>   HIDE DEF b, d, e, x, y
  <2>2. b + y + e <= x + d
        BY <1>1, <1>2, <1>4, <2>1
  <2>   QED BY <1>5, <2>2
<1>7. CASE command # <<>> /\ cmds = Tail(command)
  <2>1. d = e + k
        BY <1>3, <1>7, QueueTail
  <2>2. e \in Nat
    <3>1. Len(cmds) \in Nat
          BY <1>3, <1>7, QueueTail
    <3>   QED BY <3>1, PlacesFinite
  <2>3. k \in {0, 1} /\ (y = 0 \/ x = 1 \/ k = 1)
        BY <1>2 DEF Dials
  <2>   HIDE DEF b, d, e, x, y, k
  <2>4. b + y + e <= x + d
        BY <1>1, <1>2, <2>1, <2>2, <2>3
  <2>   QED BY <1>5, <2>4
<1>   QED BY <1>6, <1>7 DEF Served

\* One step of the modem, from a state in which no call has come in
ModemDial(n) ==
    /\ BeforeCalls(n) /\ UNCHANGED <<st, ct, config>>
    /\ left.configs \in Int /\ left'.configs = left.configs

LEMMA AnswersDial ==
    ASSUME NEW n, ModemDial(n), ModemAnswers
    PROVE  BeforeCalls(n)'
<1>   DEFINE cmd == Head(command)
             t   == Tail(command)
<1>1. /\ BeforeCalls(n) /\ DialQueues(n) /\ DialModem(n)
      BY DEF ModemDial, BeforeCalls
<1>2. /\ command # <<>> /\ command' = t
      /\ IF modem.run = "up" THEN Respond(cmd) ELSE UNCHANGED <<modem, line>>
      BY DEF ModemAnswers
<1>3. Served(t)
      BY <1>2 DEF Served
<1>4. DialCommand(cmd, n)
  <2>1. 1 \in 1 .. Len(command) /\ cmd = command[1]
        BY <1>1, <1>2, QueueTail DEF DialQueues
  <2>   QED BY <1>1, <2>1 DEF DialQueues
<1>   HIDE DEF cmd, t
<1>5. CASE modem.run = "up"
  <2>1. Respond(cmd)
        BY <1>2, <1>5
  <2>2. /\ DialModem(n)'
        /\ modem'.call # None => modem.call # None \/ cmd.op = "initiate_call"
        /\ \E ls : /\ IsSeq(ls) /\ line' = line \o ls
                   /\ \A i \in 1 .. Len(ls) : /\ DialLine(ls[i], n)
                                              /\ ls[i].kind # "NO CARRIER"
        BY <1>1, <1>4, <2>1, RespondDials
  <2>3. PICK ls : Mild(ls, n) /\ line' = line \o ls
        BY <2>2 DEF Mild, MildLine
  <2>4. Dials(t)
        BY <1>2, <2>2 DEF Dials, cmd, t
  <2>5. Spends(ls, t)
        BY <1>1, <1>3, <2>3, <2>4, SpendsNothing
  <2>   QED BY <1>3, <2>2, <2>3, <2>5, ModemDials DEF ModemDial, Mild, MildLine
<1>6. CASE modem.run # "up"
  <2>1. modem' = modem /\ line' = line
        BY <1>2, <1>6
  <2>2. /\ line' = line \o <<>> /\ IsSeq(<<>>) /\ 1 .. Len(<<>>) = {}
        BY <1>1, <2>1, NoLines DEF DialQueues, IsSeq
  <2>3. DialModem(n)'
        BY <1>1, <2>1 DEF DialModem
  <2>4. \A i \in 1 .. Len(<<>>) : DialLine(<<>>[i], n) /\ <<>>[i].kind # "NO CARRIER"
        BY <2>2
  <2>5. Dials(t)
        BY <2>1 DEF Dials
  <2>   DEFINE ls == <<>>
  <2>6. Mild(ls, n) /\ line' = line \o ls
        BY <2>2, <2>4 DEF Mild, MildLine
  <2>   HIDE DEF ls
  <2>7. Spends(ls, t)
        BY <1>1, <1>3, <2>5, <2>6, SpendsNothing
  <2>   QED BY <1>3, <2>3, <2>6, <2>7, ModemDials DEF ModemDial, Mild, MildLine
<1>   QED BY <1>5, <1>6

\* No command is taken, and the modem keeps its call or has none
LEMMA QuietDial ==
    ASSUME NEW n, ModemDial(n), DialModem(n)', modem'.call # None => modem.call # None,
           NEW ls, Mild(ls, n), line' = line \o ls,
           NEW cmds, Served(cmds)
    PROVE  BeforeCalls(n)'
<1>1. BeforeCalls(n) /\ DialQueues(n)
      BY DEF ModemDial, BeforeCalls
<1>2. Spends(ls, cmds)
      BY <1>1, SpendsNothing DEF Dials
<1>   QED BY <1>1, <1>2, ModemDials DEF ModemDial, Mild, MildLine

LEMMA HangsUpDial ==
    ASSUME NEW n, ModemDial(n), RemoteHangsUp
    PROVE  BeforeCalls(n)'
<1>   DEFINE l == Line("NO CARRIER", None, None)
             d == Occurs(command, "op", "initiate_call")
<1>1. /\ BeforeCalls(n) /\ DialQueues(n) /\ DialModem(n)
      BY DEF ModemDial, BeforeCalls
<1>2. /\ modem.call # None /\ modem' = [modem EXCEPT !.call = None]
      /\ line' = line \o <<l>> /\ command' = command
      BY DEF RemoteHangsUp, Sends
<1>3. "call" \in DOMAIN modem' /\ modem'.call = None
      BY <1>1, <1>2 DEF DialModem
<1>4. DialLine(l, n) /\ l.kind = "NO CARRIER"
      BY DEF DialLine, Line
<1>5. Served(command)
      BY <1>2 DEF Served
<1>6. d \in Nat
  <2>1. Len(command) \in Nat
        BY <1>1 DEF DialQueues, IsSeq
  <2>   QED BY <2>1, PlacesFinite
<1>   HIDE DEF l
<1>7. /\ IsSeq(<<l>>) /\ \A i \in 1 .. Len(<<l>>) : DialLine(<<l>>[i], n)
      /\ Occurs(<<l>>, "kind", "NO CARRIER") = 1
  <2>1. IsSeq(<<l>>) /\ \A i \in 1 .. Len(<<l>>) : <<l>>[i] = l
        BY OneLineIs
  <2>2. Occurs(<<l>>, "kind", "NO CARRIER") = IF l.kind = "NO CARRIER" THEN 1 ELSE 0
        BY OccursOne
  <2>3. Occurs(<<l>>, "kind", "NO CARRIER") = 1
        BY <1>4, <2>2
  <2>   QED BY <1>4, <2>1, <2>3
<1>8. Spends(<<l>>, command)
  <2>1. Calling(modem) = 1 /\ Calling(modem') = 0
        BY <1>2, <1>3 DEF Calling
  <2>   HIDE DEF d
  <2>2. 1 + 0 + d <= 1 + d
        BY <1>6
  <2>   QED BY <1>7, <2>1, <2>2 DEF Spends, d
<1>9. DialModem(n)'
      BY <1>3 DEF DialModem
<1>   QED BY <1>1, <1>2, <1>5, <1>7, <1>8, <1>9, ModemDials DEF ModemDial

\* One bounded event less, and which it was
LEMMA LeftLess ==
    ASSUME LeftType, NEW k \in Bounds, left' = [left EXCEPT ![k] = @ - 1]
    PROVE  /\ LeftType'
           /\ \A i \in Bounds \ {k} : left'[i] = left[i]
           /\ left'[k] = left[k] - 1
<1>1. /\ left \in [Bounds -> Int] /\ left.calls <= MaxCalls /\ left.calls \in Int
      /\ MaxCalls \in Int
      BY AtProtocolAssumption DEF LeftType, Bounds
<1>2. left' \in [Bounds -> Int] /\ left'[k] = left[k] - 1
      /\ \A i \in Bounds \ {k} : left'[i] = left[i]
      BY <1>1
<1>3. left'.calls \in {left.calls, left.calls - 1}
      BY <1>1, <1>2 DEF Bounds
<1>4. left'.calls <= MaxCalls
      BY <1>1, <1>3
<1>   QED BY <1>2, <1>4 DEF LeftType

\* A step after which no more calls have come in than before
LEMMA RedialStep ==
    ASSUME NEW n, RedialInv(n), config' \in Configs, LeftType',
           left'.calls = MaxCalls => left.calls = MaxCalls /\ (BeforeCalls(n) => BeforeCalls(n)')
    PROVE  RedialInv(n)'
BY DEF RedialInv

LEMMA ModemDialStep ==
    ASSUME NEW n, RedialInv(n), UNCHANGED <<st, ct, config>>, LeftType',
           left'.configs = left.configs, left'.calls = left.calls,
           ModemDial(n) => BeforeCalls(n)'
    PROVE  RedialInv(n)'
<1>1. config' \in Configs /\ left.configs \in Int
      BY DEF RedialInv, LeftType, Bounds
<1>2. BeforeCalls(n) => BeforeCalls(n)'
      BY <1>1 DEF ModemDial
<1>   QED BY <1>1, <1>2, RedialStep

\* The modem sends one line, or none, and keeps its call or has none
LEMMA OneLineDial ==
    ASSUME NEW n, ModemDial(n), DialModem(n)', modem'.call # None => modem.call # None,
           NEW l, MildLine(l, n),
           line' = line \o <<l>> \/ line' = line,
           NEW cmds, Served(cmds)
    PROVE  BeforeCalls(n)'
<1>1. Mild(<<l>>, n)
  <2>1. IsSeq(<<l>>) /\ \A i \in 1 .. Len(<<l>>) : <<l>>[i] = l
        BY OneLineIs
  <2>   QED BY <2>1 DEF Mild
<1>2. CASE line' = line
  <2>1. line' = line \o <<>>
    <3>1. IsSeq(line)
          BY DEF ModemDial, BeforeCalls, DialQueues
    <3>   QED BY <1>2, <3>1 DEF IsSeq
  <2>2. Mild(<<>>, n)
    <3>1. 1 .. Len(<<>>) = {}
          BY NoLines
    <3>   QED BY <3>1, NoLines DEF Mild
  <2>   QED BY <2>1, <2>2, QuietDial
<1>3. CASE line' = line \o <<l>>
      BY <1>1, <1>3, QuietDial
<1>   QED BY <1>2, <1>3

LEMMA ModemKeepsRedial ==
    ASSUME NEW n, RedialInv(n), ModemNext
    PROVE  RedialInv(n)'
<1>1. LeftType
      BY DEF RedialInv
<1>2. UNCHANGED left => LeftType'
      BY <1>1 DEF LeftType
<1>3. UNCHANGED command => Served(command)
      BY DEF Served
<1>4. ModemDial(n) => /\ DialModem(n) /\ DialQueues(n)
      BY DEF ModemDial, BeforeCalls
<1>5. ASSUME NEW kind, NEW re, kind \notin {"CLCC", "NO CARRIER"}
      PROVE  LET l == Line(kind, None, re) IN MildLine(l, n)
      BY <1>5 DEF Line, DialLine, MildLine
<1>6. CASE ModemAnswers
  <2>1. UNCHANGED <<st, ct, config, left>>
        BY <1>6 DEF ModemAnswers
  <2>2. ModemDial(n) => BeforeCalls(n)'
        BY <1>6, AnswersDial
  <2>   QED BY <1>2, <2>1, <2>2, ModemDialStep
<1>7. CASE ModemRefuses
  <2>   DEFINE l == Line("ERROR", None, Head(command).op)
             t == Tail(command)
  <2>1. /\ UNCHANGED <<st, ct, config>> /\ left' = [left EXCEPT !["errors"] = @ - 1]
        /\ modem' = modem /\ line' = line \o <<l>> /\ command # <<>> /\ command' = t
        BY <1>7 DEF ModemRefuses, Sends
  <2>2. LeftType' /\ left'.configs = left.configs /\ left'.calls = left.calls
        BY <1>1, <2>1, LeftLess DEF Bounds
  <2>3. MildLine(l, n)
        BY <1>5
  <2>   HIDE DEF l
  <2>4. Served(t)
        BY <2>1 DEF Served
  <2>   HIDE DEF t
  <2>5. ModemDial(n) => BeforeCalls(n)'
    <3>1. ModemDial(n) => DialModem(n)'
          BY <1>4, <2>1 DEF DialModem
    <3>   QED BY <2>1, <2>3, <2>4, <3>1, OneLineDial
  <2>   QED BY <2>1, <2>2, <2>5, ModemDialStep
<1>8. CASE ModemBoots
  <2>   DEFINE l == Line("RDY", None, None)
  <2>1. /\ UNCHANGED <<st, ct, config, left, command>>
        /\ modem' = [modem EXCEPT !.run = "up"] /\ line' = line \o <<l>>
        BY <1>8 DEF ModemBoots, Sends
  <2>2. MildLine(l, n)
        BY <1>5
  <2>   HIDE DEF l
  <2>3. ModemDial(n) => DialModem(n)' /\ modem'.call = modem.call
        BY <1>4, <2>1 DEF DialModem
  <2>4. ModemDial(n) => BeforeCalls(n)'
        BY <1>3, <2>1, <2>2, <2>3, OneLineDial
  <2>   QED BY <1>2, <2>1, <2>4, ModemDialStep
<1>9. CASE SimAvailable
  <2>   DEFINE l == Line("RDY", None, None)
  <2>1. /\ UNCHANGED <<st, ct, config, left, command, line>>
        /\ modem' = [modem EXCEPT !.sim = "SIM PIN"]
        BY <1>9 DEF SimAvailable
  <2>2. MildLine(l, n)
        BY <1>5
  <2>   HIDE DEF l
  <2>3. ModemDial(n) => DialModem(n)' /\ modem'.call = modem.call
        BY <1>4, <2>1 DEF DialModem
  <2>4. ModemDial(n) => BeforeCalls(n)'
        BY <1>3, <2>1, <2>2, <2>3, OneLineDial
  <2>   QED BY <1>2, <2>1, <2>4, ModemDialStep
<1>10. ASSUME NEW m \in Numbers, RemoteCalls(m) PROVE RedialInv(n)'
  <2>1. config' = config /\ left' = [left EXCEPT !["calls"] = @ - 1]
        BY <1>10 DEF RemoteCalls
  <2>2. LeftType' /\ left'.calls = left.calls - 1
        BY <1>1, <2>1, LeftLess DEF Bounds
  <2>3. left.calls \in Int /\ left.calls <= MaxCalls /\ MaxCalls \in Int
        BY <1>1, AtProtocolAssumption DEF LeftType, Bounds
  <2>4. left'.calls # MaxCalls
        BY <2>2, <2>3
  <2>   QED BY <2>1, <2>2, <2>4 DEF RedialInv
<1>11. CASE RingsAgain
  <2>1. UNCHANGED <<st, ct, config>> /\ left' = [left EXCEPT !["rings"] = @ - 1]
        /\ modem.call # None /\ modem.call.stat = "INCOMING"
        BY <1>11 DEF RingsAgain
  <2>2. LeftType' /\ left'.configs = left.configs /\ left'.calls = left.calls
        BY <1>1, <2>1, LeftLess DEF Bounds
  <2>3. ~ModemDial(n)
        BY <1>4, <2>1 DEF DialModem, CallsTo
  <2>   QED BY <2>1, <2>2, <2>3, ModemDialStep
<1>12. CASE RemotePicksUp
  <2>   DEFINE l == Line("RDY", None, None)
  <2>1. /\ UNCHANGED <<st, ct, config, left, command, line>> /\ modem.call # None
        /\ modem' = [modem EXCEPT !.call.stat = "ACTIVE"]
        BY <1>12 DEF RemotePicksUp
  <2>2. MildLine(l, n)
        BY <1>5
  <2>   HIDE DEF l
  <2>3. ModemDial(n) => DialModem(n)'
        BY <1>4, <2>1 DEF DialModem, CallsTo
  <2>4. ModemDial(n) => BeforeCalls(n)'
        BY <1>3, <2>1, <2>2, <2>3, OneLineDial
  <2>   QED BY <1>2, <2>1, <2>4, ModemDialStep
<1>13. CASE RemoteHangsUp
  <2>1. UNCHANGED <<st, ct, config, left>>
        BY <1>13 DEF RemoteHangsUp
  <2>2. ModemDial(n) => BeforeCalls(n)'
        BY <1>13, HangsUpDial
  <2>   QED BY <1>2, <2>1, <2>2, ModemDialStep
<1>   QED BY <1>6, <1>7, <1>8, <1>9, <1>10, <1>11, <1>12, <1>13 DEF ModemNext

-------------------------------------------------------------------------------
(* Reading a line *)

\* A status that has counted k calls that ended
Counts(s, n, k) == /\ DOMAIN s = StatusMembers /\ s.no_carrier_count = k
                   /\ s.current_call \in {None} \union CallsTo(n)

LEMMA OutOfDateCounts ==
    ASSUME NEW n, NEW k, NEW s, Counts(s, n, k)
    PROVE  Counts(ClccOutOfDate(s), n, k)
BY DEF Counts, ClccOutOfDate, StatusMembers

LEMMA QcfgResponseCounts ==
    ASSUME NEW n, NEW k, NEW s, Counts(s, n, k), NEW l
    PROVE  Counts(ApplyQcfgResponse(s, l), n, k)
<1>1. ASSUME NEW q PROVE Counts([s EXCEPT !.qcfg = q], n, k)
      BY DEF Counts, StatusMembers
<1>2. \/ \E q : ApplyQcfgResponse(s, l) = [s EXCEPT !.qcfg = q]
      \/ ApplyQcfgResponse(s, l) = s
  <2>   DEFINE a == [s EXCEPT !.qcfg[l.arg[1]] = IF l.arg[2] THEN "CONFIRMED" ELSE "MISMATCH"]
               b == [s EXCEPT !.qcfg[s.pending.arg] = "MODIFIED"]
  <2>1. \E q : a = [s EXCEPT !.qcfg = q]
        OBVIOUS
  <2>2. \E q : b = [s EXCEPT !.qcfg = q]
        OBVIOUS
  <2>3. ApplyQcfgResponse(s, l) \in {a, b, s}
        BY DEF ApplyQcfgResponse
  <2>   HIDE DEF a, b
  <2>   QED BY <2>1, <2>2, <2>3
<1>   QED BY <1>1, <1>2

LEMMA FlagsCount ==
    ASSUME NEW n, NEW k, NEW s, Counts(s, n, k), NEW l
    PROVE  Counts(ApplyFlags(s, l), n, IF l.kind = "NO CARRIER" THEN k + 1 ELSE k)
<1>   DEFINE t == ApplyFlags(s, l)
<1>1. DOMAIN t = StatusMembers /\ t.current_call = s.current_call
      BY DEF Counts, StatusMembers, ApplyFlags
<1>2. t.no_carrier_count = IF l.kind = "NO CARRIER" THEN s.no_carrier_count + 1
                           ELSE s.no_carrier_count
      BY DEF Counts, StatusMembers, ApplyFlags
<1>   HIDE DEF t
<1>3. t.no_carrier_count = IF l.kind = "NO CARRIER" THEN k + 1 ELSE k
      BY <1>2 DEF Counts
<1>4. Counts(t, n, IF l.kind = "NO CARRIER" THEN k + 1 ELSE k)
      BY <1>1, <1>3 DEF Counts
<1>   QED BY <1>4 DEF t

LEMMA CallListCounts ==
    ASSUME NEW n, NEW k, NEW s, Counts(s, n, k), NEW l, DialLine(l, n)
    PROVE  Counts(AcceptCallList(ApplyCallList(s, l)), n, k)
<1>   DEFINE t == ApplyCallList(s, l)
<1>1. CASE l.kind = "CLCC"
  <2>1. t = [s EXCEPT !.current_call = l.arg] /\ l.arg \in CallsTo(n)
        BY <1>1 DEF ApplyCallList, DialLine
  <2>2. Counts(t, n, k)
        BY <2>1 DEF Counts, StatusMembers
  <2>   QED BY <2>2 DEF AcceptCallList, Counts, StatusMembers
<1>2. CASE l.kind # "CLCC"
  <2>1. t \in {ClccOutOfDate(s), s}
        BY <1>2 DEF ApplyCallList
  <2>2. Counts(t, n, k)
        BY <2>1, OutOfDateCounts
  <2>   HIDE DEF t
  <2>3. AcceptCallList(t) \in {[t EXCEPT !.clcc_up_to_date = TRUE], t}
        BY DEF AcceptCallList
  <2>4. Counts([t EXCEPT !.clcc_up_to_date = TRUE], n, k)
        BY <2>2 DEF Counts, StatusMembers
  <2>   QED BY <2>2, <2>3, <2>4 DEF t
<1>   QED BY <1>1, <1>2

LEMMA OkCounts ==
    ASSUME NEW n, NEW k, NEW s, Counts(s, n, k), NEW p
    PROVE  Counts(ApplyOk(s, p), n, k)
<1>   DEFINE o == ClccOutOfDate(s)
             r == [o EXCEPT !.at_ok = FALSE, !.echo_disabled = FALSE, !.rdy = FALSE,
                            !.cpin = None, !.cme_error = FALSE,
                            !.qcfg = [e \in Entries |-> "UNKNOWN"]]
<1>1. ApplyOk(s, p) \in {[s EXCEPT !.at_ok = TRUE], [s EXCEPT !.echo_disabled = TRUE], r,
                         [s EXCEPT !.clcc_up_to_date = TRUE], o, s}
      BY DEF ApplyOk, Rebooted
<1>2. /\ Counts([s EXCEPT !.at_ok = TRUE], n, k)
      /\ Counts([s EXCEPT !.echo_disabled = TRUE], n, k)
      /\ Counts([s EXCEPT !.clcc_up_to_date = TRUE], n, k)
      BY DEF Counts, StatusMembers
<1>3. Counts(o, n, k)
      BY OutOfDateCounts
<1>   HIDE DEF o
<1>4. Counts(r, n, k)
      BY <1>3 DEF Counts, StatusMembers
<1>   HIDE DEF r
<1>   QED BY <1>1, <1>2, <1>3, <1>4

LEMMA LineCounts ==
    ASSUME NEW n, NEW k, NEW s, Counts(s, n, k), NEW l, DialLine(l, n)
    PROVE  Counts(ApplyLine(s, l), n, IF l.kind = "NO CARRIER" THEN k + 1 ELSE k)
<1>   DEFINE q  == ApplyQcfgResponse(s, l)
             f  == ApplyFlags(q, l)
             s1 == AcceptCallList(ApplyCallList(f, l))
             s2 == IF l.kind = "OK" /\ s.pending # None THEN ApplyOk(s1, s.pending) ELSE s1
             m  == IF l.kind = "NO CARRIER" THEN k + 1 ELSE k
<1>1. Counts(q, n, k)
      BY QcfgResponseCounts
<1>   HIDE DEF q
<1>2. Counts(f, n, m)
      BY <1>1, FlagsCount
<1>   HIDE DEF f, m
<1>3. Counts(s1, n, m)
      BY <1>2, CallListCounts
<1>4. ApplyLine(s, l) \in {[s2 EXCEPT !.pending = None], s2}
      BY DEF ApplyLine, f, q
<1>   HIDE DEF s1
<1>5. Counts(s2, n, m)
      BY <1>3, OkCounts
<1>   HIDE DEF s2
<1>6. Counts([s2 EXCEPT !.pending = None], n, m)
      BY <1>5 DEF Counts, StatusMembers
<1>7. Counts(ApplyLine(s, l), n, m)
      BY <1>4, <1>5, <1>6
<1>   QED BY <1>7 DEF m

LEMMA ReadKeepsRedial ==
    ASSUME NEW n, RedialInv(n), ReadLine
    PROVE  RedialInv(n)'
<1>   DEFINE l == Head(line)
             t == Tail(line)
             nc == st.no_carrier_count
             nc2 == IF l.kind = "NO CARRIER" THEN nc + 1 ELSE nc
<1>1. /\ line # <<>> /\ line' = t /\ st' = ApplyLine(st, l)
      /\ config' = config /\ ct' = ct /\ command' = command /\ modem' = modem /\ left' = left
      BY DEF ReadLine
<1>2. ASSUME BeforeCalls(n) PROVE BeforeCalls(n)'
  <2>1. /\ DialControl(ct, n) /\ DialStatus(n) /\ DialModem(n) /\ DialQueues(n) /\ DialledInv
        BY <1>2 DEF BeforeCalls
  <2>2. /\ IsSeq(t) /\ Len(t) \in Nat /\ 1 \in 1 .. Len(line) /\ l = line[1]
        /\ \A i \in 1 .. Len(t) : i + 1 \in 1 .. Len(line) /\ t[i] = line[i + 1]
        /\ Occurs(line, "kind", "NO CARRIER")
              = Occurs(t, "kind", "NO CARRIER") + (IF l.kind = "NO CARRIER" THEN 1 ELSE 0)
    <3>1. IsSeq(line)
          BY <2>1 DEF DialQueues
    <3>2. Occurs(line, "kind", "NO CARRIER")
             = Occurs(t, "kind", "NO CARRIER") + (IF l.kind = "NO CARRIER" THEN 1 ELSE 0)
      <4>1. \A f, x : Occurs(line, f, x) = Occurs(t, f, x) + (IF l[f] = x THEN 1 ELSE 0)
            BY <1>1, <3>1, QueueTail
      <4>   HIDE DEF l, t
      <4>2. Occurs(line, "kind", "NO CARRIER")
               = Occurs(t, "kind", "NO CARRIER") + (IF l["kind"] = "NO CARRIER" THEN 1 ELSE 0)
            BY <4>1, Zenon
      <4>   QED BY <4>2
    <3>   QED BY <1>1, <3>1, <3>2, QueueTail
  <2>3. DialLine(l, n)
        BY <2>1, <2>2 DEF DialQueues
  <2>   HIDE DEF l, t
  <2>4. Counts(st, n, nc) /\ nc \in Nat
        BY <2>1 DEF DialStatus, Counts
  <2>   HIDE DEF nc
  <2>5. Counts(st', n, nc2)
        BY <1>1, <2>3, <2>4, LineCounts
  <2>6. DialStatus(n)'
    <3>1. nc2 \in {nc, nc + 1}
          OBVIOUS
    <3>   HIDE DEF nc2
    <3>2. nc2 \in Nat
          BY <2>4, <3>1
    <3>   QED BY <2>5, <3>2 DEF DialStatus, Counts
  <2>7. DialQueues(n)'
    <3>1. \A i \in 1 .. Len(t) : DialLine(t[i], n)
          BY <2>1, <2>2 DEF DialQueues
    <3>2. IsSeq(command) /\ \A i \in 1 .. Len(command) : DialCommand(command[i], n)
          BY <2>1 DEF DialQueues
    <3>   QED BY <1>1, <2>2, <3>1, <3>2 DEF DialQueues
  <2>8. DialModem(n)' /\ DialControl(ct', n)
        BY <1>1, <2>1 DEF DialModem
  <2>9. Dialled' = Dialled
    <3>   DEFINE a == Occurs(t, "kind", "NO CARRIER")
                 b == Occurs(command, "op", "initiate_call")
                 x == Calling(modem)
                 w == DialWaits(ct)
                 k == IF l.kind = "NO CARRIER" THEN 1 ELSE 0
    <3>1. a \in Nat /\ b \in Nat /\ x \in {0, 1} /\ w \in {0, 1} /\ k \in {0, 1} /\ nc2 = nc + k
      <4>1. Len(command) \in Nat
            BY <2>1, IsSeqLen DEF DialQueues
      <4>2. a \in Nat /\ b \in Nat
            BY <2>2, <4>1, PlacesFinite
      <4>3. x \in {0, 1} /\ w \in {0, 1}
            BY CountedOnce
      <4>4. k \in {0, 1} /\ nc2 = nc + k
            BY <2>4
      <4>   HIDE DEF a, b, x, w, k, nc2
      <4>   QED BY <4>2, <4>3, <4>4
    <3>2. Dialled = nc + Occurs(line, "kind", "NO CARRIER") + x + b + w
          BY DEF Dialled, nc
    <3>3. Occurs(line, "kind", "NO CARRIER") = a + k
          BY <2>2
    <3>4. Dialled' = st'.no_carrier_count + a + x + b + w
          BY <1>1 DEF Dialled
    <3>5. st'.no_carrier_count = nc + k
          BY <2>5, <3>1 DEF Counts
    <3>   HIDE DEF a, b, x, w, k, nc2
    <3>6. (nc + k) + a + x + b + w = nc + (a + k) + x + b + w
          BY <2>4, <3>1
    <3>   QED BY <3>2, <3>3, <3>4, <3>5, <3>6
  <2>10. DialledInv'
        BY <1>1, <2>1, <2>9 DEF DialledInv, Changes
  <2>   QED BY <2>6, <2>7, <2>8, <2>10 DEF BeforeCalls
<1>3. config' \in Configs /\ LeftType'
      BY <1>1 DEF RedialInv, LeftType
<1>   QED BY <1>1, <1>2, <1>3, RedialStep

-------------------------------------------------------------------------------
(* The operations *)

\* What Dialled and its bound are with the operations and the outbound call of d
BesideControl == st.no_carrier_count + Occurs(line, "kind", "NO CARRIER") + Calling(modem)
                    + Occurs(command, "op", "initiate_call")

Bounded(d) == /\ BesideControl + DialWaits(d) <= Changes + 1
              /\ Wants(config.call) /\ d.outbound = None
                    => BesideControl + DialWaits(d) <= Changes

LEMMA BesideType ==
    ASSUME NEW n, BeforeCalls(n), LeftType
    PROVE  BesideControl \in Nat /\ Changes \in Int
<1>1. DialStatus(n) /\ DialQueues(n)
      BY DEF BeforeCalls
<1>2. Calling(modem) \in {0, 1}
      BY CountedOnce
<1>3. BesideControl \in Nat
  <2>   DEFINE nc == st.no_carrier_count
               a == Occurs(line, "kind", "NO CARRIER")
               b == Occurs(command, "op", "initiate_call")
               x == Calling(modem)
  <2>1. nc \in Nat /\ a \in Nat /\ b \in Nat
        BY <1>1, DialledType
  <2>2. BesideControl = nc + a + x + b
        BY DEF BesideControl
  <2>   HIDE DEF nc, a, b, x
  <2>3. nc + a + x + b \in Nat
        BY <1>2, <2>1 DEF x
  <2>   QED BY <2>2, <2>3
<1>4. Changes \in Int
  <2>1. MaxConfigs \in Int /\ left.configs \in Int
        BY AtProtocolAssumption DEF LeftType, Bounds
  <2>   QED BY <2>1 DEF Changes
<1>   QED BY <1>3, <1>4

\* The rules keep the bound: what they build, a configuration has asked for
LEMMA StepBounded ==
    ASSUME NEW n, BeforeCalls(n), LeftType, NEW d, DialStep(ct, d, n, config.call)
    PROVE  Bounded(d)
<1>   DEFINE b == BesideControl
             w == DialWaits(ct)
             v == DialWaits(d)
             ch == Changes
<1>1. b \in Nat /\ ch \in Int
      BY BesideType
<1>2. w \in {0, 1} /\ v \in {0, 1}
      /\ (w = 1 <=> Waits(ct, "initiate_call")) /\ (v = 1 <=> Waits(d, "initiate_call"))
      BY CountedOnce
<1>3. Dialled = b + w
      BY DEF Dialled, BesideControl
<1>4. /\ b + w <= ch + 1
      /\ Wants(config.call) /\ ct.outbound = None => b + w <= ch
      BY <1>3 DEF BeforeCalls, DialledInv
<1>5. v = 1 => w = 1 \/ (Wants(config.call) /\ ct.outbound = None /\ d.outbound # None)
      BY <1>2 DEF DialStep
<1>6. Wants(config.call) /\ d.outbound = None => ct.outbound = None
      BY DEF DialStep
<1>   HIDE DEF b, w, v, ch
<1>7. v = 0 \/ v = 1
      BY <1>2
<1>8. b + v <= ch + 1
  <2>1. CASE v = 0 \/ w = 1
        BY <1>1, <1>2, <1>4, <2>1
  <2>2. CASE v = 1 /\ w = 0
    <3>1. b + w <= ch
          BY <1>4, <1>5, <2>2
    <3>   QED BY <1>1, <2>2, <3>1
  <2>   QED BY <1>2, <2>1, <2>2
<1>9. ASSUME Wants(config.call), d.outbound = None PROVE b + v <= ch
  <2>1. b + w <= ch
        BY <1>4, <1>6, <1>9
  <2>2. v = 0 \/ w = 1
        BY <1>2, <1>5, <1>7, <1>9
  <2>   QED BY <1>1, <1>2, <2>1, <2>2
<1>   QED BY <1>8, <1>9 DEF Bounded, b, v, ch

\* Without a submission
LEMMA ControlDials ==
    ASSUME NEW n, BeforeCalls(n), LeftType, DialStep(ct, ct', n, config.call),
           Counts(st', n, st.no_carrier_count),
           UNCHANGED <<config, line, command, modem, left>>
    PROVE  BeforeCalls(n)'
<1>1. /\ DialStatus(n) /\ DialModem(n) /\ DialQueues(n)
      BY DEF BeforeCalls
<1>2. DialStatus(n)'
      BY <1>1 DEF DialStatus, Counts
<1>3. DialModem(n)' /\ DialQueues(n)' /\ DialControl(ct', n)
      BY <1>1 DEF DialModem, DialQueues, DialStep
<1>4. Bounded(ct')
      BY StepBounded
<1>5. Dialled' = BesideControl + DialWaits(ct')
  <2>1. st'.no_carrier_count = st.no_carrier_count
        BY DEF Counts
  <2>   QED BY <2>1 DEF Dialled, BesideControl
<1>6. DialledInv'
  <2>1. Changes' = Changes /\ config' = config
        BY DEF Changes
  <2>   QED BY <1>4, <1>5, <2>1 DEF DialledInv, Bounded
<1>   QED BY <1>2, <1>3, <1>6 DEF BeforeCalls

LEMMA CancelTame ==
    ASSUME NEW c, Formed(c)
    PROVE  Tame(c, CancelSubmitted(c))
<1>   DEFINE op == [o \in Ops |-> IF Submitted(c, o) THEN None ELSE c.op[o]]
             d == [c EXCEPT !.op = op]
<1>1. CancelSubmitted(c) = d
      BY DEF CancelSubmitted
<1>2. DOMAIN op = Ops /\ \A o \in Ops : op[o] \in {None, c.op[o]}
      OBVIOUS
<1>   HIDE DEF op
<1>3. DOMAIN d = Members /\ d.op = op /\ d.outbound = c.outbound
      BY DEF Formed, Members
<1>   HIDE DEF d
<1>4. Tame(c, d)
      BY <1>2, <1>3, OpsAre DEF Tame, Formed
<1>   QED BY <1>1, <1>4

LEMMA TimerKeepsRedial ==
    ASSUME NEW n, RedialInv(n), NEW timeout \in BOOLEAN, HandleTimer(timeout)
    PROVE  RedialInv(n)'
<1>   DEFINE s == InvalidateCallList(st)
             r == ResetCommand(s)
             k == st.no_carrier_count
<1>1. /\ UNCHANGED <<config, line, command, modem, left>>
      /\ \/ st' = [r EXCEPT !.at_ok = FALSE] /\ ct' = CancelSubmitted(ct)
         \/ st' = s /\ ct' = ct
      BY DEF HandleTimer
<1>2. ASSUME BeforeCalls(n) PROVE BeforeCalls(n)'
  <2>1. DialControl(ct, n) /\ Formed(ct) /\ Counts(st, n, k)
        BY <1>2 DEF BeforeCalls, DialControl, DialStatus, Counts
  <2>2. Counts(s, n, k)
        BY <2>1 DEF InvalidateCallList, Counts, StatusMembers
  <2>   HIDE DEF s
  <2>3. Counts(r, n, k)
        BY <2>2 DEF ResetCommand, Counts, StatusMembers
  <2>   HIDE DEF r
  <2>4. Counts([r EXCEPT !.at_ok = FALSE], n, k)
        BY <2>3 DEF Counts, StatusMembers
  <2>5. Counts(st', n, k)
        BY <1>1, <2>2, <2>4
  <2>6. Tame(ct, CancelSubmitted(ct)) /\ Tame(ct, ct)
        BY <2>1, CancelTame, TameSame
  <2>7. DialStep(ct, ct', n, config.call)
        BY <1>1, <2>1, <2>6, TameDials
  <2>   QED BY <1>1, <1>2, <2>5, <2>7, ControlDials DEF RedialInv
<1>3. config' \in Configs /\ LeftType'
      BY <1>1 DEF RedialInv, LeftType
<1>   QED BY <1>1, <1>2, <1>3, RedialStep

\* Each configuration may have one more call dialled
LEMMA SetConfigKeepsRedial ==
    ASSUME NEW n, RedialInv(n), NEW cfg \in Configs, SetConfig(cfg)
    PROVE  RedialInv(n)'
<1>1. /\ config' = cfg /\ left' = [left EXCEPT !["configs"] = @ - 1]
      /\ UNCHANGED <<st, ct, command, line, modem>>
      BY DEF SetConfig
<1>2. LeftType /\ left.configs \in Int
      BY DEF RedialInv, LeftType, Bounds
<1>3. LeftType' /\ left'.calls = left.calls /\ left'.configs = left.configs - 1
      BY <1>1, <1>2, LeftLess DEF Bounds
<1>4. ASSUME BeforeCalls(n) PROVE BeforeCalls(n)'
  <2>1. /\ DialControl(ct, n) /\ DialStatus(n) /\ DialModem(n) /\ DialQueues(n) /\ DialledInv
        BY <1>4 DEF BeforeCalls
  <2>2. /\ DialControl(ct', n) /\ DialStatus(n)' /\ DialModem(n)' /\ DialQueues(n)'
        BY <1>1, <2>1 DEF DialStatus, DialModem, DialQueues
  <2>3. Dialled' = Dialled
        BY <1>1 DEF Dialled
  <2>4. Changes' = Changes + 1 /\ Changes \in Int
    <3>1. MaxConfigs \in Int
          BY AtProtocolAssumption
    <3>   QED BY <1>2, <1>3, <3>1 DEF Changes
  <2>5. Dialled \in Nat /\ Dialled <= Changes + 1
        BY <2>1, DialledNat DEF DialledInv
  <2>6. DialledInv'
    <3>   DEFINE x == Dialled
                 ch == Changes
    <3>1. x \in Nat /\ ch \in Int /\ x <= ch + 1 /\ Changes' = ch + 1 /\ Dialled' = x
          BY <2>3, <2>4, <2>5
    <3>   HIDE DEF x, ch
    <3>2. x <= ch + 1 + 1
          BY <3>1
    <3>   QED BY <3>1, <3>2 DEF DialledInv
  <2>   QED BY <2>2, <2>6 DEF BeforeCalls
<1>   QED BY <1>1, <1>3, <1>4, RedialStep

\* A pending operation becomes a command
LEMMA SubmitDials ==
    ASSUME NEW n, NEW c, DialControl(c, n), NEW o \in Ops, Waits(c, o)
    PROVE  LET d == [c EXCEPT !.op[o].state = "SUBMITTED"]
               cmd == [op |-> o, arg |-> c.op[o].arg]
           IN  /\ DialControl(d, n) /\ d.outbound = c.outbound /\ DialCommand(cmd, n)
               /\ DialWaits(d) = IF o = "initiate_call" THEN 0 ELSE DialWaits(c)
<1>   DEFINE d == [c EXCEPT !.op[o].state = "SUBMITTED"]
             x == [c.op[o] EXCEPT !.state = "SUBMITTED"]
             cmd == [op |-> o, arg |-> c.op[o].arg]
<1>1. o # "accept_call" /\ Formed(c)
      BY DEF Waits, Constructed, DialControl
<1>2. o = "initiate_call" => c.op[o] \in Dialling(n)
      BY DEF Waits, Constructed, DialControl
<1>3. o = "initiate_call" => x \in Dialling(n) /\ x.state = "SUBMITTED"
      BY <1>2 DEF Dialling
<1>4. DialCommand(cmd, n)
  <2>1. cmd.op = o /\ cmd.arg = c.op[o].arg
        OBVIOUS
  <2>2. o = "initiate_call" => c.op[o].arg = n
        BY <1>2 DEF Dialling
  <2>   QED BY <1>1, <2>1, <2>2 DEF DialCommand
<1>5. Formed(d) /\ d.outbound = c.outbound /\ d.op = [c.op EXCEPT ![o] = x]
      BY <1>1 DEF Formed, Members
<1>   HIDE DEF d, x
<1>6. d.op[o] = x /\ \A q \in Ops \ {o} : d.op[q] = c.op[q]
      BY <1>1, <1>5 DEF Formed
<1>7. DialControl(d, n)
      BY <1>1, <1>3, <1>5, <1>6, OpsAre DEF DialControl
<1>8. DialWaits(d) = IF o = "initiate_call" THEN 0 ELSE DialWaits(c)
  <2>1. CASE o = "initiate_call"
    <3>1. ~Waits(d, "initiate_call")
          BY <1>3, <1>6, <2>1 DEF Waits
    <3>   QED BY <2>1, <3>1 DEF DialWaits
  <2>2. CASE o # "initiate_call"
    <3>1. d.op["initiate_call"] = c.op["initiate_call"]
          BY <1>6, <2>2, OpsAre
    <3>   QED BY <2>2, <3>1 DEF DialWaits, Waits, Constructed
  <2>   QED BY <2>1, <2>2
<1>   QED BY <1>4, <1>5, <1>7, <1>8 DEF d

LEMMA SubmittedCounts ==
    ASSUME NEW n, NEW k, NEW s, Counts(s, n, k), NEW cmd
    PROVE  Counts(CommandSubmitted(s, cmd), n, k)
<1>   DEFINE r == ResetCommand(s)
             t == [r EXCEPT !.pending = cmd]
<1>1. CommandSubmitted(s, cmd) \in {ClccOutOfDate(t), t}
      BY DEF CommandSubmitted
<1>2. Counts(r, n, k)
      BY DEF ResetCommand, Counts, StatusMembers
<1>   HIDE DEF r
<1>3. Counts(t, n, k)
      BY <1>2 DEF Counts, StatusMembers
<1>   HIDE DEF t
<1>   QED BY <1>1, <1>3, OutOfDateCounts

\* The configuration of a user with one number, and what the rules make of it
OneNumberCfg(n) == n \in Numbers /\ (config.call = None \/ config.call.number = n)

LEMMA NextOpWaits ==
    ASSUME NextPending(Applied) # 0
    PROVE  NextOp \in Ops /\ Waits(Applied, NextOp)
<1>   DEFINE i == NextPending(Applied)
<1>1. i \in 1 .. 14 /\ Waits(Applied, Operations[i])
      BY NextPendingIs
<1>2. Operations[i] \in Ops
      BY <1>1 DEF Ops, Range, Operations
<1>   QED BY <1>1, <1>2 DEF NextOp

\* A submission, from a state in which no call has come in
LEMMA SubmissionDials ==
    ASSUME NEW n, BeforeCalls(n), LeftType, OneNumberCfg(n), Submission
    PROVE  /\ BeforeCalls(n)'
           /\ NextOp = "initiate_call" => st.no_carrier_count <= Changes
<1>   DEFINE c == Applied
             o == NextOp
             cmd == Command
             b == BesideControl
             w == DialWaits(c)
             ch == Changes
             k == IF o = "initiate_call" THEN 1 ELSE 0
<1>1. /\ DialControl(ct, n) /\ DialStatus(n) /\ DialModem(n) /\ DialQueues(n)
      BY DEF BeforeCalls
<1>2. DialStep(ct, c, n, config.call) /\ DialControl(c, n)
      BY <1>1, AppliedDials DEF OneNumberCfg, DialStep
<1>3. Bounded(c)
      BY <1>2, StepBounded
<1>4. o \in Ops /\ Waits(c, o)
      BY NextOpWaits DEF Submission
<1>5. /\ UNCHANGED <<config, line, modem, left>> /\ command' = command \o <<cmd>>
      /\ ct' = [c EXCEPT !.op[o].state = "SUBMITTED"] /\ st' = CommandSubmitted(st, cmd)
      BY DEF Submission
<1>6. cmd = [op |-> o, arg |-> c.op[o].arg] /\ cmd.op = o
      BY DEF Command
<1>   HIDE DEF c, o, cmd
<1>7. /\ DialControl(ct', n) /\ ct'.outbound = c.outbound /\ DialCommand(cmd, n)
      /\ DialWaits(ct') = IF o = "initiate_call" THEN 0 ELSE w
      BY <1>2, <1>4, <1>5, <1>6, SubmitDials
<1>8. Counts(st', n, st.no_carrier_count)
  <2>1. Counts(st, n, st.no_carrier_count)
        BY <1>1 DEF Counts, DialStatus
  <2>   QED BY <1>5, <2>1, SubmittedCounts
<1>9. DialStatus(n)' /\ DialModem(n)'
      BY <1>1, <1>5, <1>8 DEF DialStatus, DialModem, Counts
<1>10. IsSeq(command) /\ \A i \in 1 .. Len(command) : DialCommand(command[i], n)
       BY <1>1 DEF DialQueues
<1>11. IsSeq(<<cmd>>) /\ \A i \in 1 .. Len(<<cmd>>) : <<cmd>>[i] = cmd
       BY OneLineIs
<1>12. /\ IsSeq(command')
       /\ \A i \in 1 .. Len(command') : \/ i \in 1 .. Len(command) /\ command'[i] = command[i]
                                        \/ \E j \in 1 .. Len(<<cmd>>) : command'[i] = <<cmd>>[j]
       /\ \A f, x : Occurs(command', f, x) = Occurs(command, f, x) + Occurs(<<cmd>>, f, x)
  <2>   DEFINE u == command \o <<cmd>>
  <2>1. /\ IsSeq(u)
        /\ \A i \in 1 .. Len(u) : \/ i \in 1 .. Len(command) /\ u[i] = command[i]
                                  \/ \E j \in 1 .. Len(<<cmd>>) : u[i] = <<cmd>>[j]
        /\ \A f, x : Occurs(u, f, x) = Occurs(command, f, x) + Occurs(<<cmd>>, f, x)
        BY <1>10, <1>11, QueueConcat
  <2>   HIDE DEF u
  <2>2. command' = u
        BY <1>5 DEF u
  <2>   QED BY <2>1, <2>2
<1>13. DialQueues(n)'
  <2>1. \A i \in 1 .. Len(command') : DialCommand(command'[i], n)
        BY <1>7, <1>10, <1>11, <1>12
  <2>2. IsSeq(line) /\ \A i \in 1 .. Len(line) : DialLine(line[i], n)
        BY <1>1 DEF DialQueues
  <2>   QED BY <1>5, <1>12, <2>1, <2>2 DEF DialQueues
<1>14. Occurs(<<cmd>>, "op", "initiate_call") = k
  <2>1. Occurs(<<cmd>>, "op", "initiate_call") = IF cmd["op"] = "initiate_call" THEN 1 ELSE 0
        BY OccursOne, Zenon
  <2>   QED BY <1>6, <2>1
<1>15. b \in Nat /\ ch \in Int /\ w \in {0, 1} /\ k \in {0, 1}
       BY BesideType, CountedOnce
<1>16. w = 1 <=> Waits(c, "initiate_call")
       BY CountedOnce
<1>17. k = 1 <=> o = "initiate_call"
       OBVIOUS
<1>18. k = 1 => w = 1
       BY <1>4, <1>16
<1>19. DialWaits(ct') = w - k
  <2>1. CASE o = "initiate_call"
        BY <1>7, <1>18, <2>1
  <2>2. CASE o # "initiate_call"
    <3>1. DialWaits(ct') = w /\ k = 0
          BY <1>7, <2>2
    <3>   HIDE DEF w, k
    <3>   QED BY <1>15, <3>1
  <2>   QED BY <2>1, <2>2
<1>20. Dialled' = b + w
  <2>   DEFINE nc == st.no_carrier_count
               a == Occurs(line, "kind", "NO CARRIER")
               x == Calling(modem)
               d == Occurs(command, "op", "initiate_call")
  <2>1. nc \in Nat /\ a \in Nat /\ d \in Nat /\ x \in {0, 1}
        BY <1>1, DialledType, CountedOnce
  <2>2. b = nc + a + x + d
        BY DEF BesideControl
  <2>3. Occurs(command', "op", "initiate_call") = d + k
        BY <1>12, <1>14
  <2>4. st'.no_carrier_count = nc
        BY <1>8 DEF Counts
  <2>5. Dialled' = nc + a + x + (d + k) + (w - k)
        BY <1>5, <1>19, <2>3, <2>4 DEF Dialled
  <2>   HIDE DEF nc, a, x, d, b, w, k
  <2>6. nc + a + x + (d + k) + (w - k) = nc + a + x + d + w
        BY <1>15, <2>1
  <2>   QED BY <2>2, <2>5, <2>6
<1>21. DialledInv'
  <2>1. Changes' = Changes /\ config' = config /\ ct'.outbound = c.outbound
        BY <1>5, <1>7 DEF Changes
  <2>   QED BY <1>3, <1>20, <2>1 DEF DialledInv, Bounded
<1>22. ASSUME o = "initiate_call" PROVE st.no_carrier_count <= ch
  <2>   DEFINE nc == st.no_carrier_count
               r == Occurs(line, "kind", "NO CARRIER")
               x == Calling(modem)
               d == Occurs(command, "op", "initiate_call")
  <2>1. nc \in Nat /\ r \in Nat /\ d \in Nat /\ x \in {0, 1}
        BY <1>1, DialledType, CountedOnce
  <2>2. b = nc + r + x + d
        BY DEF BesideControl
  <2>3. b + w <= ch + 1 /\ w = 1
        BY <1>3, <1>17, <1>18, <1>22 DEF Bounded
  <2>   HIDE DEF nc, r, x, d, b, w, ch
  <2>4. nc <= ch
        BY <1>15, <2>1, <2>2, <2>3
  <2>   QED BY <2>4 DEF nc
<1>   QED BY <1>7, <1>9, <1>13, <1>21, <1>22 DEF BeforeCalls, o

LEMMA ApplyKeepsRedial ==
    ASSUME NEW n, RedialInv(n), OneNumberCfg(n), ApplyConfig
    PROVE  RedialInv(n)'
<1>1. UNCHANGED <<config, line, modem, left>> /\ LeftType
      BY ApplyConfigIs DEF RedialInv
<1>2. config' \in Configs /\ LeftType'
      BY <1>1 DEF RedialInv, LeftType
<1>3. ASSUME BeforeCalls(n) PROVE BeforeCalls(n)'
  <2>1. CASE ct' = Applied /\ st' = st /\ command' = command
    <3>1. DialControl(ct, n) /\ DialStatus(n)
          BY <1>3 DEF BeforeCalls
    <3>2. DialStep(ct, ct', n, config.call)
          BY <2>1, <3>1, AppliedDials DEF OneNumberCfg
    <3>3. Counts(st', n, st.no_carrier_count)
          BY <2>1, <3>1 DEF Counts, DialStatus
    <3>   QED BY <1>1, <1>3, <2>1, <3>2, <3>3, ControlDials
  <2>2. CASE Submission
        BY <1>1, <1>3, <2>2, SubmissionDials
  <2>   QED BY <1>1, <2>1, <2>2, ApplyConfigIs DEF Submission
<1>   QED BY <1>1, <1>2, <1>3, RedialStep

LEMMA RedialInit ==
    ASSUME NEW n, Init
    PROVE  RedialInv(n)
<1>1. /\ config \in Configs /\ st = InitStatus /\ ct = InitControl
      /\ command = <<>> /\ line = <<>>
      /\ \E run \in {"up", "boot"} : modem = [InitModem EXCEPT !.run = run]
      /\ left = [calls |-> MaxCalls, rings |-> MaxRings, configs |-> MaxConfigs,
                 errors |-> MaxErrors]
      BY DEF Init
<1>2. {MaxCalls, MaxRings, MaxConfigs, MaxErrors} \subseteq Nat
      BY AtProtocolAssumption
<1>3. LeftType /\ left.configs = MaxConfigs
      BY <1>1, <1>2 DEF LeftType, Bounds
<1>4. /\ DOMAIN st = StatusMembers /\ st.no_carrier_count = 0 /\ st.current_call = None
      BY <1>1 DEF InitStatus, StatusMembers
<1>5. DialStatus(n)
      BY <1>4 DEF DialStatus
<1>6. DialControl(ct, n) /\ DialWaits(ct) = 0
      BY <1>1, OpsAre DEF InitControl, DialControl, Formed, Members, DialWaits, Waits, Constructed
<1>7. DialModem(n) /\ Calling(modem) = 0
      BY <1>1 DEF InitModem, DialModem, Calling
<1>8. DialQueues(n)
  <2>1. 1 .. Len(<<>>) = {}
        BY NoLines
  <2>   QED BY <1>1, <2>1, NoLines DEF DialQueues
<1>9. Dialled = 0
  <2>1. Occurs(line, "kind", "NO CARRIER") = 0 /\ Occurs(command, "op", "initiate_call") = 0
        BY <1>1, NoLines
  <2>   DEFINE nc == st.no_carrier_count
               a == Occurs(line, "kind", "NO CARRIER")
               x == Calling(modem)
               b == Occurs(command, "op", "initiate_call")
               w == DialWaits(ct)
  <2>2. Dialled = nc + a + x + b + w
        BY DEF Dialled
  <2>3. nc = 0 /\ a = 0 /\ x = 0 /\ b = 0 /\ w = 0
        BY <1>4, <1>6, <1>7, <2>1
  <2>   HIDE DEF nc, a, x, b, w
  <2>   QED BY <2>2, <2>3
<1>10. Changes = 0
  <2>1. MaxConfigs \in Int
        BY <1>2
  <2>   QED BY <1>3, <2>1 DEF Changes
<1>11. DialledInv
       BY <1>9, <1>10 DEF DialledInv
<1>   QED BY <1>1, <1>3, <1>5, <1>6, <1>7, <1>8, <1>11 DEF RedialInv, BeforeCalls

LEMMA RedialNext ==
    ASSUME NEW n \in Numbers, \A c \in Configs : c.call = None \/ c.call.number = n,
           RedialInv(n), [Next]_vars
    PROVE  RedialInv(n)'
<1>1. OneNumberCfg(n)
      BY DEF OneNumberCfg, RedialInv
<1>2. CASE UNCHANGED vars
  <2>1. /\ UNCHANGED <<config, st, ct, command, line, modem, left>>
        BY <1>2 DEF vars
  <2>   QED BY <2>1 DEF RedialInv, LeftType, BeforeCalls, DialStatus, DialModem, DialQueues,
                        DialledInv, Dialled, Changes
<1>3. CASE ReadLine
      BY <1>3, ReadKeepsRedial
<1>4. CASE ApplyConfig
      BY <1>1, <1>4, ApplyKeepsRedial
<1>5. ASSUME NEW timeout \in BOOLEAN, HandleTimer(timeout) PROVE RedialInv(n)'
      BY <1>5, TimerKeepsRedial
<1>6. ASSUME NEW cfg \in Configs, SetConfig(cfg) PROVE RedialInv(n)'
      BY <1>6, SetConfigKeepsRedial
<1>7. CASE ModemNext
      BY <1>7, ModemKeepsRedial
<1>   QED BY <1>2, <1>3, <1>4, <1>5, <1>6, <1>7 DEF Next, DriverNext

\* The step that dials
LEMMA DialsOnce ==
    ASSUME NEW n \in Numbers, \A c \in Configs : c.call = None \/ c.call.number = n,
           RedialInv(n), [Next]_vars, Submits({"initiate_call"}), left.calls = MaxCalls
    PROVE  st.no_carrier_count <= MaxConfigs - left.configs
<1>1. OneNumberCfg(n) /\ BeforeCalls(n) /\ LeftType
      BY DEF OneNumberCfg, RedialInv
<1>2. IsSeq(command) /\ Len(command) \in Nat
      BY <1>1, IsSeqLen DEF BeforeCalls, DialQueues
<1>3. Len(command') > Len(command) /\ Sent.op = "initiate_call"
      BY DEF Submits
<1>4. CASE command' = command
  <2>1. Len(command') = Len(command)
        BY <1>4
  <2>   QED BY <1>2, <1>3, <2>1
<1>5. CASE command # <<>> /\ command' = Tail(command)
  <2>1. command \in Seq({command[i] : i \in DOMAIN command})
        BY <1>2 DEF IsSeq
  <2>2. Len(command') = Len(command) - 1
        BY <1>5, <2>1, TailIs
  <2>   QED BY <1>2, <1>3, <2>2
<1>6. CASE Submission
  <2>1. command' = Append(command, Command) /\ Command.op = NextOp
        BY <1>6 DEF Submission, Command
  <2>2. Sent = Command
    <3>   DEFINE S == {command[i] : i \in DOMAIN command} \union {Command}
    <3>1. command \in Seq(S) /\ Command \in S
          BY <1>2 DEF IsSeq
    <3>   HIDE DEF S
    <3>2. Last(Append(command, Command)) = Command
          BY <3>1 DEF Last
    <3>   QED BY <2>1, <3>2 DEF Sent
  <2>3. st.no_carrier_count <= Changes
        BY <1>1, <1>3, <1>6, <2>1, <2>2, SubmissionDials
  <2>   QED BY <2>3 DEF Changes
<1>7. \/ command' = command
      \/ command # <<>> /\ command' = Tail(command)
      \/ ApplyConfig
      BY DEF Next, DriverNext, ModemNext, ReadLine, HandleTimer, SetConfig, ModemAnswers,
             ModemRefuses, ModemBoots, SimAvailable, RemoteCalls, RingsAgain, RemotePicksUp,
             RemoteHangsUp, vars
<1>8. ApplyConfig => command' = command \/ Submission
      BY ApplyConfigIs DEF Submission
<1>   QED BY <1>4, <1>5, <1>6, <1>7, <1>8

\* A user with one number to call: a call that ended is not dialled again by itself, however
\* slow the modem is with its answers, until a first call comes in (_outbound,
\* control.h:434).
THEOREM EndedCallStaysEnded == ASSUME OneNumber PROVE Spec => NoRedial
<1>1. PICK n \in Numbers : \A c \in Configs : c.call = None \/ c.call.number = n
      BY DEF OneNumber
<1>2. Init => RedialInv(n)
      BY RedialInit
<1>3. RedialInv(n) /\ [Next]_vars => RedialInv(n)'
      BY <1>1, RedialNext
<1>4. RedialInv(n) /\ [Next]_vars =>
        [(Submits({"initiate_call"}) /\ left.calls = MaxCalls)
            => st.no_carrier_count <= MaxConfigs - left.configs]_vars
      BY <1>1, DialsOnce
<1>   QED BY <1>2, <1>3, <1>4, PTL DEF Spec, NoRedial

================================================================================
