---------------------------- MODULE ScpDriverProof -----------------------------
(***************************************************************************)
(* Proofs about ScpDriver for any number of clients, any program and any   *)
(* width of the sequence numbers.                                          *)
(*                                                                         *)
(* The argument: at most one program is under way, and where it is can be  *)
(* told from the two queues and the firmware (PipelineInv).  The session   *)
(* whose execution ID is set, if there is one, is the session of this very *)
(* program, and the program or its output is in the mailbox buffer where   *)
(* the firmware and the driver look next (ExecutingInv).  This is why a    *)
(* number that wraps around, or outlives its session, finds no wrong one.  *)
(* The last part adds that an IDLE driver has no request waiting (WorkInv) *)
(* and derives from both that the model implements ScpService.             *)
(***************************************************************************)
EXTENDS ScpDriver, TLAPS

\* Where the program submitted last is, with the content q1 of mq1
Submitted(q1)  == mq0 = <<last_submit>> /\ scp.pc = "mainloop" /\ q1 = <<>>
Evaluating(q1) == mq0 = <<>> /\ scp.pc = "evaluate" /\ scp.seq = last_submit /\ q1 = <<>>
Evaluated(q1)  == mq0 = <<>> /\ scp.pc = "ack" /\ scp.seq = last_submit /\ q1 = <<>>
Confirmed(q1)  == mq0 = <<>> /\ scp.pc = "mainloop" /\ q1 = <<last_submit>>
Quiet(q1)      == mq0 = <<>> /\ scp.pc = "mainloop" /\ q1 = <<>>

\* The parts of the invariant, for the sessions s, the clients cl, their
\* signals sg, the driver state st and the content q1 of mq1.  A handler that
\* ends in Schedule establishes them for what it passes to Schedule.
PipelineInv(st, q1) ==
    /\ st = "BUSY" => Submitted(q1) \/ Evaluating(q1) \/ Evaluated(q1) \/ Confirmed(q1)
    /\ st = "IDLE" => Quiet(q1)

ExecutingInv(s, cl, st, q1) ==
    \A c \in Sessions : s[c].exec_id # None =>
        /\ st = "BUSY"
        /\ s[c].exec_id = last_submit
        /\ s[c].request_len = 0
        /\ s[c].result = NoResult
        /\ cl[c].pc = "wait"
        /\ Submitted(q1) \/ Evaluating(q1) => mib.program = cl[c].program
        /\ Evaluated(q1) \/ Confirmed(q1) => mob.program = cl[c].program

OneExecutingInv(s) ==
    \A c, d \in Sessions : s[c].exec_id # None /\ s[d].exec_id # None => c = d

PendingInv(s, cl) ==
    \A c \in Sessions : s[c].request_len > 0 =>
        /\ s[c].request_len <= MAX_REQUEST_LEN
        /\ s[c].result = NoResult
        /\ s[c].exec_id = None
        /\ cl[c].pc = "wait"

AnswerInv(s, cl, sg) ==
    \A c \in Sessions : cl[c].pc = "wait" =>
        \/ s[c].result = NoResult
        \/ /\ s[c].result.kind # "UNKNOWN"
           /\ s[c].result.program = cl[c].program
           /\ sg[c]

CountInv == mq0 # <<>> => mib.count > 0

Inv(s, cl, sg, st, q1) ==
    /\ PipelineInv(st, q1)
    /\ ExecutingInv(s, cl, st, q1)
    /\ OneExecutingInv(s)
    /\ PendingInv(s, cl)
    /\ AnswerInv(s, cl, sg)
    /\ CountInv

IInv == TypeOK /\ Inv(session, client, signal, state, mq1)

--------------------------------------------------------------------------------
(* Types *)

SessionType == [request_len : Nat, result : Results, exec_id : SeqNumbers \union {None}]

\* A sequence number is followed by a sequence number.
LEMMA NextSeq == ASSUME NEW n \in SeqNumbers
                 PROVE  (n + 1) % SeqModulus \in SeqNumbers
  BY SeqAssumption DEF SeqNumbers

\* A queue that is not empty has a head and a tail.
LEMMA HeadTail == ASSUME NEW S, NEW q \in Seq(S), q # <<>>
                  PROVE  Head(q) \in S /\ Tail(q) \in Seq(S)
  OBVIOUS

\* Scheduling preserves the types of all it assigns.
LEMMA ScheduleType ==
    ASSUME TypeOK,
           NEW s \in [Sessions -> SessionType],
           NEW prog \in [Sessions -> Programs \union {None}],
           NEW st \in {"IDLE", "BUSY"},
           Schedule(s, prog, st)
    PROVE  /\ session' \in [Sessions -> SessionType]
           /\ state' \in {"IDLE", "BUSY"}
           /\ last_submit' \in SeqNumbers
           /\ mib' \in [program : Programs \union {None}, count : Nat]
           /\ mq0' \in Seq(SeqNumbers)
<1>1. CASE st = "IDLE" /\ PendingRequests(s) # {}
  <2>1. PICK c \in PendingRequests(s) : Submit(c, s, prog[c])
    BY <1>1 DEF Schedule
  <2>2. c \in Sessions /\ s[c] \in SessionType /\ prog[c] \in Programs \union {None}
    BY DEF PendingRequests
  <2>3. last_submit' \in SeqNumbers
    BY <2>1, NextSeq DEF Submit, TypeOK
  <2>4. s[c].request_len % 1024 \in Nat
    BY <2>2 DEF SessionType
  <2>5. session' \in [Sessions -> SessionType]
    BY <2>1, <2>2, <2>3 DEF Submit, SessionType
  <2> QED
    BY <2>1, <2>2, <2>3, <2>4, <2>5 DEF Submit, TypeOK
<1>2. CASE ~(st = "IDLE" /\ PendingRequests(s) # {})
  BY <1>2 DEF Schedule, TypeOK
<1> QED
  BY <1>1, <1>2

LEMMA InitType == Init => TypeOK
<1> SUFFICES ASSUME Init PROVE TypeOK
  OBVIOUS
<1>1. 0 \in SeqNumbers
  BY SeqAssumption DEF SeqNumbers
<1>2. session \in [Sessions -> SessionType]
  BY DEF Init, SessionType, NewSession, NoResult, Results
<1>3. client \in [Sessions -> [pc : {"closed", "idle", "wait"}, program : Programs \union {None}]]
  BY DEF Init
<1>4. mq0 \in Seq(SeqNumbers) /\ mq1 \in Seq(SeqNumbers)
  BY DEF Init
<1> QED
  BY <1>1, <1>2, <1>3, <1>4 DEF Init, TypeOK, SessionType

LEMMA DeliveredType ==
    ASSUME TypeOK, NEW n \in SeqNumbers
    PROVE  Delivered(n) \in [Sessions -> SessionType]
<1>1. Retrieve \in Results
  BY DEF Retrieve, Results, TypeOK
<1> QED
  BY <1>1 DEF Delivered, TypeOK, SessionType

LEMMA NextType == ASSUME TypeOK, [Next]_vars PROVE TypeOK'
<1>0. /\ session \in [Sessions -> SessionType]
      /\ Marshalled \in [Sessions -> Programs \union {None}]
      /\ NewSession \in SessionType
  BY DEF TypeOK, SessionType, Marshalled, NewSession, NoResult, Results
<1>1. ASSUME NEW c \in Remote, Open(c) PROVE TypeOK'
  BY <1>0, <1>1 DEF Open, TypeOK, SessionType, Sessions, driverVars, mboxVars
<1>2. ASSUME NEW c \in Remote, Close(c) PROVE TypeOK'
  BY <1>0, <1>2 DEF Close, TypeOK, SessionType, Sessions, driverVars, mboxVars
<1>3. ASSUME NEW c \in Sessions, NEW p \in Programs, NEW len \in RequestLens, Request(c, p, len)
      PROVE  TypeOK'
  <2>1. CASE len > MAX_REQUEST_LEN
    <3>1. UNCHANGED vars
      BY <1>3, <2>1 DEF Request, vars, driverVars, mboxVars
    <3> QED
      BY <3>1 DEF TypeOK, vars, driverVars, mboxVars
  <2>2. CASE ~(len > MAX_REQUEST_LEN)
    <3> DEFINE s == [session EXCEPT ![c].request_len = len, ![c].result = NoResult]
               prog == [Marshalled EXCEPT ![c] = p]
    <3>1. s \in [Sessions -> SessionType] /\ prog \in [Sessions -> Programs \union {None}]
      BY <1>0, LensAssumption DEF SessionType, NoResult, Results
    <3>2. Schedule(s, prog, state)
      BY <1>3, <2>2 DEF Request
    <3>3. client' \in [Sessions -> [pc : {"closed", "idle", "wait"},
                                    program : Programs \union {None}]]
      <4>1. client' = [client EXCEPT ![c] = [pc |-> "wait", program |-> p]]
        BY <1>3, <2>2 DEF Request
      <4> QED
        BY <4>1 DEF TypeOK
    <3>4. state \in {"IDLE", "BUSY"}
      BY DEF TypeOK
    <3>5. UNCHANGED <<signal, mob, mq1, irq, scp>>
      BY <1>3 DEF Request
    <3> HIDE DEF s, prog
    <3>6. /\ session' \in [Sessions -> SessionType]
          /\ state' \in {"IDLE", "BUSY"}
          /\ last_submit' \in SeqNumbers
          /\ mib' \in [program : Programs \union {None}, count : Nat]
          /\ mq0' \in Seq(SeqNumbers)
      BY <3>1, <3>2, <3>4, ScheduleType
    <3> QED
      BY <3>3, <3>5, <3>6 DEF TypeOK, SessionType
  <2> QED
    BY <2>1, <2>2
<1>4. ASSUME NEW c \in Sessions, Respond(c) PROVE TypeOK'
  BY <1>4 DEF Respond, TypeOK, driverVars, mboxVars
<1>5. CASE HandleIrq
  <2>1. CASE mq1 # <<>>
    <3> DEFINE n == Head(mq1)
    <3>1. n \in SeqNumbers /\ Tail(mq1) \in Seq(SeqNumbers)
      BY <2>1, HeadTail DEF TypeOK
    <3>2. Delivered(n) \in [Sessions -> SessionType]
      BY <3>1, DeliveredType
    <3>3. Schedule(Delivered(n), Marshalled, "IDLE")
      BY <1>5, <2>1 DEF HandleIrq
    <3>4. signal' \in [Sessions -> BOOLEAN]
      BY <1>5, <2>1 DEF HandleIrq, Signalled, TypeOK
    <3> HIDE DEF n
    <3>5. /\ session' \in [Sessions -> SessionType]
          /\ state' \in {"IDLE", "BUSY"}
          /\ last_submit' \in SeqNumbers
          /\ mib' \in [program : Programs \union {None}, count : Nat]
          /\ mq0' \in Seq(SeqNumbers)
      BY <1>0, <3>2, <3>3, ScheduleType
    <3> QED
      BY <1>5, <2>1, <3>1, <3>4, <3>5 DEF HandleIrq, TypeOK, SessionType
  <2>2. CASE mq1 = <<>>
    <3>1. Schedule(session, Marshalled, state) /\ state \in {"IDLE", "BUSY"}
      BY <1>5, <2>2 DEF HandleIrq, TypeOK
    <3>2. /\ session' \in [Sessions -> SessionType]
          /\ state' \in {"IDLE", "BUSY"}
          /\ last_submit' \in SeqNumbers
          /\ mib' \in [program : Programs \union {None}, count : Nat]
          /\ mq0' \in Seq(SeqNumbers)
      BY <1>0, <3>1, ScheduleType
    <3> QED
      BY <1>5, <2>2, <3>2 DEF HandleIrq, TypeOK, SessionType
  <2> QED
    BY <2>1, <2>2
<1>6. CASE ScpFetch
  <2>1. Head(mq0) \in SeqNumbers /\ Tail(mq0) \in Seq(SeqNumbers)
    BY <1>6, HeadTail DEF ScpFetch, TypeOK
  <2>2. mob' \in [program : Programs \union {None}, count : Nat]
    BY <1>6 DEF ScpFetch, TypeOK
  <2>3. scp' \in [pc : {"mainloop", "evaluate", "ack"}, seq : SeqNumbers]
    BY <1>6, <2>1 DEF ScpFetch
  <2> QED
    BY <1>6, <2>1, <2>2, <2>3 DEF ScpFetch, TypeOK, driverVars
<1>7. ASSUME NEW len \in ResponseLens, ScpEvaluate(len) PROVE TypeOK'
  <2> DEFINE count == IF len < MOB_LIMIT THEN len ELSE MOB_LIMIT
  <2>1. len \in Nat /\ count \in Nat
    BY LensAssumption DEF MOB_LIMIT
  <2>2. mob' \in [program : Programs \union {None}, count : Nat]
    BY <1>7, <2>1 DEF ScpEvaluate, TypeOK
  <2>3. mib' \in [program : Programs \union {None}, count : Nat]
    BY <1>7 DEF ScpEvaluate, TypeOK
  <2>4. scp' \in [pc : {"mainloop", "evaluate", "ack"}, seq : SeqNumbers]
    BY <1>7 DEF ScpEvaluate, TypeOK
  <2> QED
    BY <1>7, <2>2, <2>3, <2>4 DEF ScpEvaluate, TypeOK, driverVars
<1>8. CASE ScpAck
  <2>1. scp' \in [pc : {"mainloop", "evaluate", "ack"}, seq : SeqNumbers]
    BY <1>8 DEF ScpAck, TypeOK
  <2>2. mq1' \in Seq(SeqNumbers)
    BY <1>8 DEF ScpAck, TypeOK
  <2> QED
    BY <1>8, <2>1, <2>2 DEF ScpAck, TypeOK, driverVars
<1>9. CASE UNCHANGED vars
  BY <1>9 DEF vars, TypeOK, driverVars, mboxVars
<1> QED
  BY <1>1, <1>2, <1>3, <1>4, <1>5, <1>6, <1>7, <1>8, <1>9 DEF Next, Sessions, LocalLens

\* Every part of the state keeps its type, whatever the instance.
THEOREM TypeCorrect == Spec => []TypeOK
  BY InitType, NextType, PTL DEF Spec

--------------------------------------------------------------------------------
(* The invariant *)

LEMMA InitInv == Init => IInv
<1> SUFFICES ASSUME Init PROVE IInv
  OBVIOUS
<1>1. \A c \in Sessions : session[c] = NewSession /\ client[c].pc # "wait"
  BY DEF Init
<1> QED
  BY <1>1, InitType DEF Init, IInv, Inv, PipelineInv, Quiet, ExecutingInv, OneExecutingInv,
                        PendingInv, AnswerInv, CountInv, NewSession, NoResult

\* The mask applied to the length of a request does not clear it.
LEMMA MaskKeepsLength == ASSUME NEW len \in 1 .. MAX_REQUEST_LEN PROVE len % 1024 > 0
  BY Z3 DEF MAX_REQUEST_LEN

\* A handler that ends in Schedule establishes the invariant if it holds for
\* the sessions and the driver state handed to Schedule.
LEMMA ScheduleInv ==
    ASSUME TypeOK, TypeOK',
           NEW s \in [Sessions -> SessionType],
           NEW prog \in [Sessions -> Programs \union {None}],
           NEW st \in {"IDLE", "BUSY"},
           Schedule(s, prog, st),
           \A c \in Sessions : prog[c] = client'[c].program,
           UNCHANGED <<mob, scp>>,
           Inv(s, client', signal', st, mq1')
    PROVE  IInv'
<1>1. CASE st = "IDLE" /\ PendingRequests(s) # {}
  <2>1. PICK c \in PendingRequests(s) : Submit(c, s, prog[c])
    BY <1>1 DEF Schedule
  <2> DEFINE n == (last_submit + 1) % SeqModulus
  <2>2. /\ c \in Sessions
        /\ s[c].request_len \in 1 .. MAX_REQUEST_LEN
        /\ s[c].result = NoResult
        /\ client'[c].pc = "wait"
    BY DEF PendingRequests, Inv, PendingInv, SessionType
  <2>3. /\ state' = "BUSY" /\ last_submit' = n
        /\ mib' = [program |-> client'[c].program, count |-> s[c].request_len % 1024]
        /\ mq0' = Append(mq0, n)
        /\ session' = [s EXCEPT ![c].exec_id = n, ![c].request_len = 0]
    BY <2>1, <2>2 DEF Submit
  <2>4. \A d \in Sessions : s[d].exec_id = None
    BY <1>1 DEF Inv, ExecutingInv
  <2>5. mq0 = <<>> /\ scp.pc = "mainloop" /\ mq1' = <<>>
    BY <1>1 DEF Inv, PipelineInv, Quiet
  <2>6. n \in SeqNumbers /\ n # None
    BY NextSeq, NoneAssumption DEF TypeOK
  <2> HIDE DEF n
  <2>7. mq0' = <<n>> /\ scp'.pc = "mainloop"
    BY <2>3, <2>5
  <2>8. PipelineInv(state, mq1)'
    BY <2>3, <2>5, <2>7 DEF PipelineInv, Submitted
  <2>9. /\ session'[c] = [s[c] EXCEPT !.exec_id = n, !.request_len = 0]
        /\ \A d \in Sessions \ {c} : session'[d] = s[d]
    BY <2>2, <2>3
  <2>10. /\ session'[c].exec_id = n /\ session'[c].request_len = 0
         /\ session'[c].result = NoResult
    BY <2>2, <2>9 DEF SessionType
  <2>11. ExecutingInv(session, client, state, mq1)'
    BY <2>2, <2>3, <2>4, <2>7, <2>5, <2>9, <2>10
       DEF ExecutingInv, Evaluated, Confirmed
  <2>12. OneExecutingInv(session)'
    BY <2>4, <2>9 DEF OneExecutingInv
  <2>13. PendingInv(session, client)'
    <3> SUFFICES ASSUME NEW d \in Sessions, session'[d].request_len > 0
                 PROVE  /\ session'[d].request_len <= MAX_REQUEST_LEN
                        /\ session'[d].result = NoResult
                        /\ session'[d].exec_id = None
                        /\ client'[d].pc = "wait"
      BY DEF PendingInv
    <3>1. d # c
      BY <2>10
    <3> QED
      BY <2>9, <3>1 DEF Inv, PendingInv
  <2>14. AnswerInv(session, client, signal)'
    BY <2>2, <2>9, <2>10 DEF Inv, AnswerInv
  <2>15. CountInv'
    BY <2>2, <2>3, MaskKeepsLength DEF CountInv
  <2> QED
    BY <2>8, <2>11, <2>12, <2>13, <2>14, <2>15 DEF IInv, Inv
<1>2. CASE ~(st = "IDLE" /\ PendingRequests(s) # {})
  <2>1. session' = s /\ state' = st /\ UNCHANGED <<mib, last_submit, mq0>>
    BY <1>2 DEF Schedule
  <2>2. PipelineInv(state, mq1)' /\ CountInv'
    BY <2>1 DEF Inv, PipelineInv, Submitted, Evaluating, Evaluated, Confirmed, Quiet, CountInv
  <2>3. ExecutingInv(session, client, state, mq1)'
    BY <2>1 DEF Inv, ExecutingInv, Submitted, Evaluating, Evaluated, Confirmed
  <2>4. /\ OneExecutingInv(session)'
        /\ PendingInv(session, client)'
        /\ AnswerInv(session, client, signal)'
    BY <2>1 DEF Inv, OneExecutingInv, PendingInv, AnswerInv
  <2> QED
    BY <2>2, <2>3, <2>4 DEF IInv, Inv
<1> QED
  BY <1>1, <1>2

LEMMA NextInv == ASSUME IInv, [Next]_vars PROVE IInv'
<1> USE DEF IInv
<1>0. /\ TypeOK'
      /\ session \in [Sessions -> SessionType]
      /\ Marshalled \in [Sessions -> Programs \union {None}]
  BY NextType DEF TypeOK, SessionType, Marshalled
<1>1. ASSUME NEW c \in Remote, Open(c) \/ Close(c) PROVE IInv'
  <2>1. /\ c \in Sessions
        /\ client' \in [Sessions -> [pc : {"closed", "idle", "wait"},
                                     program : Programs \union {None}]]
    BY <1>0 DEF Sessions, TypeOK
  <2>2. session'[c] = NewSession /\ client'[c].pc # "wait"
    BY <1>0, <1>1, <2>1 DEF Open, Close, TypeOK
  <2>3. \A d \in Sessions \ {c} :
            session'[d] = session[d] /\ client'[d] = client[d] /\ signal'[d] = signal[d]
    BY <1>0, <1>1 DEF Open, Close, TypeOK
  <2>4. UNCHANGED <<state, last_submit, mib, mob, mq0, mq1, scp>>
    BY <1>1 DEF Open, Close, driverVars, mboxVars
  <2>5. ~(session'[c].request_len > 0) /\ session'[c].exec_id = None
    BY <2>2 DEF NewSession
  <2>6. PipelineInv(state, mq1)' /\ CountInv'
    BY <2>4 DEF Inv, PipelineInv, Submitted, Evaluating, Evaluated, Confirmed, Quiet, CountInv
  <2>7. ExecutingInv(session, client, state, mq1)'
    BY <2>3, <2>4, <2>5 DEF Inv, ExecutingInv, Submitted, Evaluating, Evaluated, Confirmed
  <2>8. /\ OneExecutingInv(session)'
        /\ PendingInv(session, client)'
        /\ AnswerInv(session, client, signal)'
    BY <2>2, <2>3, <2>5 DEF Inv, OneExecutingInv, PendingInv, AnswerInv
  <2> QED
    BY <1>0, <2>6, <2>7, <2>8 DEF Inv
<1>2. ASSUME NEW c \in Sessions, NEW p \in Programs, NEW len \in RequestLens, Request(c, p, len)
      PROVE  IInv'
  <2>1. CASE len > MAX_REQUEST_LEN
    <3>1. UNCHANGED vars
      BY <1>2, <2>1 DEF Request, vars, driverVars, mboxVars
    <3> QED
      BY <1>0, <3>1 DEF vars, driverVars, mboxVars, Inv, PipelineInv, Submitted, Evaluating,
                        Evaluated, Confirmed, Quiet, ExecutingInv, OneExecutingInv,
                        PendingInv, AnswerInv, CountInv
  <2>2. CASE ~(len > MAX_REQUEST_LEN)
    <3> DEFINE s == [session EXCEPT ![c].request_len = len, ![c].result = NoResult]
               prog == [Marshalled EXCEPT ![c] = p]
    <3>1. s \in [Sessions -> SessionType] /\ prog \in [Sessions -> Programs \union {None}]
      BY <1>0, LensAssumption DEF SessionType, NoResult, Results
    <3>2. /\ Schedule(s, prog, state)
          /\ client' = [client EXCEPT ![c] = [pc |-> "wait", program |-> p]]
          /\ client[c].pc = "idle"
          /\ UNCHANGED <<signal, mob, mq1, irq, scp>>
      BY <1>2, <2>2 DEF Request
    <3>3. client'[c] = [pc |-> "wait", program |-> p]
      BY <3>2 DEF TypeOK
    <3>4. \A d \in Sessions \ {c} : s[d] = session[d] /\ client'[d] = client[d]
      BY <1>0, <3>2 DEF TypeOK
    <3>5. s[c] = [session[c] EXCEPT !.request_len = len, !.result = NoResult]
      BY <1>0
    <3>6. s[c].request_len = len /\ s[c].result = NoResult /\ s[c].exec_id = session[c].exec_id
      BY <1>0, <3>5 DEF SessionType
    <3>7. \A d \in Sessions : prog[d] = client'[d].program
      BY <3>2 DEF Marshalled, TypeOK
    <3> HIDE DEF s, prog
    <3>8. session[c].exec_id = None
      BY <3>2 DEF Inv, ExecutingInv
    <3>9. ExecutingInv(s, client', state, mq1')
      BY <3>2, <3>4, <3>6, <3>8 DEF Inv, ExecutingInv, Submitted, Evaluating, Evaluated, Confirmed
    <3>10. OneExecutingInv(s) /\ PipelineInv(state, mq1')
      BY <3>2, <3>4, <3>6, <3>8
         DEF Inv, OneExecutingInv, PipelineInv, Submitted, Evaluating, Evaluated, Confirmed, Quiet
    <3>11. PendingInv(s, client')
      BY <2>2, <3>3, <3>4, <3>6, <3>8, LensAssumption DEF Inv, PendingInv, MAX_REQUEST_LEN
    <3>12. AnswerInv(s, client', signal')
      BY <3>2, <3>4, <3>6 DEF Inv, AnswerInv
    <3>13. Inv(s, client', signal', state, mq1')
      BY <3>9, <3>10, <3>11, <3>12 DEF Inv
    <3>14. state \in {"IDLE", "BUSY"}
      BY DEF TypeOK
    <3> QED
      BY <1>0, <3>1, <3>2, <3>7, <3>13, <3>14, ScheduleInv
  <2> QED
    BY <2>1, <2>2
<1>3. ASSUME NEW c \in Sessions, Respond(c) PROVE IInv'
  <2>1. UNCHANGED <<session, state, last_submit, mib, mob, mq0, mq1, scp>>
    BY <1>3 DEF Respond, driverVars, mboxVars
  <2>2. \A d \in Sessions \ {c} : client'[d] = client[d] /\ signal'[d] = signal[d]
    BY <1>3 DEF Respond, TypeOK
  <2>3. \/ session[c].result.kind = "UNKNOWN" /\ client' = client
        \/ session[c].result.kind # "UNKNOWN" /\ client'[c].pc = "idle"
    BY <1>3 DEF Respond, TypeOK
  <2>4. NoResult.kind = "UNKNOWN" /\ client[c].pc = "wait"
    BY <1>3 DEF NoResult, Respond
  <2>5. PipelineInv(state, mq1)' /\ CountInv' /\ OneExecutingInv(session)'
    BY <2>1 DEF Inv, PipelineInv, Submitted, Evaluating, Evaluated, Confirmed, Quiet, CountInv,
                OneExecutingInv
  <2>6. ExecutingInv(session, client, state, mq1)'
    BY <2>1, <2>2, <2>3, <2>4 DEF Inv, ExecutingInv, Submitted, Evaluating, Evaluated, Confirmed
  <2>7. PendingInv(session, client)'
    BY <2>1, <2>2, <2>3, <2>4 DEF Inv, PendingInv
  <2>8. AnswerInv(session, client, signal)'
    BY <2>1, <2>2, <2>3, <2>4 DEF Inv, AnswerInv
  <2> QED
    BY <1>0, <2>5, <2>6, <2>7, <2>8 DEF Inv
<1>4. CASE HandleIrq
  <2>1. CASE mq1 # <<>>
    <3>1. state = "BUSY" /\ Confirmed(mq1) /\ Head(mq1) = last_submit /\ Tail(mq1) = <<>>
      <4>1. state = "BUSY" /\ Confirmed(mq1)
        BY <2>1 DEF Inv, PipelineInv, TypeOK, Submitted, Evaluating, Evaluated, Quiet
      <4>2. mq1 = <<last_submit>>
        BY <4>1 DEF Confirmed
      <4> QED
        BY <4>1, <4>2
    <3> DEFINE s == Delivered(last_submit)
    <3>2. /\ Schedule(s, Marshalled, "IDLE")
          /\ mq1' = <<>>
          /\ signal' = Signalled(last_submit)
          /\ UNCHANGED <<client, mob, scp>>
      BY <1>4, <2>1, <3>1 DEF HandleIrq
    <3>3. last_submit \in SeqNumbers
      BY DEF TypeOK
    <3>4. s \in [Sessions -> SessionType] /\ Marshalled \in [Sessions -> Programs \union {None}]
      BY <3>3, DeliveredType DEF Marshalled, TypeOK
    <3>5. \A d \in Sessions : Marshalled[d] = client'[d].program
      BY <3>2 DEF Marshalled
    <3>6. \A c \in Sessions : IF session[c].exec_id = last_submit
                              THEN s[c] = [session[c] EXCEPT !.result = Retrieve, !.exec_id = None]
                              ELSE s[c] = session[c]
      BY DEF Delivered, Matching
    <3>7. ASSUME NEW c \in Sessions
          PROVE  /\ s[c].request_len = session[c].request_len
                 /\ s[c].exec_id = None
                 /\ \/ /\ s[c].result = Retrieve
                       /\ session[c].exec_id = last_submit
                       /\ signal'[c]
                    \/ /\ s[c].result = session[c].result
                       /\ session[c].exec_id = None
                       /\ signal'[c] = signal[c]
      <4>1. session[c].exec_id # None => session[c].exec_id = last_submit
        BY DEF Inv, ExecutingInv
      <4>2. signal'[c] = (signal[c] \/ session[c].exec_id = last_submit)
        BY <3>2 DEF Signalled, Matching
      <4>3. CASE session[c].exec_id = last_submit
        BY <1>0, <3>6, <4>2, <4>3 DEF SessionType
      <4>4. CASE session[c].exec_id # last_submit
        <5>1. signal'[c] = signal[c]
          BY <4>2, <4>4 DEF TypeOK
        <5> QED
          BY <3>6, <4>1, <4>4, <5>1
      <4> QED
        BY <4>3, <4>4
    <3>8. Retrieve.kind # "UNKNOWN" /\ Retrieve.program = mob.program
      BY DEF Retrieve
    <3> HIDE DEF s
    <3>9. PipelineInv("IDLE", mq1') /\ CountInv
      BY <3>1, <3>2 DEF Inv, PipelineInv, Confirmed, Quiet, CountInv
    <3>10. ExecutingInv(s, client', "IDLE", mq1') /\ OneExecutingInv(s)
      BY <3>7 DEF ExecutingInv, OneExecutingInv
    <3>11. PendingInv(s, client')
      <4> SUFFICES ASSUME NEW c \in Sessions, s[c].request_len > 0
                   PROVE  /\ s[c].request_len <= MAX_REQUEST_LEN
                          /\ s[c].result = NoResult
                          /\ s[c].exec_id = None
                          /\ client'[c].pc = "wait"
        BY DEF PendingInv
      <4>1. session[c].request_len > 0
        BY <3>7
      <4>2. session[c].exec_id = None
        BY <4>1 DEF Inv, PendingInv
      <4>3. s[c].result = session[c].result
        BY <3>3, <3>7, <4>2, NoneAssumption
      <4> QED
        BY <3>2, <3>7, <4>1, <4>3 DEF Inv, PendingInv
    <3>12. AnswerInv(s, client', signal')
      <4> SUFFICES ASSUME NEW c \in Sessions, client[c].pc = "wait"
                   PROVE  \/ s[c].result = NoResult
                          \/ /\ s[c].result.kind # "UNKNOWN"
                             /\ s[c].result.program = client[c].program
                             /\ signal'[c]
        BY <3>2 DEF AnswerInv
      <4>1. CASE session[c].exec_id = last_submit
        <5>1. mob.program = client[c].program
          BY <3>1, <3>3, <4>1, NoneAssumption DEF Inv, ExecutingInv
        <5> QED
          BY <3>3, <3>7, <3>8, <4>1, <5>1, NoneAssumption
      <4>2. CASE session[c].exec_id # last_submit
        BY <3>7, <4>2 DEF Inv, AnswerInv
      <4> QED
        BY <4>1, <4>2
    <3>13. Inv(s, client', signal', "IDLE", mq1')
      BY <3>9, <3>10, <3>11, <3>12 DEF Inv
    <3> QED
      BY <1>0, <3>2, <3>4, <3>5, <3>13, ScheduleInv
  <2>2. CASE mq1 = <<>>
    <3>1. Schedule(session, Marshalled, state) /\ UNCHANGED <<client, signal, mob, mq1, scp>>
      BY <1>4, <2>2 DEF HandleIrq
    <3>2. Marshalled \in [Sessions -> Programs \union {None}] /\ state \in {"IDLE", "BUSY"}
      BY DEF Marshalled, TypeOK
    <3>3. \A d \in Sessions : Marshalled[d] = client'[d].program
      BY <3>1 DEF Marshalled
    <3>4. Inv(session, client', signal', state, mq1')
      BY <3>1
    <3> QED
      BY <1>0, <3>1, <3>2, <3>3, <3>4, ScheduleInv
  <2> QED
    BY <2>1, <2>2
<1>5. CASE ScpFetch
  <2>1. state = "BUSY" /\ Submitted(mq1) /\ Evaluating(mq1)'
    BY <1>5 DEF ScpFetch, Inv, PipelineInv, TypeOK, Submitted, Evaluating, Evaluated, Confirmed,
                Quiet, driverVars
  <2>2. UNCHANGED <<client, signal, session, state, last_submit, mib>>
    BY <1>5 DEF ScpFetch, driverVars
  <2>3. PipelineInv(state, mq1)' /\ CountInv'
    BY <2>1, <2>2 DEF PipelineInv, CountInv, Evaluating
  <2>4. ExecutingInv(session, client, state, mq1)'
    BY <2>1, <2>2 DEF Inv, ExecutingInv, Evaluating, Evaluated, Confirmed
  <2>5. /\ OneExecutingInv(session)'
        /\ PendingInv(session, client)'
        /\ AnswerInv(session, client, signal)'
    BY <2>2 DEF Inv, OneExecutingInv, PendingInv, AnswerInv
  <2> QED
    BY <1>0, <2>3, <2>4, <2>5 DEF Inv
<1>6. ASSUME NEW len \in ResponseLens, ScpEvaluate(len) PROVE IInv'
  <2>1. state = "BUSY" /\ Evaluating(mq1) /\ Evaluated(mq1)'
    BY <1>6 DEF ScpEvaluate, Inv, PipelineInv, TypeOK, Submitted, Evaluating, Evaluated, Confirmed,
                Quiet, driverVars
  <2>2. /\ UNCHANGED <<client, signal, session, state, last_submit, mq0>>
        /\ mob'.program = mib.program
    BY <1>6 DEF ScpEvaluate, driverVars
  <2>3. PipelineInv(state, mq1)' /\ CountInv'
    BY <2>1, <2>2 DEF PipelineInv, CountInv, Evaluated
  <2>4. ExecutingInv(session, client, state, mq1)'
    BY <2>1, <2>2 DEF Inv, ExecutingInv, Submitted, Evaluating, Evaluated
  <2>5. /\ OneExecutingInv(session)'
        /\ PendingInv(session, client)'
        /\ AnswerInv(session, client, signal)'
    BY <2>2 DEF Inv, OneExecutingInv, PendingInv, AnswerInv
  <2> QED
    BY <1>0, <2>3, <2>4, <2>5 DEF Inv
<1>7. CASE ScpAck
  <2>1. state = "BUSY" /\ Evaluated(mq1) /\ Confirmed(mq1)'
    <3>1. state = "BUSY" /\ Evaluated(mq1)
      BY <1>7 DEF ScpAck, Inv, PipelineInv, TypeOK, Submitted, Evaluating, Confirmed, Quiet
    <3>2. mq1' = <<last_submit>> /\ scp'.pc = "mainloop"
      BY <1>7, <3>1 DEF ScpAck, Evaluated, TypeOK
    <3> QED
      BY <1>7, <3>1, <3>2 DEF ScpAck, Evaluated, Confirmed, driverVars
  <2>2. UNCHANGED <<client, signal, session, state, last_submit, mib, mob, mq0>>
    BY <1>7 DEF ScpAck, driverVars
  <2>3. PipelineInv(state, mq1)' /\ CountInv'
    BY <2>1, <2>2 DEF PipelineInv, CountInv, Confirmed
  <2>4. ExecutingInv(session, client, state, mq1)'
    BY <2>1, <2>2 DEF Inv, ExecutingInv, Submitted, Evaluating, Confirmed
  <2>5. /\ OneExecutingInv(session)'
        /\ PendingInv(session, client)'
        /\ AnswerInv(session, client, signal)'
    BY <2>2 DEF Inv, OneExecutingInv, PendingInv, AnswerInv
  <2> QED
    BY <1>0, <2>3, <2>4, <2>5 DEF Inv
<1>8. CASE UNCHANGED vars
  BY <1>0, <1>8 DEF vars, driverVars, mboxVars, Inv, PipelineInv, Submitted, Evaluating,
                    Evaluated, Confirmed, Quiet, ExecutingInv, OneExecutingInv,
                    PendingInv, AnswerInv, CountInv
<1> QED
  BY <1>1, <1>2, <1>3, <1>4, <1>5, <1>6, <1>7, <1>8 DEF Next, Sessions, LocalLens

THEOREM InvariantHolds == Spec => []IInv
  BY InitInv, NextInv, PTL DEF Spec

\* A client that waits holds no verdict but one on the program it submitted
\* last: what Driver::_with_session and Session_component::matches are for.
THEOREM AnswersMatch == Spec => []AnswerMatchesRequest
<1>1. IInv => AnswerMatchesRequest
  BY DEF IInv, Inv, AnswerInv, AnswerMatchesRequest, NoResult
<1> QED
  BY <1>1, InvariantHolds, PTL

\* The response signal of Session_component::deliver_response is never lost.
THEOREM WakeupsKept == Spec => []NoLostWakeup
<1>1. IInv => NoLostWakeup
  BY DEF IInv, Inv, AnswerInv, NoLostWakeup, NoResult
<1> QED
  BY <1>1, InvariantHolds, PTL

\* The mask of Driver::_submit_to_scp never turns a program into an empty one.
THEOREM ProgramsNotEmptied == Spec => []NeverEvaluatesNothing
<1>1. IInv => NeverEvaluatesNothing
  BY DEF IInv, Inv, CountInv, NeverEvaluatesNothing
<1> QED
  BY <1>1, InvariantHolds, PTL

\* No step of the driver or of a client changes a program under way
\* (State::BUSY guards the mbox input buffer).
THEOREM ProgramsStable == Spec => SubmittedProgramStable
<1>1. IInv /\ [Next]_vars =>
        [(mq0 # <<>> \/ scp.pc # "mainloop") /\ scp' = scp => mib' = mib]_vars
  <2> SUFFICES ASSUME IInv, Next, mq0 # <<>> \/ scp.pc # "mainloop", scp' = scp
               PROVE  mib' = mib
    OBVIOUS
  <2>1. state = "BUSY" /\ ~Confirmed(mq1)
    BY DEF IInv, Inv, PipelineInv, TypeOK, Quiet, Confirmed
  <2>2. mq1 = <<>>
    BY <2>1 DEF IInv, Inv, PipelineInv, Submitted, Evaluating, Evaluated
  <2>3. ASSUME NEW s, NEW prog, Schedule(s, prog, state) PROVE mib' = mib
    BY <2>1, <2>3 DEF Schedule
  <2>4. ASSUME NEW c \in Sessions, NEW p \in Programs, NEW len \in RequestLens, Request(c, p, len)
        PROVE  mib' = mib
    BY <2>3, <2>4 DEF Request
  <2>5. CASE HandleIrq
    BY <2>2, <2>3, <2>5 DEF HandleIrq
  <2>6. ASSUME NEW c \in Sessions, Open(c) \/ Close(c) \/ Respond(c) PROVE mib' = mib
    BY <2>6 DEF Open, Close, Respond, mboxVars
  <2>7. CASE ScpFetch
    BY <2>7 DEF ScpFetch
  <2>8. ASSUME NEW len \in ResponseLens, ScpEvaluate(len) PROVE mib' = mib
    BY <2>8 DEF ScpEvaluate, IInv, TypeOK
  <2>9. CASE ScpAck
    BY <2>9 DEF ScpAck
  <2> QED
    BY <2>4, <2>5, <2>6, <2>7, <2>8, <2>9 DEF Next, Sessions, LocalLens
<1> QED
  BY <1>1, InvariantHolds, PTL DEF Spec, SubmittedProgramStable

\* The driver reads the mbox output buffer only while the firmware is between
\* two programs (Driver::_retrieve_from_scp).
THEOREM RetrievalsComplete == Spec => RetrievedWhenComplete
<1>1. IInv /\ [Next]_vars =>
        [\A c \in Sessions :
            session[c].exec_id # None /\ session'[c].result # session[c].result
                => scp.pc = "mainloop" /\ mq0 = <<>>]_vars
  <2> SUFFICES ASSUME IInv, Next, NEW c \in Sessions, session[c].exec_id # None,
                      session'[c].result # session[c].result
               PROVE  scp.pc = "mainloop" /\ mq0 = <<>>
    OBVIOUS
  <2>1. state = "BUSY" /\ session[c].result = NoResult /\ client[c].pc = "wait"
    BY DEF IInv, Inv, ExecutingInv
  <2>2. session \in [Sessions -> SessionType] /\ NewSession.result = NoResult
    BY DEF IInv, TypeOK, SessionType, NewSession
  <2>3. ASSUME NEW d \in Sessions, NEW p \in Programs, NEW len \in RequestLens, Request(d, p, len)
        PROVE  FALSE
    <3> DEFINE s == [session EXCEPT ![d].request_len = len, ![d].result = NoResult]
    <3>1. c # d
      BY <2>1, <2>3 DEF Request
    <3>2. session' = session \/ session' = s
      BY <2>1, <2>3 DEF Request, Schedule
    <3> QED
      BY <2>2, <3>1, <3>2
  <2>4. ASSUME NEW d \in Sessions, Open(d) \/ Close(d) \/ Respond(d) PROVE FALSE
    BY <2>1, <2>2, <2>4 DEF Open, Close, Respond
  <2>5. CASE HandleIrq
    <3>1. CASE mq1 = <<>>
      BY <2>1, <2>5, <3>1 DEF HandleIrq, Schedule
    <3>2. CASE mq1 # <<>>
      BY <2>1, <3>2 DEF IInv, Inv, PipelineInv, Submitted, Evaluating, Evaluated, Confirmed
    <3> QED
      BY <3>1, <3>2
  <2>6. CASE ScpFetch
    BY <2>6 DEF ScpFetch
  <2>7. ASSUME NEW len \in ResponseLens, ScpEvaluate(len) PROVE FALSE
    BY <2>7 DEF ScpEvaluate
  <2>8. CASE ScpAck
    BY <2>8 DEF ScpAck
  <2> QED
    BY <2>3, <2>4, <2>5, <2>6, <2>7, <2>8 DEF Next, Sessions, LocalLens
<1> QED
  BY <1>1, InvariantHolds, PTL DEF Spec, RetrievedWhenComplete

--------------------------------------------------------------------------------
(* Refinement.  The invariant needs one more part: the driver is never IDLE *)
(* while a request waits, because each handler that adds a request or       *)
(* becomes IDLE ends in Schedule.                                           *)

WorkInv == state = "IDLE" => PendingRequests(session) = {}

RInv == IInv /\ WorkInv

\* The phase of a client, from its session s and its state cl
PhaseOf(s, cl) ==
    IF cl.pc # "wait" THEN cl.pc
    ELSE IF s.result # NoResult THEN "answered"
    ELSE IF s.exec_id # None THEN "executing"
    ELSE IF s.request_len > 0 THEN "pending" ELSE "idle"

PhasesOf(s, cl) == [c \in Sessions |-> PhaseOf(s[c], cl[c])]

LEMMA PhasesAre == IInv => Phases = PhasesOf(session, client)
<1> SUFFICES ASSUME IInv, NEW c \in Sessions
             PROVE  Phase(c) = PhaseOf(session[c], client[c])
  BY DEF Phases, PhasesOf
<1>1. session[c].request_len \in Nat /\ NoResult.kind = "UNKNOWN"
  BY DEF IInv, TypeOK, NoResult
<1>2. CASE client[c].pc # "wait"
  BY <1>2 DEF Phase, PhaseOf, EmptyRequest
<1>3. CASE client[c].pc = "wait" /\ session[c].result # NoResult
  <2>1. session[c].result.kind # "UNKNOWN"
    BY <1>3 DEF IInv, Inv, AnswerInv
  <2> QED
    BY <1>3, <2>1 DEF Phase, PhaseOf, EmptyRequest
<1>4. CASE client[c].pc = "wait" /\ session[c].result = NoResult /\ session[c].exec_id # None
  BY <1>1, <1>4 DEF Phase, PhaseOf, EmptyRequest
<1>5. CASE client[c].pc = "wait" /\ session[c].result = NoResult /\ session[c].exec_id = None
  <2>1. EmptyRequest(c) <=> session[c].request_len = 0
    BY <1>1, <1>5 DEF EmptyRequest
  <2>2. CASE session[c].request_len = 0
    BY <1>1, <1>5, <2>1, <2>2 DEF Phase, PhaseOf
  <2>3. CASE session[c].request_len > 0
    BY <1>1, <1>5, <2>1, <2>3 DEF Phase, PhaseOf
  <2> QED
    BY <1>1, <2>2, <2>3
<1> QED
  BY <1>2, <1>3, <1>4, <1>5

LEMMA PhasesAreNext == IInv' => Phases' = PhasesOf(session', client')
<1>1. (IInv => Phases = PhasesOf(session, client))'
  BY PhasesAre, PTL
<1> QED
  BY <1>1

\* The executing client is the one whose session holds a number, and the
\* processor is free iff the driver is IDLE.
LEMMA ExecutingIs ==
    ASSUME IInv
    PROVE  /\ Service!In(Phases, "executing") = {c \in Sessions : session[c].exec_id # None}
           /\ state = "IDLE" <=> Service!In(Phases, "executing") = {} /\ ~Orphan
<1>1. ASSUME NEW c \in Sessions
      PROVE  PhaseOf(session[c], client[c]) = "executing" <=> session[c].exec_id # None
  <2>1. session[c].exec_id # None => client[c].pc = "wait" /\ session[c].result = NoResult
    BY DEF IInv, Inv, ExecutingInv
  <2>2. client[c].pc \in {"closed", "idle", "wait"}
    BY DEF IInv, TypeOK
  <2> QED
    BY <2>1, <2>2 DEF PhaseOf
<1>2. Service!In(Phases, "executing") = {c \in Sessions : session[c].exec_id # None}
  BY <1>1, PhasesAre DEF PhasesOf, Service!In, Service!Sessions, Sessions
<1>3. \A c \in Sessions : session[c].exec_id # None => state = "BUSY"
  BY DEF IInv, Inv, ExecutingInv
<1>4. state \in {"IDLE", "BUSY"}
  BY DEF IInv, TypeOK
<1> QED
  BY <1>2, <1>3, <1>4 DEF Orphan

\* Scheduling starts the next pending request of the abstract service, if the
\* driver state handed to it is IDLE, and leaves none waiting for an idle one.
LEMMA ScheduleRefines ==
    ASSUME TypeOK, IInv',
           NEW s \in [Sessions -> SessionType],
           NEW prog, NEW st \in {"IDLE", "BUSY"},
           Schedule(s, prog, st),
           PendingInv(s, client'),
           st = "IDLE" => \A c \in Sessions : s[c].exec_id = None
    PROVE  /\ Service!StartNext(PhasesOf(s, client'), st = "IDLE")
           /\ Orphan' = (st = "BUSY" /\ \A c \in Sessions : s[c].exec_id = None)
           /\ WorkInv'
<1> DEFINE ph == PhasesOf(s, client')
<1>1. Phases' = PhasesOf(session', client')
  BY PhasesAreNext
<1>2. ASSUME NEW c \in Sessions
      PROVE  ph[c] = "pending" <=> s[c].request_len > 0
  <2>1. client'[c].pc \in {"closed", "idle", "wait"}
    BY DEF IInv, TypeOK
  <2>2. s[c].request_len > 0 =>
          client'[c].pc = "wait" /\ s[c].result = NoResult /\ s[c].exec_id = None
    BY DEF PendingInv
  <2> QED
    BY <2>1, <2>2 DEF PhaseOf, PhasesOf
<1>3. Service!In(ph, "pending") = PendingRequests(s)
  BY <1>2 DEF Service!In, PendingRequests, Service!Sessions, Sessions
<1>4. CASE st = "IDLE" /\ PendingRequests(s) # {}
  <2>1. PICK c \in PendingRequests(s) : Submit(c, s, prog[c])
    BY <1>4 DEF Schedule
  <2> DEFINE n == (last_submit + 1) % SeqModulus
  <2>2. n # None
    BY NextSeq, NoneAssumption DEF TypeOK
  <2>3. /\ state' = "BUSY"
        /\ session' = [s EXCEPT ![c].exec_id = n, ![c].request_len = 0]
    BY <2>1 DEF Submit
  <2>4. c \in Sessions /\ client'[c].pc = "wait" /\ s[c].result = NoResult
    BY DEF PendingRequests, PendingInv
  <2> HIDE DEF n
  <2>5. session'[c].exec_id = n /\ session'[c].result = NoResult
    BY <2>3, <2>4 DEF SessionType
  <2>6. \A d \in Sessions \ {c} : session'[d] = s[d]
    BY <2>3, <2>4
  <2>7. PhaseOf(session'[c], client'[c]) = "executing"
    BY <2>2, <2>4, <2>5 DEF PhaseOf
  <2>8. Phases' = [ph EXCEPT ![c] = "executing"]
    BY <1>1, <2>4, <2>6, <2>7, Zenon DEF PhasesOf
  <2>9. Service!StartNext(ph, st = "IDLE")
    <3>1. c \in Service!In(ph, "pending")
      BY <1>3
    <3> HIDE DEF ph
    <3> QED
      BY <1>4, <2>8, <3>1 DEF Service!StartNext
  <2>10. ~Orphan'
    BY <2>2, <2>4, <2>5 DEF Orphan
  <2>11. Orphan' = (st = "BUSY" /\ \A d \in Sessions : s[d].exec_id = None)
    BY <1>4, <2>10 DEF Orphan
  <2>12. WorkInv'
    BY <2>3 DEF WorkInv
  <2> QED
    BY <2>9, <2>11, <2>12
<1>5. CASE ~(st = "IDLE" /\ PendingRequests(s) # {})
  <2>1. session' = s /\ state' = st
    BY <1>5 DEF Schedule
  <2>2. Service!StartNext(ph, st = "IDLE")
    <3> HIDE DEF ph
    <3>1. Phases' = ph
      BY <1>1, <2>1 DEF ph
    <3> QED
      BY <1>3, <1>5, <3>1 DEF Service!StartNext
  <2> QED
    BY <1>5, <2>1, <2>2 DEF WorkInv, Orphan
<1> QED
  BY <1>4, <1>5


\* What the abstract service sees of the driver, and its steps
Seen == <<Phases, Orphan>>

LEMMA InitRefines == Init => RInv /\ Service!Init
<1> SUFFICES ASSUME Init PROVE RInv /\ Service!Init
  OBVIOUS
<1>1. IInv
  BY InitInv
<1>2. \A c \in Sessions : session[c] = NewSession /\ client[c].pc = IF c = Local THEN "idle" ELSE "closed"
  BY DEF Init
<1>3. Phases = [c \in Sessions |-> IF c = Local THEN "idle" ELSE "closed"]
  BY <1>1, <1>2, PhasesAre DEF PhasesOf, PhaseOf
<1>4. WorkInv /\ Orphan = FALSE
  BY <1>2 DEF Init, WorkInv, PendingRequests, NewSession, Orphan
<1> QED
  BY <1>1, <1>3, <1>4 DEF RInv, Service!Init, Service!Sessions, Sessions

\* A step of the driver or the firmware that leaves the sessions and clients
\* alone is not seen by the abstract service.
LEMMA Stutters ==
    ASSUME RInv, UNCHANGED <<session, client, state>>
    PROVE  WorkInv' /\ UNCHANGED Seen
  BY DEF RInv, WorkInv, Seen, Phases, Phase, EmptyRequest, Orphan, PendingRequests

LEMMA NextRefines == ASSUME RInv, [Next]_vars PROVE RInv' /\ [Service!Next]_Seen
<1>0. /\ TypeOK /\ IInv /\ WorkInv /\ IInv' /\ TypeOK'
      /\ session \in [Sessions -> SessionType]
      /\ Phases = PhasesOf(session, client)
      /\ Phases' = PhasesOf(session', client')
  BY NextInv, PhasesAre, PhasesAreNext DEF RInv, IInv, TypeOK, SessionType
<1>1. \A c \in Sessions : Phases[c] = PhaseOf(session[c], client[c])
  BY <1>0 DEF PhasesOf
<1> SUFFICES WorkInv' /\ (Service!Next \/ UNCHANGED Seen)
  BY <1>0 DEF RInv
<1>2. ASSUME NEW c \in Remote, Open(c) PROVE WorkInv' /\ Service!Open(c)
  <2>1. c \in Sessions
    BY DEF Sessions
  <2>2. /\ client[c].pc = "closed" /\ client'[c].pc = "idle"
        /\ \A d \in Sessions \ {c} : client'[d] = client[d] /\ session'[d] = session[d]
        /\ session' = [session EXCEPT ![c] = NewSession]
        /\ state' = state
    BY <1>0, <1>2, <2>1 DEF Open, TypeOK, driverVars
  <2>3. PhaseOf(session[c], client[c]) = "closed" /\ PhaseOf(session'[c], client'[c]) = "idle"
    BY <2>2 DEF PhaseOf
  <2>4. Phases' = [Phases EXCEPT ![c] = "idle"]
    BY <1>0, <2>2, <2>3 DEF PhasesOf
  <2>5. session[c].exec_id = None
    BY <1>0, <2>1, <2>2 DEF IInv, Inv, ExecutingInv
  <2>6. session'[c].exec_id = None /\ session'[c].request_len = 0
    BY <1>0, <2>1, <2>2 DEF NewSession
  <2>7. Orphan' = Orphan
    BY <2>2, <2>5, <2>6 DEF Orphan
  <2>8. WorkInv'
    BY <1>0, <2>2, <2>6 DEF WorkInv, PendingRequests
  <2>9. Phases[c] = "closed"
    BY <1>1, <2>1, <2>3
  <2> QED
    BY <2>4, <2>7, <2>8, <2>9 DEF Service!Open
<1>3. ASSUME NEW c \in Remote, Close(c) PROVE WorkInv' /\ Service!Close(c)
  <2>1. c \in Sessions
    BY DEF Sessions
  <2>2. /\ client[c].pc # "closed" /\ client'[c].pc = "closed"
        /\ \A d \in Sessions \ {c} : client'[d] = client[d] /\ session'[d] = session[d]
        /\ session' = [session EXCEPT ![c] = NewSession]
        /\ state' = state
    BY <1>0, <1>3, <2>1 DEF Close, TypeOK, driverVars
  <2>3. PhaseOf(session[c], client[c]) # "closed" /\ PhaseOf(session'[c], client'[c]) = "closed"
    BY <1>0, <2>1, <2>2 DEF PhaseOf
  <2>4. Phases' = [Phases EXCEPT ![c] = "closed"]
    BY <1>0, <2>2, <2>3 DEF PhasesOf
  <2>5. Phases[c] = "executing" <=> session[c].exec_id # None
    BY <1>0, <2>1, ExecutingIs DEF Service!In, Service!Sessions, Sessions
  <2>6. session'[c].exec_id = None /\ session'[c].request_len = 0
    BY <1>0, <2>1, <2>2 DEF NewSession
  <2>7. Orphan' = (Orphan \/ Phases[c] = "executing")
    <3>1. CASE session[c].exec_id = None
      BY <2>1, <2>2, <2>5, <2>6, <3>1 DEF Orphan
    <3>2. CASE session[c].exec_id # None
      <4>1. \A d \in Sessions \ {c} : session[d].exec_id = None
        BY <1>0, <2>1, <3>2 DEF IInv, Inv, OneExecutingInv
      <4>2. state = "BUSY"
        BY <1>0, <2>1, <3>2 DEF IInv, Inv, ExecutingInv
      <4> QED
        BY <2>2, <2>5, <2>6, <3>2, <4>1, <4>2 DEF Orphan
    <3> QED
      BY <3>1, <3>2
  <2>8. WorkInv'
    BY <1>0, <2>2, <2>6 DEF WorkInv, PendingRequests
  <2>9. Phases[c] # "closed"
    BY <1>1, <2>1, <2>3
  <2> QED
    BY <2>4, <2>7, <2>8, <2>9 DEF Service!Close
<1>4. ASSUME NEW c \in Sessions, NEW p \in Programs, NEW len \in RequestLens, Request(c, p, len)
      PROVE  WorkInv' /\ (Service!Ask(c) \/ UNCHANGED Seen)
  <2>1. CASE len > MAX_REQUEST_LEN
    BY <1>4, <2>1, Stutters DEF Request, driverVars
  <2>2. CASE ~(len > MAX_REQUEST_LEN)
    <3> DEFINE s == [session EXCEPT ![c].request_len = len, ![c].result = NoResult]
               prog == [Marshalled EXCEPT ![c] = p]
    <3>1. s \in [Sessions -> SessionType]
      BY <1>0, LensAssumption DEF SessionType, NoResult, Results
    <3>2. /\ Schedule(s, prog, state)
          /\ client' = [client EXCEPT ![c] = [pc |-> "wait", program |-> p]]
          /\ client[c].pc = "idle"
      BY <1>4, <2>2 DEF Request
    <3>3. client'[c].pc = "wait" /\ \A d \in Sessions \ {c} : client'[d] = client[d]
      BY <1>0, <3>2 DEF TypeOK
    <3>4. s[c] = [session[c] EXCEPT !.request_len = len, !.result = NoResult]
      BY <1>0
    <3>5. \A d \in Sessions \ {c} : s[d] = session[d]
      BY <1>0
    <3>6. s[c].request_len = len /\ s[c].result = NoResult /\ s[c].exec_id = session[c].exec_id
      BY <1>0, <3>4 DEF SessionType
    <3>7. session[c].exec_id = None /\ session[c].request_len = 0
      <4>1. ~(session[c].request_len > 0)
        BY <1>0, <3>2 DEF IInv, Inv, PendingInv
      <4>2. session[c].request_len \in Nat
        BY <1>0 DEF SessionType
      <4> QED
        BY <1>0, <3>2, <4>1, <4>2 DEF IInv, Inv, ExecutingInv
    <3>8. len \in Nat /\ state \in {"IDLE", "BUSY"}
      BY <1>0, LensAssumption DEF TypeOK
    <3> HIDE DEF s, prog
    <3>9. PendingInv(s, client')
      BY <1>0, <2>2, <3>3, <3>5, <3>6, <3>7, <3>8 DEF IInv, Inv, PendingInv, MAX_REQUEST_LEN
    <3>10. state = "IDLE" => \A d \in Sessions : s[d].exec_id = None
      BY <1>0, <3>5, <3>6, <3>7 DEF IInv, Inv, ExecutingInv
    <3>11. /\ Service!StartNext(PhasesOf(s, client'), state = "IDLE")
           /\ Orphan' = (state = "BUSY" /\ \A d \in Sessions : s[d].exec_id = None)
           /\ WorkInv'
      BY <1>0, <3>1, <3>2, <3>8, <3>9, <3>10, ScheduleRefines
    <3>12. Orphan' = Orphan
      BY <3>5, <3>6, <3>7, <3>11 DEF Orphan
    <3>13. Phases[c] = "idle"
      BY <1>1, <3>2 DEF PhaseOf
    <3>14. CASE len > 0
      <4>1. PhaseOf(s[c], client'[c]) = "pending"
        BY <3>3, <3>6, <3>7, <3>14 DEF PhaseOf
      <4>2. PhasesOf(s, client') = [Phases EXCEPT ![c] = "pending"]
        BY <1>0, <3>3, <3>5, <4>1 DEF PhasesOf
      <4>3. (state = "IDLE") = (Service!In(Phases, "executing") = {} /\ ~Orphan)
        BY <1>0, ExecutingIs
      <4>4. Service!StartNext([Phases EXCEPT ![c] = "pending"],
                              Service!In(Phases, "executing") = {} /\ ~Orphan)
        BY <3>11, <4>2, <4>3
      <4>5. Service!Ask(c)
        BY <3>12, <3>13, <4>4 DEF Service!Ask
      <4> QED
        BY <3>11, <4>5
    <3>15. CASE ~(len > 0)
      <4>1. PhaseOf(s[c], client'[c]) = "idle"
        BY <3>3, <3>6, <3>7, <3>15 DEF PhaseOf
      <4>2. PhasesOf(s, client') = Phases
        BY <1>0, <1>1, <3>3, <3>5, <3>13, <4>1 DEF PhasesOf
      <4>3. \A d \in Sessions : s[d].request_len > 0 => session[d].request_len > 0
        BY <3>5, <3>6, <3>15
      <4>4. state = "IDLE" => PendingRequests(s) = {}
        BY <1>0, <4>3 DEF WorkInv, PendingRequests
      <4>5. session' = s
        BY <3>2, <4>4 DEF Schedule
      <4> QED
        BY <1>0, <3>11, <3>12, <4>2, <4>5 DEF Seen
    <3> QED
      BY <3>14, <3>15
  <2> QED
    BY <2>1, <2>2
<1>5. ASSUME NEW c \in Sessions, Respond(c) PROVE WorkInv' /\ (Service!Return(c) \/ UNCHANGED Seen)
  <2>1. session' = session /\ state' = state
    BY <1>5 DEF Respond, driverVars
  <2>2. CASE session[c].result.kind = "UNKNOWN"
    BY <1>5, <2>1, <2>2, Stutters DEF Respond
  <2>3. CASE session[c].result.kind # "UNKNOWN"
    <3>1. /\ client[c].pc = "wait" /\ client'[c].pc = "idle"
          /\ \A d \in Sessions \ {c} : client'[d] = client[d]
      BY <1>0, <1>5, <2>3 DEF Respond, TypeOK
    <3>2. session[c].result # NoResult
      BY <2>3 DEF NoResult
    <3>3. PhaseOf(session[c], client[c]) = "answered" /\ PhaseOf(session'[c], client'[c]) = "idle"
      BY <3>1, <3>2 DEF PhaseOf
    <3>4. Phases[c] = "answered" /\ Phases' = [Phases EXCEPT ![c] = "idle"]
      BY <1>0, <1>1, <2>1, <3>1, <3>3 DEF PhasesOf
    <3>5. Orphan' = Orphan /\ WorkInv'
      BY <1>0, <2>1 DEF Orphan, WorkInv, PendingRequests
    <3> QED
      BY <3>4, <3>5 DEF Service!Return
  <2> QED
    BY <2>2, <2>3
<1>6. CASE HandleIrq
  <2>1. CASE mq1 = <<>>
    <3>1. Schedule(session, Marshalled, state) /\ client' = client
      BY <1>6, <2>1 DEF HandleIrq
    <3>2. session' = session /\ state' = state
      BY <1>0, <3>1 DEF Schedule, WorkInv
    <3> QED
      BY <3>1, <3>2, Stutters
  <2>2. CASE mq1 # <<>>
    <3>1. state = "BUSY" /\ Head(mq1) = last_submit
      BY <1>0, <2>2 DEF IInv, Inv, PipelineInv, TypeOK, Submitted, Evaluating, Evaluated, Confirmed, Quiet
    <3> DEFINE s == Delivered(last_submit)
               E == Service!In(Phases, "executing")
    <3>2. Schedule(s, Marshalled, "IDLE") /\ client' = client
      BY <1>6, <2>2, <3>1 DEF HandleIrq
    <3>3. last_submit \in SeqNumbers /\ last_submit # None
      BY <1>0, NoneAssumption DEF TypeOK
    <3>4. s \in [Sessions -> SessionType]
      BY <1>0, <3>3, DeliveredType
    <3>5. \A c \in Sessions : c \in E <=> session[c].exec_id = last_submit
      BY <1>0, <3>3, ExecutingIs DEF IInv, Inv, ExecutingInv
    <3>6. \A c \in Sessions : IF c \in E
                              THEN s[c] = [session[c] EXCEPT !.result = Retrieve, !.exec_id = None]
                              ELSE s[c] = session[c]
      BY <3>5 DEF Delivered, Matching
    <3>7. E # {} \/ Orphan
      BY <1>0, <3>1, ExecutingIs
    <3> HIDE DEF s, E
    <3>8. ASSUME NEW c \in Sessions
          PROVE  /\ s[c].exec_id = None
                 /\ s[c].request_len > 0 => s[c] = session[c]
                 /\ PhaseOf(s[c], client'[c]) = IF c \in E THEN "answered" ELSE Phases[c]
      <4>1. CASE c \in E
        <5>1. s[c].result = Retrieve /\ s[c].exec_id = None /\ s[c].request_len = session[c].request_len
          BY <1>0, <3>6, <4>1 DEF SessionType
        <5>2. client[c].pc = "wait" /\ session[c].request_len = 0
          BY <1>0, <3>3, <3>5, <4>1 DEF IInv, Inv, ExecutingInv
        <5>3. Retrieve # NoResult
          BY DEF Retrieve, NoResult
        <5> QED
          BY <3>2, <4>1, <5>1, <5>2, <5>3 DEF PhaseOf
      <4>2. CASE c \notin E
        <5>1. session[c].exec_id = None
          BY <1>0, <3>5, <4>2 DEF IInv, Inv, ExecutingInv
        <5> QED
          BY <1>1, <3>2, <3>6, <4>2, <5>1
      <4> QED
        BY <4>1, <4>2
    <3>9. PendingInv(s, client')
      BY <1>0, <3>2, <3>8 DEF IInv, Inv, PendingInv
    <3>10. /\ Service!StartNext(PhasesOf(s, client'), "IDLE" = "IDLE")
           /\ Orphan' = ("IDLE" = "BUSY" /\ \A c \in Sessions : s[c].exec_id = None)
           /\ WorkInv'
      BY <1>0, <3>2, <3>4, <3>8, <3>9, ScheduleRefines
    <3>11. PhasesOf(s, client') = [c \in Sessions |-> IF c \in E THEN "answered" ELSE Phases[c]]
      BY <3>8 DEF PhasesOf
    <3>12. Service!StartNext([c \in Sessions |-> IF c \in E THEN "answered" ELSE Phases[c]], TRUE)
      BY <3>10, <3>11
    <3>13. Service!Finish(E)
      BY <3>7, <3>10, <3>12 DEF E, Service!Finish, Service!Sessions, Sessions
    <3> QED
      BY <3>10, <3>13 DEF E, Service!Next
  <2> QED
    BY <2>1, <2>2
<1>7. CASE \/ ScpFetch \/ ScpAck \/ UNCHANGED vars
           \/ \E len \in ResponseLens : ScpEvaluate(len)
  BY <1>7, Stutters DEF ScpFetch, ScpAck, ScpEvaluate, vars, driverVars
<1>8. (\E c \in Sessions : Service!Ask(c) \/ Service!Return(c)) => Service!Next
  BY DEF Service!Next, Service!Sessions, Sessions
<1>9. (\E c \in Remote : Service!Open(c) \/ Service!Close(c)) => Service!Next
  BY DEF Service!Next
<1> QED
  BY <1>2, <1>3, <1>4, <1>5, <1>6, <1>7, <1>8, <1>9 DEF Next, Sessions, LocalLens

\* The driver, its sessions, the mailbox and the firmware implement the
\* abstract service: each accepted request is executed once, one at a time,
\* never delayed while the processor is free, and answered to its own client.
THEOREM ServiceImplemented == Spec => ImplementsService
<1>1. RInv /\ [Next]_vars => RInv' /\ [Service!Next]_<<Phases, Orphan>>
  <2> SUFFICES ASSUME RInv, [Next]_vars PROVE RInv' /\ [Service!Next]_<<Phases, Orphan>>
    OBVIOUS
  <2>1. RInv' /\ [Service!Next]_Seen
    BY NextRefines
  <2> QED
    BY <2>1 DEF Seen
<1> QED
  BY InitRefines, <1>1, PTL DEF Spec, ImplementsService, Service!Spec, Service!vars

================================================================================
