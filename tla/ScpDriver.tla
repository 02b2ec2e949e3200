------------------------------- MODULE ScpDriver -------------------------------
(***************************************************************************)
(* The path of a Forth program from a client of the platform driver's      *)
(* "Scp" service to the system-control processor and back.                 *)
(*                                                                         *)
(*   client      Scp::Connection / Scp::Local_connection, blocking in      *)
(*               Scp::Session::_execute                                    *)
(*   session     Scp::Session_component, one per client                    *)
(*   driver      Scp::Driver: schedule, _submit_to_scp, _handle_irq        *)
(*   mailbox     the two hardware queues and the two SRAM buffers          *)
(*   firmware    the word do_mib of the SCP's main loop (app.f)            *)
(*                                                                         *)
(* The entrypoint of the driver executes one handler at a time, hence a    *)
(* handler is one action.  The SCP and the clients run concurrently.       *)
(* While the driver itself waits for a program of its local connection,    *)
(* its entrypoint dispatches I/O signals (interrupts) but no RPC.          *)
(***************************************************************************)
EXTENDS Integers, Sequences

CONSTANTS
    Remote,          \* clients that reach the driver by RPC
    Local,           \* the driver's own client, Local_connection
    Programs,        \* identities of submitted programs (observers only)
    RequestLens,     \* lengths returned by the clients' request functor
    ResponseLens,    \* numbers of characters a program prints
    SeqModulus,      \* 'unsigned' sequence numbers count modulo this value
    None             \* absent program, Not_executed

Sessions == Remote \union {Local}

MAX_REQUEST_LEN  == 1000
MAX_RESPONSE_LEN == 1000
CAPACITY         == 1020    \* characters behind the count word of a buffer
MOB_LIMIT        == 4096    \* '1000' read by the firmware while 'hex' is set

SeqNumbers == 0 .. SeqModulus - 1

ASSUME ClientsAssumption == Local \notin Remote
ASSUME SeqAssumption     == SeqModulus \in Nat \ {0}
ASSUME LensAssumption    == RequestLens \subseteq Nat /\ ResponseLens \subseteq Nat
ASSUME NoneAssumption    == None \notin SeqNumbers /\ None \notin Programs

VARIABLES
    client,       \* [pc, program] of each client; the program is in the
                  \* dataspace the client shares with its session
    signal,       \* response signal submitted, not yet seen by the client
    session,      \* [request_len, result, exec_id] of each session
    state,        \* Scp::Driver::_state
    last_submit,  \* Scp::Driver::_last_submit
    mib, mob,     \* mbox input and output buffer in SRAM A2
    mq0, mq1,     \* mailbox queues ARM -> SCP and SCP -> ARM
    irq,          \* Irq_status::Receive_mq1
    scp           \* [pc, seq] of the firmware

driverVars == <<state, last_submit>>
mboxVars   == <<mib, mob, mq0, mq1, irq>>
vars == <<client, signal, session, driverVars, mboxVars, scp>>

--------------------------------------------------------------------------------
(* Initial state: the mailbox was just reset, only the local session exists. *)

NoResult   == [kind |-> "UNKNOWN", program |-> None]
NewSession == [request_len |-> 0, result |-> NoResult, exec_id |-> None]

Init ==
    /\ client  = [c \in Sessions |-> [pc |-> IF c = Local THEN "idle" ELSE "closed",
                                      program |-> None]]
    /\ signal  = [c \in Sessions |-> FALSE]
    /\ session = [c \in Sessions |-> NewSession]
    /\ state = "IDLE"
    /\ last_submit = 0
    /\ mib = [program |-> None, count |-> 0]
    /\ mob = [program |-> None, count |-> 0]
    /\ mq0 = <<>> /\ mq1 = <<>> /\ irq = FALSE
    /\ scp = [pc |-> "mainloop", seq |-> 0]

--------------------------------------------------------------------------------
(* Driver *)

\* RPCs wait while the entrypoint blocks in Local_connection::execute
RpcServed == client[Local].pc # "wait"

\* Mutant: the check for an empty _request_len is missing
PendingRequests(s) == {c \in Sessions : s[c].request_len > 0}

\* _submit_to_scp on behalf of with_pending_request of session c.  Its two
\* errors cannot occur here: schedule checks for IDLE, and an accepted
\* request has at most MAX_REQUEST_LEN < CAPACITY characters.
Submit(c, s, p) ==
    LET n == (last_submit + 1) % SeqModulus IN
    /\ mib' = [program |-> p, count |-> s[c].request_len % 1024]
    /\ last_submit' = n
    /\ mq0' = Append(mq0, n)
    /\ state' = "BUSY"
    /\ session' = [s EXCEPT ![c].exec_id = n, ![c].request_len = 0]

\* Mutant: neither schedule nor _submit_to_scp checks for State::IDLE
ScheduleWhileBusy(s, prog, st) ==
    IF PendingRequests(s) # {}
    THEN \E c \in PendingRequests(s) : Submit(c, s, prog[c])
    ELSE /\ session' = s
         /\ state' = st
         /\ UNCHANGED <<mib, last_submit, mq0>>

\* Driver::schedule, called with the sessions s, the programs prog in their
\* dataspaces and the driver state st.  The order of the session registry is
\* not fixed by this code: any pending request may come first, which makes
\* the driver busy for the others.
Schedule(s, prog, st) ==
    IF st = "IDLE" /\ PendingRequests(s) # {}
    THEN \E c \in PendingRequests(s) : Submit(c, s, prog[c])
    ELSE /\ session' = s
         /\ state' = st
         /\ UNCHANGED <<mib, last_submit, mq0>>

\* _retrieve_from_scp: the verdict on the content of the mob
Retrieve ==
    [kind |-> IF mob.count >= 1000 \/ mob.count > MAX_RESPONSE_LEN
              THEN "TOO_LARGE" ELSE "RESPONSE",
     program |-> mob.program]

\* The programs in the dataspaces of the sessions
Marshalled == [c \in Sessions |-> client[c].program]

\* Mutant: a response is delivered to every session
MatchingAny(n) == {c \in Sessions : client[c].pc # "closed"}
Matching(n) == {c \in Sessions : session[c].exec_id = n}

\* Mutant: the execution ID stays set after delivery
DeliveredKeepingId(n) ==
    [c \in Sessions |->
        IF c \in Matching(n) THEN [session[c] EXCEPT !.result = Retrieve] ELSE session[c]]

\* Session_component::deliver_response of all sessions matching number n
Delivered(n) ==
    [c \in Sessions |->
        IF c \in Matching(n)
        THEN [session[c] EXCEPT !.result = Retrieve, !.exec_id = None]
        ELSE session[c]]

\* Mutant: only sessions with a signal handler are notified
SignalledBySigh(n) == [c \in Sessions |-> signal[c] \/ (c \in Matching(n) /\ c # Local)]

\* deliver_response submits the response signal of a remote client and
\* increments the _response_count watched by the local one
Signalled(n) == [c \in Sessions |-> signal[c] \/ c \in Matching(n)]

\* Mutant: the driver stays busy after a response
HandleIrq_StaysBusy ==
    /\ irq
    /\ IF mq1 # <<>>
       THEN /\ mq1' = Tail(mq1)
            /\ signal' = Signalled(Head(mq1))
            /\ Schedule(Delivered(Head(mq1)), Marshalled, "BUSY")
            /\ UNCHANGED irq
       ELSE /\ irq' = FALSE
            /\ Schedule(session, Marshalled, state)
            /\ UNCHANGED <<mq1, signal>>
    /\ UNCHANGED <<client, mob, scp>>

\* Driver::_handle_irq.  The status bit cannot be cleared while the queue
\* holds a message, and it stays set when the last message is read.  Hence
\* each response is followed by an interrupt that finds the queue empty.
HandleIrq ==
    /\ irq
    /\ IF mq1 # <<>>
       THEN /\ mq1' = Tail(mq1)
            /\ signal' = Signalled(Head(mq1))
            /\ Schedule(Delivered(Head(mq1)), Marshalled, "IDLE")
            /\ UNCHANGED irq
       ELSE /\ irq' = FALSE
            /\ Schedule(session, Marshalled, state)
            /\ UNCHANGED <<mq1, signal>>
    /\ UNCHANGED <<client, mob, scp>>

--------------------------------------------------------------------------------
(* Clients *)

\* Root::_create_session followed by the Connection constructor
Open(c) ==
    /\ RpcServed
    /\ client[c].pc = "closed"
    /\ client' = [client EXCEPT ![c].pc = "idle"]
    /\ session' = [session EXCEPT ![c] = NewSession]
    /\ UNCHANGED <<signal, driverVars, mboxVars, scp>>

\* Root::_destroy_session, also when the client vanishes while it waits
Close(c) ==
    /\ RpcServed
    /\ client[c].pc # "closed"
    /\ client' = [client EXCEPT ![c] = [pc |-> "closed", program |-> None]]
    /\ signal' = [signal EXCEPT ![c] = FALSE]
    /\ session' = [session EXCEPT ![c] = NewSession]
    /\ UNCHANGED <<driverVars, mboxVars, scp>>

\* _execute up to the blocking point: marshal the program, then call
\* Session_component::_request, which refuses it or schedules it
Request(c, p, len) ==
    /\ RpcServed
    /\ client[c].pc = "idle"
    /\ IF len > MAX_REQUEST_LEN
       THEN UNCHANGED <<client, session, driverVars, mib, mq0>>
       ELSE /\ client' = [client EXCEPT ![c] = [pc |-> "wait", program |-> p]]
            /\ Schedule([session EXCEPT ![c].request_len = len, ![c].result = NoResult],
                        [Marshalled EXCEPT ![c] = p], state)
    /\ UNCHANGED <<signal, mob, mq1, irq, scp>>

\* _execute from the response signal on: consume the signal, obtain the
\* result; a result that is still UNKNOWN means a spurious signal
Respond(c) ==
    /\ c # Local => RpcServed
    /\ client[c].pc = "wait"
    /\ signal[c]
    /\ signal' = [signal EXCEPT ![c] = FALSE]
    /\ client' = IF session[c].result.kind = "UNKNOWN"
                 THEN client
                 ELSE [client EXCEPT ![c] = [pc |-> "idle", program |-> None]]
    /\ UNCHANGED <<session, driverVars, mboxVars, scp>>

--------------------------------------------------------------------------------
(* Firmware: do_mib == pending IF req output_mob eval_mib ack THEN *)

\* pending, req, output_mob
ScpFetch ==
    /\ scp.pc = "mainloop"
    /\ mq0 # <<>>
    /\ scp' = [pc |-> "evaluate", seq |-> Head(mq0)]
    /\ mq0' = Tail(mq0)
    /\ mob' = [mob EXCEPT !.count = 0]
    /\ UNCHANGED <<client, signal, session, driverVars, mib, mq1, irq>>

\* eval_mib: the program prints len characters through emit_mob, whose limit
\* exceeds the buffer.  The mib follows the mob in memory and is overwritten.
ScpEvaluate(len) ==
    LET count == IF len < MOB_LIMIT THEN len ELSE MOB_LIMIT IN
    /\ scp.pc = "evaluate"
    /\ mob' = [program |-> mib.program, count |-> count]
    /\ mib' = IF count > CAPACITY THEN [program |-> None, count |-> 0] ELSE mib
    /\ scp' = [scp EXCEPT !.pc = "ack"]
    /\ UNCHANGED <<client, signal, session, driverVars, mq0, mq1, irq>>

ScpAck ==
    /\ scp.pc = "ack"
    /\ mq1' = Append(mq1, scp.seq)
    /\ irq' = TRUE
    /\ scp' = [scp EXCEPT !.pc = "mainloop"]
    /\ UNCHANGED <<client, signal, session, driverVars, mib, mob, mq0>>

--------------------------------------------------------------------------------
\* The commands of the local connection are constants (pmic.h), none of them
\* empty or too long
LocalLens == {len \in RequestLens : len \in 1 .. MAX_REQUEST_LEN}

Next ==
    \/ \E c \in Remote : Open(c) \/ Close(c)
    \/ \E c \in Remote, p \in Programs, len \in RequestLens : Request(c, p, len)
    \/ \E p \in Programs, len \in LocalLens : Request(Local, p, len)
    \/ \E c \in Sessions : Respond(c)
    \/ HandleIrq
    \/ ScpFetch
    \/ \E len \in ResponseLens : ScpEvaluate(len)
    \/ ScpAck

Spec == Init /\ [][Next]_vars

\* The firmware's main loop runs forever and programs terminate.  A level
\* interrupt and a signal stay pending until handled, and a client that waits
\* is scheduled.  The entrypoint of the driver serves RPCs in arrival order:
\* a call that finds it blocked again and again is served between the blocks.
Fairness ==
    /\ WF_vars(HandleIrq)
    /\ WF_vars(ScpFetch)
    /\ WF_vars(\E len \in ResponseLens : ScpEvaluate(len))
    /\ WF_vars(ScpAck)
    /\ \A c \in Sessions : SF_vars(Respond(c))

FairSpec == Spec /\ Fairness

--------------------------------------------------------------------------------
(* Properties *)

Results == [kind : {"UNKNOWN", "TOO_LARGE", "RESPONSE"}, program : Programs \union {None}]

\* The values each part of the state may take.
TypeOK ==
    /\ client \in [Sessions -> [pc : {"closed", "idle", "wait"},
                                program : Programs \union {None}]]
    /\ signal \in [Sessions -> BOOLEAN]
    /\ session \in [Sessions -> [request_len : Nat, result : Results,
                                 exec_id : SeqNumbers \union {None}]]
    /\ state \in {"IDLE", "BUSY"}
    /\ last_submit \in SeqNumbers
    /\ mib \in [program : Programs \union {None}, count : Nat]
    /\ mob \in [program : Programs \union {None}, count : Nat]
    /\ mq0 \in Seq(SeqNumbers) /\ mq1 \in Seq(SeqNumbers)
    /\ irq \in BOOLEAN
    /\ scp \in [pc : {"mainloop", "evaluate", "ack"}, seq : SeqNumbers]

\* A client that waits and whose session holds a verdict holds the verdict on
\* the program it submitted last, never one on a program of another client or
\* of an earlier session (Driver::_with_session, Session_component::matches).
AnswerMatchesRequest ==
    \A c \in Sessions :
        client[c].pc = "wait" /\ session[c].result.kind # "UNKNOWN"
            => session[c].result.program = client[c].program

\* From its submission until the SCP confirms it, no step other than one of
\* the SCP itself changes the program in the mbox input buffer
\* (Driver::_state guards _submit_to_scp).
SubmittedProgramStable ==
    [][(mq0 # <<>> \/ scp.pc # "mainloop") /\ scp' = scp => mib' = mib]_vars

\* The driver takes the mbox output buffer only while the SCP is between two
\* programs and has nothing to fetch (Driver::_retrieve_from_scp).
RetrievedWhenComplete ==
    [][\A c \in Sessions :
        session[c].exec_id # None /\ session'[c].result # session[c].result
            => scp.pc = "mainloop" /\ mq0 = <<>>]_vars

\* No lost wakeup: a client that waits for a verdict already present in its
\* session has a response signal pending (Session_component::deliver_response).
NoLostWakeup ==
    \A c \in Sessions :
        client[c].pc = "wait" /\ session[c].result.kind # "UNKNOWN" => signal[c]

\* A program shorter than the buffer is evaluated in full: the count found by
\* the SCP is the length of the program it belongs to, never an empty one
\* (the mask in Driver::_submit_to_scp).
NeverEvaluatesNothing == mq0 # <<>> => mib.count > 0

\* A request of length 0 is accepted, but never scheduled: its client waits
\* for ever (scp.h:182).
EmptyRequest(c) ==
    /\ client[c].pc = "wait" /\ session[c].request_len = 0
    /\ session[c].result.kind = "UNKNOWN" /\ session[c].exec_id = None

\* The phase of a client as seen by the abstract service, which an empty
\* request does not reach
Phase(c) ==
    CASE client[c].pc # "wait" -> client[c].pc
      [] EmptyRequest(c) -> "idle"
      [] client[c].pc = "wait" /\ session[c].result.kind # "UNKNOWN" -> "answered"
      [] client[c].pc = "wait" /\ session[c].result.kind = "UNKNOWN" /\ session[c].exec_id # None -> "executing"
      [] OTHER -> "pending"

\* Once no client opens or closes its session any more, every call of execute
\* returns (connection.h: the response functor or, "whenever the SCP call
\* failed", the error functor is called).  A client that closes its session
\* while its program executes and requests again through a new one may be
\* preferred by Driver::schedule for ever.  Empty programs are excepted,
\* also those of others: the local client would wait in the entrypoint.
ExecuteReturns ==
    <>[](\A c \in Remote : client[c].pc # "closed") /\ [](\A c \in Sessions : ~EmptyRequest(c)) =>
        \A c \in Sessions : client[c].pc = "wait" ~> client[c].pc # "wait"

Phases == [c \in Sessions |-> Phase(c)]

\* The program that executes has been submitted by a session closed meanwhile
Orphan == state = "BUSY" /\ \A c \in Sessions : session[c].exec_id = None

Service == INSTANCE ScpService WITH phase <- Phases, orphan <- Orphan

\* The driver, its sessions, the mailbox and the firmware together implement
\* the abstract service: serial, work-conserving, each request executed once.
ImplementsService == Service!Spec

================================================================================
