---------------------------- MODULE GpuSessionProof ----------------------------
(***************************************************************************)
(* Proofs about GpuSession for any number of sessions, pipes and jobs.     *)
(*                                                                         *)
(* The argument: a pending SYNCOBJ_WAIT awaits the very last job of the    *)
(* pipe that the client asks for, because no job can be submitted while it *)
(* is pending; its result describes this job until a later request, a job  *)
(* in particular, displaces it.                                            *)
(***************************************************************************)
EXTENDS GpuSession, TLAPS

Waits == {"SYNCOBJ_WAIT", "WAIT"}

\* The pipe that the client of s awaits
Pipe(s) == client[s]["complete"].pipe

PendingInv ==
    \A s \in Sessions : pending[s] = "SYNCOBJ_WAIT" =>
        /\ client[s]["complete"].phase # "idle"
        /\ fence[s][s][Pipe(s)] = submitted[s][Pipe(s)]

ResultInv ==
    \A s \in Sessions : completed[s].type = "SYNCOBJ_WAIT" /\ interrupted[s]["complete"] =>
        /\ client[s]["complete"].phase # "idle"
        /\ finished[s][Pipe(s)] = submitted[s][Pipe(s)]

SuccessInv ==
    \A s \in Sessions : completed[s].type \in Waits => completed[s].success

JobsInv == \A s \in Sessions : \A p \in Pipes : finished[s][p] <= submitted[s][p]

InterruptedInv ==
    \A s \in Sessions : \A a \in Activities :
        interrupted[s][a] => client[s][a].phase # "idle"

IInv == TypeOK /\ PendingInv /\ ResultInv /\ SuccessInv /\ JobsInv /\ InterruptedInv
        /\ NoLostWakeup

--------------------------------------------------------------------------------
(* Types *)

Results  == [type : {NoRequest, "SYNCOBJ_CREATE", "EXEC", "SYNCOBJ_WAIT", "WAIT"},
             success : BOOLEAN]
Activity == [phase : {"idle", "calling", "blocked"}, pipe : Pipes, asked : JobNumbers]

\* Nobody awaits anything initially.
LEMMA IdleType == NoJobs \in JobNumbers /\ Idle \in Activity
<1>1. NoJobs \in JobNumbers
  BY DEF NoJobs, JobNumbers
<1>2. (CHOOSE p \in Pipes : TRUE) \in Pipes
  BY GpuSessionAssumption
<1> QED
  BY <1>1, <1>2 DEF Idle, Activity

\* What a wait awaits are job numbers.
LEMMA FenceType == ASSUME TypeOK, NEW s \in Sessions, NEW a \in Activities, NEW p \in Pipes
                   PROVE  FenceOf(s, a, p) \in JobNumbers
<1>1. submitted[s][p] \in Nat
  BY DEF TypeOK, JobNumbers
<1>2. [NoJobs EXCEPT ![s][p] = submitted[s][p]] \in JobNumbers
  BY <1>1, IdleType DEF JobNumbers
<1> QED
  BY <1>2 DEF FenceOf, TypeOK

\* The hand-over of requests preserves the types, and the reset.
LEMMA FinishedType ==
    ASSUME TypeOK, NEW s \in Sessions, NEW type \in {"EXEC", "SYNCOBJ_WAIT", "WAIT"},
           NEW success \in BOOLEAN, Finished(s, type, success)
    PROVE  /\ pending' \in [Sessions -> {NoRequest, "SYNCOBJ_WAIT", "WAIT"}]
           /\ completed' \in [Sessions -> Results]
           /\ notified' \in [Sessions -> BOOLEAN]
           /\ \A t \in Sessions : pending'[t] # NoRequest => completed'[t] = NoResult
<1>1. [type |-> type, success |-> success] \in Results
  BY DEF Results
<1>2. (notified[s] \/ type \in {"SYNCOBJ_WAIT", "WAIT"}) \in BOOLEAN
  OBVIOUS
<1> QED
  BY <1>1, <1>2 DEF Finished, TypeOK, Results, Busy

\* So does handing over a request that blocks.
LEMMA DispatchedType ==
    ASSUME TypeOK, NEW s \in Sessions, NEW type \in {"SYNCOBJ_WAIT", "WAIT"},
           Dispatched(s, type)
    PROVE  /\ pending' \in [Sessions -> {NoRequest, "SYNCOBJ_WAIT", "WAIT"}]
           /\ completed' \in [Sessions -> Results]
           /\ notified' \in [Sessions -> BOOLEAN]
           /\ \A t \in Sessions : pending'[t] # NoRequest => completed'[t] = NoResult
<1>1. NoResult \in Results
  BY DEF NoResult, Results
<1> QED
  BY <1>1 DEF Dispatched, TypeOK, Results, Busy

\* What an activity is told.
LEMMA ToldType ==
    ASSUME TypeOK, NEW s \in Sessions, NEW a \in Activities, NEW done \in BOOLEAN,
           Told(s, a, done)
    PROVE  client' \in [Sessions -> [Activities -> Activity]]
<1>1. client[s][a] \in Activity
  BY DEF TypeOK, Activity
<1>2. (IF done THEN Idle ELSE [client[s][a] EXCEPT !.phase = "blocked"]) \in Activity
  BY <1>1, IdleType DEF Activity
<1> QED
  BY <1>2 DEF Told, TypeOK, Activity

\* RPC functions preserve the types.
LEMMA ExecuteType ==
    ASSUME TypeOK, NEW s \in Sessions, NEW p \in Pipes, Execute(s, p)
    PROVE  TypeOK'
<1>1. PICK success \in BOOLEAN :
        /\ Finished(s, "EXEC", success)
        /\ submitted' = IF success THEN [submitted EXCEPT ![s][p] = @ + 1] ELSE submitted
  BY DEF Execute
<1>2. [submitted EXCEPT ![s][p] = @ + 1] \in JobNumbers
  BY DEF TypeOK, JobNumbers
<1>3. submitted' \in JobNumbers
  BY <1>1, <1>2 DEF TypeOK
<1> QED
  BY <1>1, <1>3, FinishedType DEF Execute, TypeOK, Busy, Results

\* complete and set_tiling_gpu preserve the types.
LEMMA WaitType ==
    ASSUME TypeOK, NEW s \in Sessions, NEW a \in Activities, Wait(s, a)
    PROVE  TypeOK'
<1>1. CASE StillPending(s, a) /\ Told(s, a, FALSE)
           /\ UNCHANGED <<pending, completed, interrupted, fence, notified>>
  <2>1. client' \in [Sessions -> [Activities -> Activity]]
    BY <1>1, ToldType
  <2> QED
    BY <1>1, <2>1 DEF Wait, TypeOK, Busy, Activity
<1>2. CASE TakeResult(s, a)
  <2>1. completed[s].success \in BOOLEAN
    BY DEF TypeOK
  <2>2. client' \in [Sessions -> [Activities -> Activity]]
    BY <1>2, <2>1, ToldType DEF TakeResult
  <2>3. interrupted' \in [Sessions -> [Activities -> BOOLEAN]]
    BY <1>2 DEF TakeResult, TypeOK
  <2> QED
    BY <1>2, <2>2, <2>3 DEF Wait, TakeResult, TypeOK, Busy, Activity
<1>3. CASE Issue(s, a)
  <2> DEFINE f == FenceOf(s, a, client[s][a].pipe)
             done == ~Busy(s) /\ Signaled(f)
  <2>1. client[s][a].pipe \in Pipes /\ done \in BOOLEAN /\ Kind[a] \in {"SYNCOBJ_WAIT", "WAIT"}
    BY DEF TypeOK, Signaled, Busy, Kind, Activities
  <2>2. f \in JobNumbers
    BY <2>1, FenceType
  <2>3. /\ interrupted' = [interrupted EXCEPT ![s][a] = ~done]
        /\ Told(s, a, done)
        /\ IF Busy(s) THEN UNCHANGED <<pending, completed, fence, notified>>
           ELSE IF done THEN Finished(s, Kind[a], TRUE) /\ UNCHANGED fence
           ELSE Dispatched(s, Kind[a]) /\ fence' = [fence EXCEPT ![s] = f]
    BY <1>3 DEF Issue
  <2>4. client' \in [Sessions -> [Activities -> Activity]]
    BY <2>1, <2>3, ToldType
  <2>5. interrupted' \in [Sessions -> [Activities -> BOOLEAN]]
    BY <2>1, <2>3 DEF TypeOK
  <2>6. fence' \in [Sessions -> JobNumbers]
    BY <2>2, <2>3 DEF TypeOK
  <2>7. /\ pending' \in [Sessions -> {NoRequest, "SYNCOBJ_WAIT", "WAIT"}]
        /\ completed' \in [Sessions -> Results]
        /\ notified' \in [Sessions -> BOOLEAN]
        /\ \A t \in Sessions : pending'[t] # NoRequest => completed'[t] = NoResult
    <3>1. CASE Busy(s)
      BY <2>3, <3>1 DEF TypeOK, Results, Busy
    <3>2. CASE ~Busy(s) /\ done
      BY <2>1, <2>3, <3>2, FinishedType
    <3>3. CASE ~Busy(s) /\ ~done
      BY <2>1, <2>3, <3>3, DispatchedType
    <3> QED
      BY <3>1, <3>2, <3>3
  <2> QED
    BY <1>3, <2>4, <2>5, <2>6, <2>7 DEF Wait, TypeOK, Busy, Activity, Results
<1> QED
  BY <1>1, <1>2, <1>3 DEF Wait

\* So do the steps of the kernel, of the entrypoint, and of the environment.
LEMMA OthersType ==
    ASSUME TypeOK, NEW s \in Sessions,
           \/ Resume(s) \/ HandleNotifier(s) \/ Wake(s)
           \/ \E p \in Pipes : FinishJob(s, p)
           \/ \E a \in Activities : Begin(s, a)
    PROVE  TypeOK'
<1>1. CASE Resume(s)
  <2>1. pending[s] \in {"SYNCOBJ_WAIT", "WAIT"}
    BY <1>1 DEF Resume, Busy, TypeOK
  <2>2. fence' \in [Sessions -> JobNumbers]
    BY <1>1, IdleType DEF Resume, TypeOK
  <2> QED
    BY <1>1, <2>1, <2>2, FinishedType DEF Resume, TypeOK, Busy, Results
<1>2. CASE HandleNotifier(s)
  BY <1>2 DEF HandleNotifier, TypeOK, Busy
<1>3. CASE Wake(s)
  <2>1. \A t \in Sessions : \A a \in Activities : client[t][a] \in Activity
    BY DEF TypeOK, Activity
  <2>2. \A a \in Activities : (IF client[s][a].phase = "blocked"
                               THEN [client[s][a] EXCEPT !.phase = "calling"]
                               ELSE client[s][a]) \in Activity
    BY <2>1 DEF Activity
  <2>3. client' \in [Sessions -> [Activities -> Activity]]
    BY <1>3, <2>1, <2>2 DEF Wake, TypeOK, Activity
  <2> QED
    BY <1>3, <2>3 DEF Wake, TypeOK, Busy, Activity
<1>4. ASSUME NEW p \in Pipes, FinishJob(s, p)
      PROVE  TypeOK'
  BY <1>4 DEF FinishJob, TypeOK, Busy, JobNumbers
<1>5. ASSUME NEW a \in Activities, Begin(s, a)
      PROVE  TypeOK'
  <2>1. client[s][a] \in Activity /\ submitted \in JobNumbers
    BY DEF TypeOK, Activity
  <2>2. client' \in [Sessions -> [Activities -> Activity]]
    <3>1. ASSUME NEW p \in Pipes,
                 client' = [client EXCEPT ![s][a].phase = "calling", ![s][a].pipe = p]
          PROVE  client' \in [Sessions -> [Activities -> Activity]]
      BY <2>1, <3>1 DEF TypeOK, Activity
    <3>2. ASSUME client' = [client EXCEPT ![s][a].phase = "calling", ![s][a].asked = submitted]
          PROVE  client' \in [Sessions -> [Activities -> Activity]]
      BY <2>1, <3>2 DEF TypeOK, Activity
    <3> QED
      BY <1>5, <3>1, <3>2 DEF Begin
  <2> QED
    BY <1>5, <2>2 DEF Begin, TypeOK, Busy, Activity
<1> QED
  BY <1>1, <1>2, <1>3, <1>4, <1>5

\* Every step preserves the types.
LEMMA TypeStep == TypeOK /\ [Next]_vars => TypeOK'
<1> SUFFICES ASSUME TypeOK, [Next]_vars PROVE TypeOK'
  OBVIOUS
<1>1. CASE UNCHANGED vars
  BY <1>1 DEF vars, TypeOK, Busy
<1>2. CASE Next
  BY <1>2, ExecuteType, WaitType, OthersType DEF Next
<1> QED
  BY <1>1, <1>2

\* A new session has them.
LEMMA TypeInit == Init => TypeOK
  BY IdleType DEF Init, TypeOK, Busy, Activity, NoRequest

\* The requests, results and flags of all sessions keep their types, and the
\* result is reset while a request is pending.
THEOREM TypeCorrect == Spec => []TypeOK
  BY TypeInit, TypeStep, PTL DEF Spec

--------------------------------------------------------------------------------
(* Results that wait are up to date, and who sleeps is woken up *)

\* A job is accepted only while nothing is pending, and its own result displaces
\* the one of a wait.
LEMMA ExecuteInv ==
    ASSUME IInv, NEW s \in Sessions, NEW p \in Pipes, Execute(s, p)
    PROVE  IInv'
<1> USE DEF IInv
<1>1. PICK success \in BOOLEAN :
        /\ Finished(s, "EXEC", success)
        /\ submitted' = IF success THEN [submitted EXCEPT ![s][p] = @ + 1] ELSE submitted
  BY DEF Execute
<1>2. TypeOK'
  BY ExecuteType
<1>3. /\ \A t \in Sessions \ {s} : submitted'[t] = submitted[t]
      /\ \A t \in Sessions, q \in Pipes : submitted'[t][q] >= submitted[t][q]
  BY <1>1 DEF TypeOK, JobNumbers
<1>4. pending' = [pending EXCEPT ![s] = NoRequest]
      /\ completed' = [completed EXCEPT ![s] = [type |-> "EXEC", success |-> success]]
      /\ UNCHANGED <<interrupted, fence, signal, finished, client>>
  BY <1>1 DEF Finished, Execute
<1>5. PendingInv'
  BY <1>3, <1>4 DEF PendingInv, Pipe, NoRequest, TypeOK
<1>6. ResultInv'
  BY <1>3, <1>4 DEF ResultInv, Pipe, TypeOK
<1>7. SuccessInv'
  BY <1>4 DEF SuccessInv, Waits, TypeOK
<1>8. JobsInv'
  <2> SUFFICES ASSUME NEW t \in Sessions, NEW q \in Pipes
               PROVE  finished[t][q] <= submitted'[t][q]
    BY <1>4 DEF JobsInv
  <2>1. finished[t][q] \in Nat /\ submitted[t][q] \in Nat /\ submitted'[t][q] \in Nat
    BY <1>2 DEF TypeOK, JobNumbers
  <2> QED
    BY <2>1, <1>3 DEF JobsInv
<1>9. InterruptedInv'
  BY <1>4 DEF InterruptedInv
<1>10. NoLostWakeup'
  <2>1. \A t \in Sessions : notified[t] => notified'[t]
    BY <1>1 DEF Finished, TypeOK
  <2> QED
    BY <1>4, <2>1 DEF NoLostWakeup, Execute, Busy, TypeOK
<1> QED
  BY <1>2, <1>5, <1>6, <1>7, <1>8, <1>9, <1>10

\* The effect on the client of what it is told.
LEMMA ToldEffect ==
    ASSUME TypeOK, NEW s \in Sessions, NEW a \in Activities, NEW done \in BOOLEAN,
           Told(s, a, done)
    PROVE  /\ \A t \in Sessions : \A b \in Activities :
                 t # s \/ b # a => client'[t][b] = client[t][b]
           /\ done => client'[s][a].phase = "idle" /\ client'[s][a].asked = NoJobs
           /\ ~done => /\ client'[s][a].phase = "blocked"
                       /\ client'[s][a].pipe = client[s][a].pipe
                       /\ client'[s][a].asked = client[s][a].asked
<1>1. client[s][a] \in Activity
  BY DEF TypeOK, Activity
<1>2. client'[s][a] = IF done THEN Idle ELSE [client[s][a] EXCEPT !.phase = "blocked"]
  BY DEF Told, TypeOK
<1>3. \A t \in Sessions : \A b \in Activities :
        t # s \/ b # a => client'[t][b] = client[t][b]
  BY DEF Told, TypeOK
<1> QED
  BY <1>1, <1>2, <1>3 DEF Idle, Activity

\* The two ways to wait do not confuse their results.
LEMMA WaitInv ==
    ASSUME IInv, NEW s \in Sessions, NEW a \in Activities, Wait(s, a)
    PROVE  IInv'
<1> USE DEF IInv
<1>1. TypeOK'
  BY WaitType
<1>2. JobsInv'
  BY DEF JobsInv, Wait
<1>3. UNCHANGED <<signal, submitted, finished>> /\ client[s][a].phase = "calling"
  BY DEF Wait
<1>4. CASE StillPending(s, a) /\ Told(s, a, FALSE)
           /\ UNCHANGED <<pending, completed, interrupted, fence, notified>>
  <2>1. /\ \A t \in Sessions : \A b \in Activities :
              t # s \/ b # a => client'[t][b] = client[t][b]
        /\ client'[s][a].phase = "blocked" /\ client'[s][a].pipe = client[s][a].pipe
    BY <1>4, ToldEffect
  <2>2. Busy(s)'
    BY <1>4 DEF StillPending, Busy, Kind, Activities, NoRequest
  <2>3. PendingInv' /\ ResultInv' /\ SuccessInv'
    BY <1>3, <1>4, <2>1 DEF PendingInv, ResultInv, SuccessInv, Pipe, Activities
  <2>4. InterruptedInv'
    BY <1>4, <2>1 DEF InterruptedInv
  <2>5. NoLostWakeup'
    BY <1>3, <1>4, <2>1, <2>2 DEF NoLostWakeup, Busy
  <2> QED
    BY <1>1, <1>2, <2>3, <2>4, <2>5
<1>5. CASE TakeResult(s, a)
  <2>1. completed[s].success = TRUE
    BY <1>5 DEF TakeResult, HasResult, SuccessInv, Waits, Kind, Activities, TypeOK
  <2>2. /\ \A t \in Sessions : \A b \in Activities :
              t # s \/ b # a => client'[t][b] = client[t][b]
        /\ client'[s][a].phase = "idle"
    BY <1>5, <2>1, ToldEffect DEF TakeResult
  <2>3. /\ interrupted' = [interrupted EXCEPT ![s][a] = FALSE]
        /\ UNCHANGED <<pending, completed, fence, notified>>
        /\ pending[s] # Kind[a]
    BY <1>5 DEF TakeResult, HasResult
  <2>4. PendingInv'
    BY <1>3, <2>2, <2>3 DEF PendingInv, Pipe, Activities, Kind
  <2>5. ResultInv'
    BY <1>3, <2>2, <2>3 DEF ResultInv, Pipe, Activities, TypeOK
  <2>6. SuccessInv' /\ InterruptedInv'
    BY <2>2, <2>3 DEF SuccessInv, InterruptedInv, TypeOK
  <2>7. NoLostWakeup'
    BY <1>3, <2>2, <2>3 DEF NoLostWakeup, Busy
  <2> QED
    BY <1>1, <1>2, <2>4, <2>5, <2>6, <2>7
<1>6. CASE Issue(s, a)
  <2> DEFINE f == FenceOf(s, a, client[s][a].pipe)
             done == ~Busy(s) /\ Signaled(f)
  <2>1. done \in BOOLEAN
    BY DEF Signaled, Busy
  <2>2. /\ interrupted' = [interrupted EXCEPT ![s][a] = ~done]
        /\ Told(s, a, done)
        /\ IF Busy(s) THEN UNCHANGED <<pending, completed, fence, notified>>
           ELSE IF done THEN Finished(s, Kind[a], TRUE) /\ UNCHANGED fence
           ELSE Dispatched(s, Kind[a]) /\ fence' = [fence EXCEPT ![s] = f]
    BY <1>6 DEF Issue
  <2>3. /\ \A t \in Sessions : \A b \in Activities :
              t # s \/ b # a => client'[t][b] = client[t][b]
        /\ done => client'[s][a].phase = "idle"
        /\ ~done => /\ client'[s][a].phase = "blocked"
                    /\ client'[s][a].pipe = client[s][a].pipe
    BY <2>1, <2>2, ToldEffect
  <2>4. CASE Busy(s)
    <3>1. completed[s] = NoResult /\ ~done
      BY <2>4 DEF TypeOK
    <3>2. UNCHANGED <<pending, completed, fence, notified>>
      BY <2>2, <2>4
    <3>3. PendingInv'
      BY <1>3, <2>3, <3>1, <3>2 DEF PendingInv, Pipe, Activities
    <3>4. ResultInv'
      BY <1>3, <2>2, <2>3, <3>1, <3>2 DEF ResultInv, Pipe, Activities, NoResult, NoRequest, TypeOK
    <3>5. SuccessInv' /\ InterruptedInv'
      BY <2>2, <2>3, <3>1, <3>2 DEF SuccessInv, InterruptedInv, TypeOK
    <3>6. NoLostWakeup'
      BY <1>3, <2>3, <2>4, <3>2 DEF NoLostWakeup, Busy
    <3> QED
      BY <1>1, <1>2, <3>3, <3>4, <3>5, <3>6
  <2>5. CASE ~Busy(s) /\ done
    <3>1. /\ pending'   = [pending EXCEPT ![s] = NoRequest]
          /\ completed' = [completed EXCEPT ![s] = [type |-> Kind[a], success |-> TRUE]]
          /\ UNCHANGED fence
      BY <2>2, <2>5 DEF Finished
    <3>2. interrupted' = [interrupted EXCEPT ![s][a] = FALSE]
      BY <2>2, <2>5
    <3>3. PendingInv'
      BY <1>3, <2>3, <3>1 DEF PendingInv, Pipe, Activities, NoRequest, TypeOK
    <3>4. ResultInv'
      BY <1>3, <2>3, <3>1, <3>2 DEF ResultInv, Pipe, Kind, Activities, TypeOK
    <3>5. SuccessInv' /\ InterruptedInv'
      BY <2>3, <3>1, <3>2 DEF SuccessInv, InterruptedInv, TypeOK
    <3>6. NoLostWakeup'
      <4>1. Finished(s, Kind[a], TRUE)
        BY <2>2, <2>5
      <4>2. \A t \in Sessions : notified[t] => notified'[t]
        BY <4>1 DEF Finished, TypeOK
      <4> QED
        BY <1>3, <2>3, <2>5, <3>1, <4>2 DEF NoLostWakeup, Busy, TypeOK
    <3> QED
      BY <1>1, <1>2, <3>3, <3>4, <3>5, <3>6
  <2>6. CASE ~Busy(s) /\ ~done
    <3>1. /\ pending'   = [pending EXCEPT ![s] = Kind[a]]
          /\ completed' = [completed EXCEPT ![s] = NoResult]
          /\ UNCHANGED notified
          /\ fence' = [fence EXCEPT ![s] = f]
      BY <2>2, <2>6 DEF Dispatched
    <3>2. interrupted' = [interrupted EXCEPT ![s][a] = TRUE]
      BY <2>2, <2>6
    <3>3. client[s][a].pipe \in Pipes /\ NoJobs \in JobNumbers
      BY IdleType DEF TypeOK
    <3>4. a = "complete" => f[s][client[s][a].pipe] = submitted[s][client[s][a].pipe]
      BY <3>3 DEF FenceOf, JobNumbers
    <3>5. PendingInv'
      BY <1>3, <2>3, <2>6, <3>1, <3>4 DEF PendingInv, Pipe, Kind, Activities, TypeOK
    <3>6. ResultInv'
      BY <1>3, <2>3, <2>6, <3>1, <3>2 DEF ResultInv, Pipe, Activities, NoResult, NoRequest, TypeOK
    <3>7. SuccessInv' /\ InterruptedInv'
      BY <2>3, <2>6, <3>1, <3>2 DEF SuccessInv, InterruptedInv, NoResult, NoRequest, Waits, TypeOK
    <3>8. NoLostWakeup'
      BY <1>3, <2>3, <3>1 DEF NoLostWakeup, Busy, Kind, Activities, NoRequest, TypeOK
    <3> QED
      BY <1>1, <1>2, <3>5, <3>6, <3>7, <3>8
  <2> QED
    BY <2>4, <2>5, <2>6
<1> QED
  BY <1>4, <1>5, <1>6 DEF Wait

\* The worker that resumes has awaited the last job of the pipe.
LEMMA ResumeInv ==
    ASSUME IInv, NEW s \in Sessions, Resume(s)
    PROVE  IInv'
<1> USE DEF IInv
<1>1. TypeOK'
  BY OthersType
<1>2. /\ pending[s] \in Waits
      /\ pending'   = [pending EXCEPT ![s] = NoRequest]
      /\ completed' = [completed EXCEPT ![s] = [type |-> pending[s], success |-> TRUE]]
      /\ fence'     = [fence EXCEPT ![s] = NoJobs]
      /\ UNCHANGED <<interrupted, signal, submitted, finished, client>>
  BY DEF Resume, Finished, Busy, TypeOK, Waits
<1>3. PendingInv'
  BY <1>2 DEF PendingInv, Pipe, NoRequest, TypeOK
<1>4. pending[s] = "SYNCOBJ_WAIT" =>
        /\ client[s]["complete"].phase # "idle"
        /\ finished[s][Pipe(s)] = submitted[s][Pipe(s)]
  <2> SUFFICES ASSUME pending[s] = "SYNCOBJ_WAIT"
               PROVE  finished[s][Pipe(s)] = submitted[s][Pipe(s)]
    BY DEF PendingInv
  <2>1. Pipe(s) \in Pipes
    BY DEF Pipe, TypeOK, Activities
  <2>2. fence[s][s][Pipe(s)] <= finished[s][Pipe(s)]
    BY <2>1 DEF Resume, Signaled
  <2>3. finished[s][Pipe(s)] \in Nat /\ submitted[s][Pipe(s)] \in Nat
    BY <2>1 DEF TypeOK, JobNumbers
  <2>4. fence[s][s][Pipe(s)] = submitted[s][Pipe(s)]
    BY DEF PendingInv
  <2>5. finished[s][Pipe(s)] <= submitted[s][Pipe(s)]
    BY <2>1 DEF JobsInv
  <2> QED
    BY <2>2, <2>3, <2>4, <2>5
<1>5. ResultInv'
  BY <1>2, <1>4 DEF ResultInv, Pipe, TypeOK
<1>6. SuccessInv' /\ JobsInv' /\ InterruptedInv'
  BY <1>2 DEF SuccessInv, JobsInv, InterruptedInv, TypeOK
<1>7. NoLostWakeup'
  <2>1. Finished(s, pending[s], TRUE)
    BY DEF Resume
  <2>2. \A t \in Sessions : notified[t] => notified'[t]
    BY <2>1 DEF Finished, TypeOK
  <2>3. notified'[s]
    BY <2>1, <1>2 DEF Finished, TypeOK, Waits
  <2> QED
    BY <1>2, <2>2, <2>3 DEF NoLostWakeup, Busy, TypeOK
<1> QED
  BY <1>1, <1>3, <1>5, <1>6, <1>7

\* The GPU, the notification and the client.
LEMMA FinishJobInv ==
    ASSUME IInv, NEW s \in Sessions, NEW p \in Pipes, FinishJob(s, p)
    PROVE  IInv'
<1> USE DEF IInv
<1>1. TypeOK'
  BY OthersType
<1>2. UNCHANGED <<pending, completed, interrupted, fence, notified, signal, submitted, client>>
  BY DEF FinishJob
<1>3. \A t \in Sessions, q \in Pipes :
        finished'[t][q] = IF t = s /\ q = p THEN finished[t][q] + 1 ELSE finished[t][q]
  BY DEF FinishJob, TypeOK, JobNumbers
<1>4. finished[s][p] < submitted[s][p] /\ finished[s][p] \in Nat /\ submitted[s][p] \in Nat
  BY DEF FinishJob, TypeOK, JobNumbers
<1>5. \A t \in Sessions : Pipe(t) \in Pipes
  BY DEF Pipe, TypeOK, Activities
<1>6. PendingInv' /\ SuccessInv' /\ InterruptedInv' /\ NoLostWakeup'
  BY <1>2 DEF PendingInv, Pipe, SuccessInv, InterruptedInv, NoLostWakeup, Busy
<1>7. JobsInv'
  BY <1>2, <1>3, <1>4 DEF JobsInv
<1>8. ResultInv'
  BY <1>2, <1>3, <1>4, <1>5 DEF ResultInv, Pipe
<1> QED
  BY <1>1, <1>6, <1>7, <1>8

\* The notification turns into the signal.
LEMMA NotifierInv ==
    ASSUME IInv, NEW s \in Sessions, HandleNotifier(s)
    PROVE  IInv'
<1> USE DEF IInv
<1>1. TypeOK'
  BY OthersType
<1>2. UNCHANGED <<pending, completed, interrupted, fence, submitted, finished, client>>
      /\ notified' = [notified EXCEPT ![s] = FALSE] /\ signal' = [signal EXCEPT ![s] = TRUE]
  BY DEF HandleNotifier
<1>3. PendingInv' /\ ResultInv' /\ SuccessInv' /\ JobsInv' /\ InterruptedInv'
  BY <1>2 DEF PendingInv, Pipe, ResultInv, SuccessInv, JobsInv, InterruptedInv
<1>4. NoLostWakeup'
  BY <1>2 DEF NoLostWakeup, Busy, TypeOK
<1> QED
  BY <1>1, <1>3, <1>4

\* The activity that begins calls, the other one is not concerned.
LEMMA BeginEffect ==
    ASSUME TypeOK, NEW s \in Sessions, NEW a \in Activities, Begin(s, a)
    PROVE  /\ \A t \in Sessions : \A b \in Activities :
                t # s \/ b # a => client'[t][b] = client[t][b]
           /\ client'[s][a].phase = "calling"
           /\ a = "access" => client'[s][a].asked = submitted
<1>1. client[s][a] \in Activity
  BY DEF TypeOK, Activity
<1>2. CASE a = "complete" /\ \E p \in Pipes :
             client' = [client EXCEPT ![s][a].phase = "calling", ![s][a].pipe = p]
  BY <1>1, <1>2 DEF TypeOK, Activity
<1>3. CASE client' = [client EXCEPT ![s][a].phase = "calling", ![s][a].asked = submitted]
  BY <1>1, <1>3 DEF TypeOK, Activity
<1> QED
  BY <1>2, <1>3 DEF Begin

\* An activity that begins has no result of the past.
LEMMA BeginInv ==
    ASSUME IInv, NEW s \in Sessions, NEW a \in Activities, Begin(s, a)
    PROVE  IInv'
<1> USE DEF IInv
<1>1. TypeOK'
  BY OthersType
<1>2. /\ UNCHANGED <<pending, completed, interrupted, fence, notified, signal, submitted, finished>>
      /\ client[s][a].phase = "idle"
  BY DEF Begin
<1>3. /\ \A t \in Sessions : \A b \in Activities :
            t # s \/ b # a => client'[t][b] = client[t][b]
      /\ client'[s][a].phase = "calling"
  BY BeginEffect
<1>4. PendingInv' /\ ResultInv'
  BY <1>2, <1>3 DEF PendingInv, ResultInv, InterruptedInv, Pipe, Activities
<1>5. SuccessInv' /\ JobsInv' /\ InterruptedInv'
  BY <1>2, <1>3 DEF SuccessInv, JobsInv, InterruptedInv
<1>6. NoLostWakeup'
  BY <1>2, <1>3 DEF NoLostWakeup, Busy
<1> QED
  BY <1>1, <1>4, <1>5, <1>6

\* Nobody sleeps any more, and nobody awaits anything else than before.
LEMMA WakeEffect ==
    ASSUME TypeOK, NEW s \in Sessions, Wake(s)
    PROVE  /\ \A t \in Sessions : \A b \in Activities : t # s => client'[t][b] = client[t][b]
           /\ \A b \in Activities :
                /\ client'[s][b].pipe = client[s][b].pipe
                /\ client'[s][b].asked = client[s][b].asked
                /\ client'[s][b].phase # "blocked"
                /\ client[s][b].phase # "idle" => client'[s][b].phase # "idle"
<1>1. \A b \in Activities : client[s][b] \in Activity
  BY DEF TypeOK, Activity
<1> QED
  BY <1>1 DEF Wake, TypeOK, Activity

\* The client wakes up.
LEMMA WakeInv ==
    ASSUME IInv, NEW s \in Sessions, Wake(s)
    PROVE  IInv'
<1> USE DEF IInv
<1>1. TypeOK'
  BY OthersType
<1>2. /\ UNCHANGED <<pending, completed, interrupted, fence, notified, submitted, finished>>
      /\ signal' = [signal EXCEPT ![s] = FALSE]
  BY DEF Wake
<1>3. /\ \A t \in Sessions : \A b \in Activities : t # s => client'[t][b] = client[t][b]
      /\ \A b \in Activities :
           /\ client'[s][b].pipe = client[s][b].pipe
           /\ client'[s][b].phase # "blocked"
           /\ client[s][b].phase # "idle" => client'[s][b].phase # "idle"
  BY WakeEffect
<1>4. PendingInv' /\ ResultInv'
  BY <1>2, <1>3 DEF PendingInv, ResultInv, Pipe, Activities
<1>5. SuccessInv' /\ JobsInv' /\ InterruptedInv'
  BY <1>2, <1>3 DEF SuccessInv, JobsInv, InterruptedInv
<1>6. NoLostWakeup'
  BY <1>2, <1>3 DEF NoLostWakeup, Busy, TypeOK
<1> QED
  BY <1>1, <1>4, <1>5, <1>6

\* Every step preserves the invariant.
LEMMA InvStep == IInv /\ [Next]_vars => IInv'
<1> SUFFICES ASSUME IInv, [Next]_vars PROVE IInv'
  OBVIOUS
<1>1. CASE UNCHANGED vars
  BY <1>1, TypeStep DEF IInv, vars, PendingInv, Pipe, ResultInv, SuccessInv, JobsInv,
                        InterruptedInv, NoLostWakeup, Busy
<1>2. CASE Next
  BY <1>2, ExecuteInv, WaitInv, ResumeInv, FinishJobInv, NotifierInv, BeginInv, WakeInv DEF Next
<1> QED
  BY <1>1, <1>2

\* A new session satisfies the invariant.
LEMMA InvInit == Init => IInv
<1> SUFFICES ASSUME Init PROVE IInv
  OBVIOUS
<1>1. PendingInv /\ ResultInv /\ SuccessInv /\ InterruptedInv /\ NoLostWakeup
  BY DEF Init, PendingInv, ResultInv, SuccessInv, InterruptedInv, NoLostWakeup, Waits, NoRequest,
         Idle, Activities
<1>2. JobsInv
  BY DEF Init, JobsInv, NoJobs
<1> QED
  BY <1>1, <1>2, TypeInit DEF IInv

\* The invariant holds in all states.
LEMMA Invariance == Spec => []IInv
  BY InvInit, InvStep, PTL DEF Spec

\* A client that sleeps gets woken up: the end of a pending request, the
\* notification or the signal is yet to come.
THEOREM WakeupsKept == Spec => []NoLostWakeup
<1>1. IInv => NoLostWakeup
  BY DEF IInv
<1> QED
  BY <1>1, Invariance, PTL

\* Only the return of a wait ends it.
LEMMA OnlyWaitEnds ==
    ASSUME IInv, Next, NEW s \in Sessions, NEW a \in Activities,
           client[s][a].phase = "calling", client'[s][a].phase = "idle"
    PROVE  Wait(s, a)
<1> USE DEF IInv
<1>1. PICK t \in Sessions :
        \/ \E p \in Pipes : Execute(t, p) \/ FinishJob(t, p)
        \/ \E b \in Activities : Begin(t, b) \/ Wait(t, b)
        \/ Resume(t) \/ HandleNotifier(t) \/ Wake(t)
  BY DEF Next
<1>2. client' # client
  OBVIOUS
<1>3. ~\E p \in Pipes : Execute(t, p) \/ FinishJob(t, p)
  BY <1>2 DEF Execute, FinishJob
<1>4. ~Resume(t) /\ ~HandleNotifier(t)
  BY <1>2 DEF Resume, HandleNotifier
<1>5. ~Wake(t)
  BY WakeEffect
<1>6. ASSUME NEW b \in Activities, Begin(t, b) PROVE FALSE
  <2>1. client[t][b].phase = "idle"
    BY <1>6 DEF Begin
  <2>2. client'[s][a] = client[s][a]
    BY <1>6, <2>1, BeginEffect
  <2> QED
    BY <2>2
<1>7. PICK b \in Activities : Wait(t, b)
  BY <1>1, <1>3, <1>4, <1>5, <1>6
<1>8. t = s /\ b = a
  <2>1. PICK done \in BOOLEAN : Told(t, b, done)
    <3>1. completed[t].success \in BOOLEAN
      BY DEF TypeOK
    <3>2. (~Busy(t) /\ Signaled(FenceOf(t, b, client[t][b].pipe))) \in BOOLEAN
      BY DEF Signaled, Busy
    <3> QED
      BY <1>7, <3>1, <3>2 DEF Wait, TakeResult, Issue
  <2> QED
    BY <2>1, ToldEffect
<1> QED
  BY <1>7, <1>8

\* A TRUE of complete is about the last job of the pipe, whichever way it came.
LEMMA CompleteStep ==
    ASSUME IInv, Next, NEW s \in Sessions,
           client[s]["complete"].phase = "calling", client'[s]["complete"].phase = "idle"
    PROVE  finished[s][Pipe(s)] = submitted[s][Pipe(s)]
<1> USE DEF IInv
<1> DEFINE a == "complete"
           f == FenceOf(s, a, Pipe(s))
           done == ~Busy(s) /\ Signaled(f)
<1>1. a \in Activities /\ Kind[a] = "SYNCOBJ_WAIT"
  BY DEF Activities, Kind
<1>2. Wait(s, a)
  BY <1>1, OnlyWaitEnds
<1>3. ASSUME NEW d \in BOOLEAN, Told(s, a, d) PROVE d
  BY <1>1, <1>3, ToldEffect
<1>4. CASE TakeResult(s, a)
  BY <1>1, <1>4 DEF TakeResult, HasResult, ResultInv
<1>5. CASE Issue(s, a)
  <2>1. done \in BOOLEAN /\ Told(s, a, done)
    BY <1>5 DEF Issue, Pipe, Signaled, Busy
  <2>2. Signaled(f)
    BY <1>3, <2>1
  <2>3. Pipe(s) \in Pipes
    BY DEF Pipe, TypeOK, Activities
  <2>4. f[s][Pipe(s)] = submitted[s][Pipe(s)]
    BY <2>3, IdleType DEF FenceOf, JobNumbers
  <2>5. f[s][Pipe(s)] <= finished[s][Pipe(s)]
    BY <2>2, <2>3 DEF Signaled
  <2>6. finished[s][Pipe(s)] \in Nat /\ submitted[s][Pipe(s)] \in Nat
    BY <2>3 DEF TypeOK, JobNumbers
  <2>7. finished[s][Pipe(s)] <= submitted[s][Pipe(s)]
    BY <2>3 DEF JobsInv
  <2> QED
    BY <2>4, <2>5, <2>6, <2>7
<1> QED
  BY <1>2, <1>3, <1>4, <1>5 DEF Wait

\* When complete says TRUE, no job of the session is left on the pipe.
THEOREM ResultsFresh == Spec => CompleteMeansDone
<1> DEFINE A == \A s \in Sessions :
                  LET p == client[s]["complete"].pipe IN
                  client[s]["complete"].phase = "calling" /\ client'[s]["complete"].phase = "idle"
                      => finished[s][p] = submitted[s][p]
<1>1. IInv /\ [Next]_vars => [A]_vars
  <2> SUFFICES ASSUME IInv, Next PROVE A
    OBVIOUS
  <2> QED
    BY CompleteStep DEF Pipe
<1> QED
  BY <1>1, Invariance, PTL DEF Spec, CompleteMeansDone

--------------------------------------------------------------------------------
(* Buffers *)

AtMost(f, g) == \A s \in Sessions : \A p \in Pipes : f[s][p] <= g[s][p]

\* The jobs that used the buffer when the client of s asked for it
Asked(s) == client[s]["access"].asked

AskedInv == \A s \in Sessions : AtMost(Asked(s), submitted)

PendingAccessInv ==
    \A s \in Sessions : pending[s] = "WAIT" =>
        client[s]["access"].phase # "idle" /\ AtMost(Asked(s), fence[s])

ResultAccessInv ==
    \A s \in Sessions : completed[s].type = "WAIT" /\ interrupted[s]["access"] =>
        AtMost(Asked(s), finished)

AInv == IInv /\ AskedInv /\ PendingAccessInv /\ ResultAccessInv

\* The order of job numbers is transitive.
LEMMA AtMostTrans ==
    ASSUME NEW f \in JobNumbers, NEW g \in JobNumbers, NEW h \in JobNumbers,
           AtMost(f, g), AtMost(g, h)
    PROVE  AtMost(f, h)
<1> SUFFICES ASSUME NEW s \in Sessions, NEW p \in Pipes PROVE f[s][p] <= h[s][p]
  BY DEF AtMost
<1>1. f[s][p] \in Nat /\ g[s][p] \in Nat /\ h[s][p] \in Nat
  BY DEF JobNumbers
<1> QED
  BY <1>1 DEF AtMost

\* What waits for set_tiling_gpu covers all the client has asked for.
LEMMA AccessWait ==
    ASSUME AInv, NEW s \in Sessions, NEW a \in Activities, Wait(s, a)
    PROVE  AInv'
<1> USE DEF AInv, IInv
<1>1. IInv'
  BY WaitInv
<1>2. UNCHANGED <<signal, submitted, finished>> /\ client[s][a].phase = "calling"
  BY DEF Wait
<1>3. PICK done \in BOOLEAN : Told(s, a, done)
  <2>1. completed[s].success \in BOOLEAN
    BY DEF TypeOK
  <2>2. (~Busy(s) /\ Signaled(FenceOf(s, a, client[s][a].pipe))) \in BOOLEAN
    BY DEF Signaled, Busy
  <2> QED
    BY <2>1, <2>2 DEF Wait, TakeResult, Issue
<1>4. /\ \A t \in Sessions : \A b \in Activities :
            t # s \/ b # a => client'[t][b] = client[t][b]
      /\ client'[s][a].asked \in {NoJobs, client[s][a].asked}
      /\ client'[s][a].phase \in {"idle", "blocked"}
  BY <1>3, ToldEffect
<1>5. AskedInv'
  <2> SUFFICES ASSUME NEW t \in Sessions PROVE AtMost(Asked(t)', submitted)
    BY <1>2 DEF AskedInv, AtMost
  <2>1. Asked(t)' = Asked(t) \/ Asked(t)' = NoJobs
    BY <1>4 DEF Asked, Activities
  <2>2. AtMost(NoJobs, submitted)
    BY DEF AtMost, NoJobs, TypeOK, JobNumbers
  <2> QED
    BY <2>1, <2>2 DEF AskedInv
<1>6. CASE StillPending(s, a) /\ Told(s, a, FALSE)
           /\ UNCHANGED <<pending, completed, interrupted, fence, notified>>
  <2>1. client'[s][a].phase = "blocked" /\ client'[s][a].asked = client[s][a].asked
    BY <1>6, ToldEffect
  <2>2. \A t \in Sessions : Asked(t)' = Asked(t)
    BY <1>4, <2>1 DEF Asked, Activities
  <2> QED
    BY <1>1, <1>2, <1>4, <1>5, <1>6, <2>1, <2>2
       DEF PendingAccessInv, ResultAccessInv, AtMost, Activities
<1>7. CASE TakeResult(s, a)
  <2>1. /\ interrupted' = [interrupted EXCEPT ![s][a] = FALSE]
        /\ UNCHANGED <<pending, completed, fence, notified>>
        /\ pending[s] # Kind[a]
    BY <1>7 DEF TakeResult, HasResult
  <2>2. \A t \in Sessions : t # s \/ a # "access" =>
            client'[t]["access"] = client[t]["access"] /\ Asked(t)' = Asked(t)
    BY <1>4 DEF Asked, Activities
  <2>3. PendingAccessInv'
    BY <2>1, <2>2 DEF PendingAccessInv, AtMost, Kind, Activities
  <2>4. ResultAccessInv'
    BY <1>2, <2>1, <2>2 DEF ResultAccessInv, AtMost, Activities, TypeOK
  <2> QED
    BY <1>1, <1>5, <2>3, <2>4
<1>8. CASE Issue(s, a)
  <2> DEFINE f == FenceOf(s, a, client[s][a].pipe)
             d == ~Busy(s) /\ Signaled(f)
  <2>1. d \in BOOLEAN
    BY DEF Signaled, Busy
  <2>2. /\ interrupted' = [interrupted EXCEPT ![s][a] = ~d]
        /\ Told(s, a, d)
        /\ IF Busy(s) THEN UNCHANGED <<pending, completed, fence, notified>>
           ELSE IF d THEN Finished(s, Kind[a], TRUE) /\ UNCHANGED fence
           ELSE Dispatched(s, Kind[a]) /\ fence' = [fence EXCEPT ![s] = f]
    BY <1>8 DEF Issue
  <2>3. ~d => client'[s][a].phase = "blocked" /\ client'[s][a].asked = client[s][a].asked
    BY <2>1, <2>2, ToldEffect
  <2>4. \A t \in Sessions : t # s \/ a # "access" =>
            client'[t]["access"] = client[t]["access"] /\ Asked(t)' = Asked(t)
    BY <1>4 DEF Asked, Activities
  <2>5. ~d => \A t \in Sessions : Asked(t)' = Asked(t)
    BY <2>3, <2>4 DEF Asked, Activities
  <2>6. CASE Busy(s)
    <3>1. UNCHANGED <<pending, completed, fence>> /\ completed[s].type = NoRequest /\ ~d
      BY <2>2, <2>6 DEF TypeOK, NoResult
    <3>2. PendingAccessInv'
      BY <2>3, <2>4, <2>5, <3>1 DEF PendingAccessInv, AtMost, Activities
    <3>3. ResultAccessInv'
      BY <1>2, <2>2, <2>5, <3>1 DEF ResultAccessInv, AtMost, NoRequest, TypeOK
    <3> QED
      BY <1>1, <1>5, <3>2, <3>3
  <2>7. CASE ~Busy(s) /\ d
    <3>1. /\ pending'   = [pending EXCEPT ![s] = NoRequest]
          /\ completed' = [completed EXCEPT ![s] = [type |-> Kind[a], success |-> TRUE]]
          /\ UNCHANGED fence
      BY <2>2, <2>7 DEF Finished
    <3>2. interrupted' = [interrupted EXCEPT ![s][a] = FALSE]
      BY <2>2, <2>7
    <3>3. PendingAccessInv'
      BY <2>4, <3>1 DEF PendingAccessInv, AtMost, NoRequest, TypeOK
    <3>4. ResultAccessInv'
      BY <1>2, <2>4, <3>1, <3>2 DEF ResultAccessInv, AtMost, Kind, Activities, TypeOK
    <3> QED
      BY <1>1, <1>5, <3>3, <3>4
  <2>8. CASE ~Busy(s) /\ ~d
    <3>1. /\ pending'   = [pending EXCEPT ![s] = Kind[a]]
          /\ completed' = [completed EXCEPT ![s] = NoResult]
          /\ fence' = [fence EXCEPT ![s] = f]
      BY <2>2, <2>8 DEF Dispatched
    <3>2. interrupted' = [interrupted EXCEPT ![s][a] = TRUE]
      BY <2>2, <2>8
    <3>3. a = "access" => f = submitted
      BY DEF FenceOf
    <3>4. PendingAccessInv'
      BY <2>3, <2>4, <2>5, <2>8, <3>1, <3>3
         DEF PendingAccessInv, AskedInv, AtMost, Kind, Activities, TypeOK
    <3>5. ResultAccessInv'
      BY <1>2, <2>5, <2>8, <3>1, <3>2
         DEF ResultAccessInv, AtMost, NoResult, NoRequest, Activities, TypeOK
    <3> QED
      BY <1>1, <1>5, <3>4, <3>5
  <2> QED
    BY <2>6, <2>7, <2>8
<1> QED
  BY <1>6, <1>7, <1>8 DEF Wait

\* Jobs are submitted only while nothing is pending.
LEMMA AccessExecute ==
    ASSUME AInv, NEW s \in Sessions, NEW p \in Pipes, Execute(s, p)
    PROVE  AInv'
<1> USE DEF AInv, IInv
<1>1. IInv'
  BY ExecuteInv
<1>2. PICK success \in BOOLEAN :
        /\ Finished(s, "EXEC", success)
        /\ submitted' = IF success THEN [submitted EXCEPT ![s][p] = @ + 1] ELSE submitted
  BY DEF Execute
<1>3. /\ pending' = [pending EXCEPT ![s] = NoRequest]
      /\ completed' = [completed EXCEPT ![s] = [type |-> "EXEC", success |-> success]]
      /\ UNCHANGED <<interrupted, fence, finished, client>>
  BY <1>2 DEF Finished, Execute
<1>4. AtMost(submitted, submitted')
  BY <1>2 DEF AtMost, TypeOK, JobNumbers
<1>5. AskedInv'
  <2> SUFFICES ASSUME NEW t \in Sessions PROVE AtMost(Asked(t), submitted')
    BY <1>3 DEF AskedInv, AtMost, Asked
  <2>1. Asked(t) \in JobNumbers /\ submitted \in JobNumbers /\ submitted' \in JobNumbers
    BY <1>1 DEF Asked, TypeOK, Activities
  <2> QED
    BY <1>4, <2>1, AtMostTrans DEF AskedInv
<1>6. PendingAccessInv'
  BY <1>3 DEF PendingAccessInv, AtMost, Asked, NoRequest, TypeOK
<1>7. ResultAccessInv'
  BY <1>3 DEF ResultAccessInv, AtMost, Asked, TypeOK
<1> QED
  BY <1>1, <1>5, <1>6, <1>7

\* The worker that resumes has awaited all the client has asked for.
LEMMA AccessResume ==
    ASSUME AInv, NEW s \in Sessions, Resume(s)
    PROVE  AInv'
<1> USE DEF AInv, IInv
<1>1. IInv'
  BY ResumeInv
<1>2. /\ pending'   = [pending EXCEPT ![s] = NoRequest]
      /\ completed' = [completed EXCEPT ![s] = [type |-> pending[s], success |-> TRUE]]
      /\ fence'     = [fence EXCEPT ![s] = NoJobs]
      /\ UNCHANGED <<interrupted, submitted, finished, client>>
  BY DEF Resume, Finished
<1>3. pending[s] = "WAIT" => AtMost(Asked(s), finished)
  <2> SUFFICES ASSUME pending[s] = "WAIT" PROVE AtMost(Asked(s), finished)
    OBVIOUS
  <2>1. AtMost(Asked(s), fence[s]) /\ AtMost(fence[s], finished)
    BY DEF PendingAccessInv, Resume, Signaled, AtMost
  <2>2. Asked(s) \in JobNumbers /\ fence[s] \in JobNumbers /\ finished \in JobNumbers
    BY DEF Asked, TypeOK, Activities
  <2> QED
    BY <2>1, <2>2, AtMostTrans
<1>4. AskedInv'
  BY <1>2 DEF AskedInv, AtMost, Asked
<1>5. PendingAccessInv'
  BY <1>2 DEF PendingAccessInv, AtMost, Asked, NoRequest, TypeOK
<1>6. ResultAccessInv'
  BY <1>2, <1>3 DEF ResultAccessInv, AtMost, Asked, TypeOK
<1> QED
  BY <1>1, <1>4, <1>5, <1>6

\* The GPU only finishes more jobs.
LEMMA AccessFinishJob ==
    ASSUME AInv, NEW s \in Sessions, NEW p \in Pipes, FinishJob(s, p)
    PROVE  AInv'
<1> USE DEF AInv, IInv
<1>1. IInv'
  BY FinishJobInv
<1>2. UNCHANGED <<pending, completed, interrupted, fence, submitted, client>>
  BY DEF FinishJob
<1>3. AtMost(finished, finished')
  BY DEF FinishJob, AtMost, TypeOK, JobNumbers
<1>4. AskedInv' /\ PendingAccessInv'
  BY <1>2 DEF AskedInv, PendingAccessInv, AtMost, Asked
<1>5. ResultAccessInv'
  <2> SUFFICES ASSUME NEW t \in Sessions, AtMost(Asked(t), finished)
               PROVE  AtMost(Asked(t), finished')
    BY <1>2 DEF ResultAccessInv, Asked, AtMost
  <2>1. Asked(t) \in JobNumbers /\ finished \in JobNumbers /\ finished' \in JobNumbers
    BY <1>1 DEF Asked, TypeOK, Activities
  <2> QED
    BY <1>3, <2>1, AtMostTrans
<1> QED
  BY <1>1, <1>4, <1>5

\* A client that begins asks for what is submitted.
LEMMA AccessBegin ==
    ASSUME AInv, NEW s \in Sessions, NEW a \in Activities, Begin(s, a)
    PROVE  AInv'
<1> USE DEF AInv, IInv
<1>1. IInv'
  BY BeginInv
<1>2. /\ UNCHANGED <<pending, completed, interrupted, fence, submitted, finished>>
      /\ client[s][a].phase = "idle"
  BY DEF Begin
<1>3. /\ \A t \in Sessions : \A b \in Activities :
            t # s \/ b # a => client'[t][b] = client[t][b]
      /\ a = "access" => client'[s][a].asked = submitted
  BY BeginEffect
<1>4. \A t \in Sessions : t # s \/ a # "access" =>
            client'[t]["access"] = client[t]["access"] /\ Asked(t)' = Asked(t)
  BY <1>3 DEF Asked, Activities
<1>5. a = "access" => Asked(s)' = submitted
  BY <1>3 DEF Asked
<1>6. AskedInv'
  <2>1. AtMost(submitted, submitted)
    BY DEF AtMost, TypeOK, JobNumbers
  <2> QED
    BY <1>2, <1>4, <1>5, <2>1 DEF AskedInv, AtMost
<1>7. a = "access" => pending[s] # "WAIT" /\ ~interrupted[s]["access"]
  BY <1>2 DEF PendingAccessInv, InterruptedInv, Activities
<1>8. PendingAccessInv'
  BY <1>2, <1>4, <1>7 DEF PendingAccessInv, AtMost
<1>9. ResultAccessInv'
  BY <1>2, <1>4, <1>7 DEF ResultAccessInv, AtMost
<1> QED
  BY <1>1, <1>6, <1>8, <1>9

\* Notification and signal carry no data.
LEMMA AccessSignal ==
    ASSUME AInv, NEW s \in Sessions, HandleNotifier(s) \/ Wake(s)
    PROVE  AInv'
<1> USE DEF AInv, IInv
<1>1. IInv'
  BY NotifierInv, WakeInv
<1>2. UNCHANGED <<pending, completed, interrupted, fence, submitted, finished>>
  BY DEF HandleNotifier, Wake
<1>3. \A t \in Sessions : client'[t]["access"].asked = client[t]["access"].asked
  BY WakeEffect DEF HandleNotifier, Activities
<1>4. \A t \in Sessions : client[t]["access"].phase # "idle"
                          => client'[t]["access"].phase # "idle"
  BY WakeEffect DEF HandleNotifier, Activities
<1>5. AskedInv'
  BY <1>2, <1>3 DEF AskedInv, AtMost, Asked
<1>6. PendingAccessInv'
  BY <1>2, <1>3, <1>4 DEF PendingAccessInv, AtMost, Asked
<1>7. ResultAccessInv'
  BY <1>2, <1>3 DEF ResultAccessInv, AtMost, Asked
<1> QED
  BY <1>1, <1>5, <1>6, <1>7

\* Hence the invariant holds in all states.
LEMMA AccessInvariance == Spec => []AInv
<1>1. Init => AInv
  <2> SUFFICES ASSUME Init PROVE AInv
    OBVIOUS
  <2>1. AskedInv
    BY DEF Init, AskedInv, AtMost, Asked, Idle, NoJobs, Activities
  <2>2. PendingAccessInv /\ ResultAccessInv
    BY DEF Init, PendingAccessInv, ResultAccessInv, NoRequest
  <2> QED
    BY <2>1, <2>2, InvInit DEF AInv
<1>2. AInv /\ [Next]_vars => AInv'
  <2> SUFFICES ASSUME AInv, [Next]_vars PROVE AInv'
    OBVIOUS
  <2>1. CASE UNCHANGED vars
    BY <2>1, InvStep DEF AInv, vars, AskedInv, PendingAccessInv, ResultAccessInv, AtMost, Asked
  <2>2. CASE Next
    BY <2>2, AccessExecute, AccessResume, AccessFinishJob, AccessBegin, AccessSignal, AccessWait
       DEF Next
  <2> QED
    BY <2>1, <2>2
<1> QED
  BY <1>1, <1>2, PTL DEF Spec

\* A TRUE of set_tiling_gpu is about all jobs that used the buffer when the
\* client asked for it.
LEMMA AccessStep ==
    ASSUME AInv, Next, NEW s \in Sessions,
           client[s]["access"].phase = "calling", client'[s]["access"].phase = "idle"
    PROVE  Signaled(Asked(s))
<1> USE DEF AInv, IInv
<1> DEFINE a == "access"
           f == FenceOf(s, a, client[s][a].pipe)
           done == ~Busy(s) /\ Signaled(f)
<1>1. a \in Activities /\ Kind[a] = "WAIT"
  BY DEF Activities, Kind
<1>2. Wait(s, a)
  BY <1>1, OnlyWaitEnds
<1>3. ASSUME NEW d \in BOOLEAN, Told(s, a, d) PROVE d
  BY <1>1, <1>3, ToldEffect
<1>4. CASE TakeResult(s, a)
  BY <1>1, <1>4 DEF TakeResult, HasResult, ResultAccessInv, AtMost, Signaled
<1>5. CASE Issue(s, a)
  <2>1. done \in BOOLEAN /\ Told(s, a, done)
    BY <1>5 DEF Issue, Signaled, Busy
  <2>2. Signaled(submitted)
    BY <1>3, <2>1 DEF FenceOf
  <2>3. Asked(s) \in JobNumbers /\ submitted \in JobNumbers /\ finished \in JobNumbers
    BY <1>1 DEF Asked, TypeOK
  <2>4. AtMost(Asked(s), submitted) /\ AtMost(submitted, finished)
    BY <2>2 DEF AskedInv, AtMost, Signaled
  <2>5. AtMost(Asked(s), finished)
    BY <2>3, <2>4, AtMostTrans
  <2> QED
    BY <2>5 DEF AtMost, Signaled
<1> QED
  BY <1>2, <1>3, <1>4, <1>5 DEF Wait

\* When set_tiling_gpu says TRUE, the jobs that used the buffer are finished.
THEOREM BuffersIdle == Spec => AccessMeansDone
<1> DEFINE A == \A s \in Sessions :
                  client[s]["access"].phase = "calling" /\ client'[s]["access"].phase = "idle"
                      => Signaled(client[s]["access"].asked)
<1>1. AInv /\ [Next]_vars => [A]_vars
  <2> SUFFICES ASSUME AInv, Next PROVE A
    OBVIOUS
  <2> QED
    BY AccessStep DEF Asked
<1> QED
  BY <1>1, AccessInvariance, PTL DEF Spec, AccessMeansDone
================================================================================
