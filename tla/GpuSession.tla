------------------------------ MODULE GpuSession ------------------------------
(***************************************************************************)
(* Sessions of the Lima GPU driver (gpu/lima/main.cc): how a request gets  *)
(* from the RPC functions of a session, which the entrypoint executes, to  *)
(* the worker task of the session, which enters the Linux kernel, and how  *)
(* its result gets back.                                                   *)
(*                                                                         *)
(* The entrypoint runs the scheduler of the tasks until all of them block, *)
(* hence a request is finished when the RPC function continues unless the  *)
(* worker waits in the kernel.  This happens to the two kinds of waits:    *)
(* SYNCOBJ_WAIT waits for the last job of a pipe, WAIT for all jobs that   *)
(* use a buffer.  A client is then told FALSE, sleeps until it gets the    *)
(* completion signal, and asks again.                                      *)
(*                                                                         *)
(* A client has up to two activities per session: one awaits jobs with     *)
(* complete, one awaits a buffer with set_tiling_gpu.  Each of them asks   *)
(* again for the same thing until it is told TRUE.  All jobs use the       *)
(* buffer that is awaited, which is a buffer the session has mapped.       *)
(***************************************************************************)
EXTENDS Naturals, FiniteSetsExt

CONSTANTS
    Sessions,    \* GPU sessions
    Pipes,       \* Operation::MAX_PIPE pipes, each with a syncobj of the session
    Submitters,  \* sessions whose clients only submit jobs
    MaxJobs      \* bound: number of jobs

ASSUME GpuSessionAssumption ==
    /\ Pipes # {} /\ Submitters \subseteq Sessions
    /\ MaxJobs \in Nat

VARIABLES
    pending,       \* _pending_request of each session
    completed,     \* _completed_request
    interrupted,   \* _pending_syncobj_wait and _pending_wait
    fence,         \* jobs that the worker awaits in the kernel, number per session and pipe
    notified,      \* the notifier is submitted to the entrypoint
    signal,        \* the completion signal is submitted to the client
    submitted,     \* number of jobs per session and pipe that the kernel has accepted
    finished,      \* number of those the GPU has finished
    client         \* the activities of the client

vars == <<pending, completed, interrupted, fence, notified, signal, submitted, finished, client>>

Activities == {"complete", "access"}

\* The request by which each activity waits
Kind == [complete |-> "SYNCOBJ_WAIT", access |-> "WAIT"]

JobNumbers == [Sessions -> [Pipes -> Nat]]

NoRequest  == "INVALID"
Jobs(n)    == MapThenSumSet(LAMBDA s : MapThenSumSet(LAMBDA p : n[s][p], Pipes), Sessions)
NoJobs     == [s \in Sessions |-> [p \in Pipes |-> 0]]

\* An activity that awaits nothing
Idle == [phase |-> "idle", pipe |-> CHOOSE p \in Pipes : TRUE, asked |-> NoJobs]

\* Completed requests: type and success
NoResult   == [type |-> NoRequest, success |-> FALSE]

--------------------------------------------------------------------------------
(* Kernel *)

Signaled(f) == \A s \in Sessions : \A p \in Pipes : f[s][p] <= finished[s][p]

\* lx_drm_ioctl_syncobj_wait takes the fence of the last job of the pipe,
\* lx_drm_ioctl_lima_gem_wait those of all jobs that use the buffer
FenceOf(s, a, p) ==
    IF a = "access" THEN submitted
    ELSE [NoJobs EXCEPT ![s][p] = submitted[s][p]]

--------------------------------------------------------------------------------
(* Request hand-over *)

\* A request is refused while another one is pending
Busy(s) == pending[s] # NoRequest

\* with_pending_request resets the completed request first; the worker notifies
\* the client after each wait

Dispatched(s, type) ==
    /\ pending'   = [pending EXCEPT ![s] = type]
    /\ completed' = [completed EXCEPT ![s] = NoResult]
    /\ UNCHANGED notified

Finished_NotifiesSyncobjOnly(s, type, success) ==
    /\ pending'   = [pending EXCEPT ![s] = NoRequest]
    /\ completed' = [completed EXCEPT ![s] = [type |-> type, success |-> success]]
    /\ notified'  = [notified EXCEPT ![s] = @ \/ type = "SYNCOBJ_WAIT"]

Finished(s, type, success) ==
    /\ pending'   = [pending EXCEPT ![s] = NoRequest]
    /\ completed' = [completed EXCEPT ![s] = [type |-> type, success |-> success]]
    /\ notified'  = [notified EXCEPT ![s] = @ \/ type \in {"SYNCOBJ_WAIT", "WAIT"}]

--------------------------------------------------------------------------------
(* RPC functions *)

\* execute: the kernel accepts the job or refuses it, it does not block.  With a
\* request pending the client gets Invalid_state
Execute(s, p) ==
    /\ ~Busy(s)
    /\ \E success \in BOOLEAN :
         /\ Finished(s, "EXEC", success)
         /\ submitted' = IF success THEN [submitted EXCEPT ![s][p] = @ + 1] ELSE submitted
         /\ Jobs(submitted') <= MaxJobs
    /\ UNCHANGED <<interrupted, fence, signal, finished, client>>

\* The activity a of the client is told TRUE, or FALSE
Told(s, a, done) ==
    client' = [client EXCEPT ![s][a] = IF done THEN Idle ELSE [@ EXCEPT !.phase = "blocked"]]

StillPending_Forever(s, a) == interrupted[s][a]

\* The previous wait was interrupted and is still pending ...
StillPending(s, a) == interrupted[s][a] /\ pending[s] = Kind[a]

HasResult_OfAnyRequest(s, a) == interrupted[s][a] /\ pending[s] # Kind[a]
HasResult_OfThePast(s, a)    == pending[s] # Kind[a] /\ completed[s].type = Kind[a]

\* ... or has a result by now
HasResult(s, a) ==
    interrupted[s][a] /\ pending[s] # Kind[a] /\ completed[s].type = Kind[a]

TakeResult(s, a) ==
    /\ HasResult(s, a)
    /\ interrupted' = [interrupted EXCEPT ![s][a] = FALSE]
    /\ Told(s, a, completed[s].success)
    /\ UNCHANGED <<pending, completed, fence, notified>>

\* Issue the wait; it is interrupted when it is refused or blocks
Issue(s, a) ==
    LET f    == FenceOf(s, a, client[s][a].pipe)
        done == ~Busy(s) /\ Signaled(f)
    IN
    /\ ~StillPending(s, a) /\ ~HasResult(s, a)
    /\ interrupted' = [interrupted EXCEPT ![s][a] = ~done]
    /\ Told(s, a, done)
    /\ IF Busy(s) THEN UNCHANGED <<pending, completed, fence, notified>>
       ELSE IF done THEN Finished(s, Kind[a], TRUE) /\ UNCHANGED fence
       ELSE Dispatched(s, Kind[a]) /\ fence' = [fence EXCEPT ![s] = f]

\* complete and set_tiling_gpu
Wait(s, a) ==
    /\ client[s][a].phase = "calling"
    /\ \/ /\ StillPending(s, a)
          /\ Told(s, a, FALSE)
          /\ UNCHANGED <<pending, completed, interrupted, fence, notified>>
       \/ TakeResult(s, a)
       \/ Issue(s, a)
    /\ UNCHANGED <<signal, submitted, finished>>

--------------------------------------------------------------------------------
(* Completion *)

\* The kernel resumes the worker that waits
Resume(s) ==
    /\ Busy(s)
    /\ Signaled(fence[s])
    /\ Finished(s, pending[s], TRUE)
    /\ fence' = [fence EXCEPT ![s] = NoJobs]
    /\ UNCHANGED <<interrupted, signal, submitted, finished, client>>

\* _handle_notifier, executed by the entrypoint
HandleNotifier(s) ==
    /\ notified[s]
    /\ notified' = [notified EXCEPT ![s] = FALSE]
    /\ signal'   = [signal EXCEPT ![s] = TRUE]
    /\ UNCHANGED <<pending, completed, interrupted, fence, submitted, finished, client>>

--------------------------------------------------------------------------------
(* Environment: GPU and client *)

FinishJob(s, p) ==
    /\ finished[s][p] < submitted[s][p]
    /\ finished' = [finished EXCEPT ![s][p] = @ + 1]
    /\ UNCHANGED <<pending, completed, interrupted, fence, notified, signal, submitted, client>>

\* An activity begins; complete needs a sequence number that execute returned
Begin(s, a) ==
    /\ s \notin Submitters
    /\ client[s][a].phase = "idle"
    /\ \/ /\ a = "complete"
          /\ \E p \in Pipes :
               /\ submitted[s][p] > 0
               /\ client' = [client EXCEPT ![s][a].phase = "calling", ![s][a].pipe = p]
       \/ /\ a = "access"
          /\ client' = [client EXCEPT ![s][a].phase = "calling", ![s][a].asked = submitted]
    /\ UNCHANGED <<pending, completed, interrupted, fence, notified, signal, submitted, finished>>

\* The signal wakes all activities of the session
Wake(s) ==
    /\ signal[s]
    /\ signal' = [signal EXCEPT ![s] = FALSE]
    /\ client' = [client EXCEPT ![s] =
                     [a \in Activities |-> IF @[a].phase = "blocked"
                                           THEN [@[a] EXCEPT !.phase = "calling"] ELSE @[a]]]
    /\ UNCHANGED <<pending, completed, interrupted, fence, notified, submitted, finished>>

Init ==
    /\ pending     = [s \in Sessions |-> NoRequest]
    /\ completed   = [s \in Sessions |-> [type |-> "SYNCOBJ_CREATE", success |-> TRUE]]
    /\ interrupted = [s \in Sessions |-> [a \in Activities |-> FALSE]]
    /\ fence       = [s \in Sessions |-> NoJobs]
    /\ notified    = [s \in Sessions |-> FALSE]
    /\ signal      = [s \in Sessions |-> FALSE]
    /\ submitted   = NoJobs
    /\ finished    = NoJobs
    /\ client      = [s \in Sessions |-> [a \in Activities |-> Idle]]

Next ==
    \E s \in Sessions :
        \/ \E p \in Pipes : Execute(s, p) \/ FinishJob(s, p)
        \/ \E a \in Activities : Begin(s, a) \/ Wait(s, a)
        \/ Resume(s) \/ HandleNotifier(s) \/ Wake(s)

Spec == Init /\ [][Next]_vars

\* The GPU finishes each job, its interrupt lets the worker continue, the
\* entrypoint handles its signals, and the client asks again when it is woken up
Fairness ==
    \A s \in Sessions :
        /\ \A p \in Pipes : WF_vars(FinishJob(s, p))
        /\ \A a \in Activities : WF_vars(Wait(s, a))
        /\ WF_vars(Resume(s)) /\ WF_vars(HandleNotifier(s)) /\ WF_vars(Wake(s))

FairSpec == Spec /\ Fairness

--------------------------------------------------------------------------------
(* Properties *)

\* The state has the types of the code, and the result of an earlier request is
\* gone as long as a request is pending (with_pending_request: "Reset first to
\* prevent _schedule_request from picking up unfinished requests").
TypeOK ==
    /\ \A s \in Sessions : Busy(s) => completed[s] = NoResult
    /\ pending \in [Sessions -> {NoRequest, "SYNCOBJ_WAIT", "WAIT"}]
    /\ completed \in [Sessions ->
         [type : {NoRequest, "SYNCOBJ_CREATE", "EXEC", "SYNCOBJ_WAIT", "WAIT"},
          success : BOOLEAN]]
    /\ interrupted \in [Sessions -> [Activities -> BOOLEAN]]
    /\ fence \in [Sessions -> JobNumbers]
    /\ notified \in [Sessions -> BOOLEAN] /\ signal \in [Sessions -> BOOLEAN]
    /\ submitted \in JobNumbers /\ finished \in JobNumbers
    /\ client \in [Sessions -> [Activities ->
         [phase : {"idle", "calling", "blocked"}, pipe : Pipes, asked : JobNumbers]]]

\* An activity that sleeps is woken up: a request is pending, whose end will
\* notify the client, or the notification or its signal is on the way (comment
\* above _pending_syncobj_wait: "the client will wait until it is notified").
NoLostWakeup ==
    \A s \in Sessions : \A a \in Activities :
        client[s][a].phase = "blocked" => Busy(s) \/ notified[s] \/ signal[s]

\* When complete says TRUE, no job of this session is left on the pipe, those
\* included that were submitted since the wait was interrupted: the result that
\* waits in _completed_request is never older than the last job.
CompleteMeansDone ==
    [][\A s \in Sessions :
         LET p == client[s]["complete"].pipe IN
         client[s]["complete"].phase = "calling" /\ client'[s]["complete"].phase = "idle"
             => finished[s][p] = submitted[s][p]]_vars

\* When set_tiling_gpu says TRUE, all jobs of all sessions that used the buffer
\* when it was first asked for are finished.
AccessMeansDone ==
    [][\A s \in Sessions :
         client[s]["access"].phase = "calling" /\ client'[s]["access"].phase = "idle"
             => Signaled(client[s]["access"].asked)]_vars

\* Each wait returns TRUE in the end, although the two kinds of waits of a
\* session displace the results of each other.
WaitsReturn ==
    \A s \in Sessions : \A a \in Activities :
        client[s][a].phase = "calling" ~> client[s][a].phase = "idle"
===============================================================================
