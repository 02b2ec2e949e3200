--------------------------------- MODULE MCGpu ---------------------------------
(***************************************************************************)
(* The sessions of the GPU driver: a behaviour is one of the requests and  *)
(* waits of sessions, or one of their buffers.                             *)
(***************************************************************************)
EXTENDS GpuSession, GpuBuffers

VARIABLE running   \* "jobs" or "buffers"

GpuInit == Init /\ BuffersInit /\ running \in {"jobs", "buffers"}

GpuNext ==
    /\ \/ running = "jobs"    /\ Next        /\ UNCHANGED bufferVars
       \/ running = "buffers" /\ BuffersNext /\ UNCHANGED vars
    /\ UNCHANGED running

GpuSpec ==
    /\ GpuInit /\ [][GpuNext]_<<vars, bufferVars, running>>
    /\ running = "jobs" => Fairness
================================================================================
