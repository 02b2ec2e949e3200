------------------------------ MODULE GpuBuffers ------------------------------
(***************************************************************************)
(* Buffer objects of the Lima GPU driver (gpu/lima/main.cc): allocation,   *)
(* export to and import by other sessions, release, and the end of a       *)
(* session.                                                                *)
(*                                                                         *)
(* A buffer has four representations: an object of the Linux kernel, which *)
(* lives as long as a session has a handle for it; the Buffer_object of    *)
(* the session that allocated it; a Gpu_vram, managed by the entrypoint    *)
(* and referring to that Buffer_object, whose capability is passed between *)
(* clients; and a Vram_local in each session that knows it.  The number of *)
(* the kernel object stands for its handles, its buffer object and the     *)
(* capability of its Gpu_vram; a session's handles for it count as one.    *)
(*                                                                         *)
(* RPC functions are executed one at a time.  A request is refused while   *)
(* the worker of the session waits in the kernel (see GpuSession).         *)
(* Clients import the buffers of others only, under identifiers they do    *)
(* not use otherwise, and call unmap_cpu for imported buffers only.        *)
(***************************************************************************)
EXTENDS Naturals, FiniteSets

CONSTANTS
    Clients,      \* each has one session
    Ids,          \* Vram_id
    MaxObjects    \* bound: kernel objects ever allocated

ASSUME GpuBuffersAssumption == MaxObjects \in Nat /\ "none" \notin Clients

Objects == 1 .. MaxObjects
None    == 0

VARIABLES
    session,      \* "none", "open", "closed"
    waiting,      \* the worker waits in the kernel
    buffers,      \* _worker_buffers: session -> id -> object or None
    locals,       \* _vram_local_space: session -> id -> Vram_local or NoLocal
    vram,         \* the Gpu_vram of an object: its owner, or NoVram
    import_name,  \* the objects whose Gpu_vram has an import name
    handles,      \* kernel: session -> objects it has a handle for
    named,        \* kernel: objects with a global name
    known,        \* capabilities that were returned by export_vram
    objects,      \* number of objects allocated so far
    refused       \* sessions that had to skip the release of a handle

bufferVars == <<session, waiting, buffers, locals, vram, import_name, handles,
                named, known, objects, refused>>

NoVram  == "none"
NoLocal == [cap |-> None, exported |-> FALSE, handle |-> None]

BuffersInit ==
    /\ session = [s \in Clients |-> "none"]
    /\ waiting = [s \in Clients |-> FALSE]
    /\ buffers = [s \in Clients |-> [i \in Ids |-> None]]
    /\ locals  = [s \in Clients |-> [i \in Ids |-> NoLocal]]
    /\ vram    = [o \in Objects |-> NoVram]
    /\ import_name = {}
    /\ handles = [s \in Clients |-> {}]
    /\ named = {} /\ known = {} /\ objects = 0 /\ refused = {}

Contains(s, i) == locals[s][i] # NoLocal

\* rpc_ep().apply finds the Gpu_vram of a capability
Managed(o) == o # None /\ vram[o] # NoVram

\* The owner recorded in the Gpu_vram is this session
Owner(s, i) == Managed(locals[s][i].cap) /\ vram[locals[s][i].cap] = s

-------------------------------------------------------------------------------
(* Kernel *)

\* An object and its name vanish with its last handle.
Live(h) == {o \in Objects : \E s \in Clients : o \in h[s]}

CloseHandles(s, gone) ==
    /\ handles' = [handles EXCEPT ![s] = @ \ gone]
    /\ named'   = named \cap Live(handles')

-------------------------------------------------------------------------------
(* Sessions *)

\* The constructor; if the kernel refuses, there is no session.
OpenSession(s) ==
    /\ session[s] = "none"
    /\ session' = [session EXCEPT ![s] = "open"]
    /\ UNCHANGED <<waiting, buffers, locals, vram, import_name, handles, named,
                   known, objects, refused>>

\* complete or set_tiling_gpu: the worker waits in the kernel ...
BeginWait(s) ==
    /\ session[s] = "open" /\ ~waiting[s]
    /\ waiting' = [waiting EXCEPT ![s] = TRUE]
    /\ UNCHANGED <<session, buffers, locals, vram, import_name, handles, named,
                   known, objects, refused>>

\* ... until the GPU is done
EndWait(s) ==
    /\ waiting[s]
    /\ waiting' = [waiting EXCEPT ![s] = FALSE]
    /\ UNCHANGED <<session, buffers, locals, vram, import_name, handles, named,
                   known, objects, refused>>

-------------------------------------------------------------------------------
(* Allocation *)

\* map_gpu.  The heap may be exhausted after the kernel has allocated the
\* object, and the identifier may be one of an imported buffer: then the
\* allocation is rolled back.
MapGpuWith(s, i, bookkeeping) ==
    /\ buffers' = [buffers EXCEPT ![s][i] = objects + 1]
    /\ handles' = [handles EXCEPT ![s] = @ \cup {objects + 1}]
    /\ IF bookkeeping
       THEN /\ vram' = [vram EXCEPT ![objects + 1] = s]
            /\ locals' = [locals EXCEPT ![s][i] = [NoLocal EXCEPT !.cap = objects + 1]]
       ELSE UNCHANGED <<vram, locals>>

MayMap(s, i) ==
    /\ session[s] = "open" /\ buffers[s][i] = None /\ ~waiting[s]
    /\ objects < MaxObjects


MapGpu(s, i) ==
    /\ MayMap(s, i)
    /\ objects' = objects + 1
    /\ \E heap \in BOOLEAN :
         IF heap /\ ~Contains(s, i) THEN MapGpuWith(s, i, TRUE)
         ELSE UNCHANGED <<buffers, handles, vram, locals>>
    /\ UNCHANGED <<session, waiting, import_name, named, known, refused>>

\* What _unmap_gpu leaves of the session's buffers ids: the book-keeping goes
\* first, then the kernel object, unless the request is refused.
Unmapped(s, ids) ==
    LET caps == {locals[s][i].cap : i \in ids}
        free == IF waiting[s] THEN {} ELSE ids
    IN
    /\ vram' = [o \in Objects |-> IF o \in caps THEN NoVram ELSE vram[o]]
    /\ import_name' = import_name \ caps
    /\ buffers' = [buffers EXCEPT ![s] =
                     [i \in Ids |-> IF i \in free THEN None ELSE @[i]]]


\* unmap_gpu; only the owner may free a buffer
UnmapGpu(s, i) ==
    /\ session[s] = "open" /\ Owner(s, i)
    /\ Unmapped(s, {i})
    /\ locals' = [locals EXCEPT ![s][i] = NoLocal]
    /\ CloseHandles(s, IF waiting[s] THEN {} ELSE {buffers[s][i]})
    /\ refused' = IF waiting[s] THEN refused \cup {s} ELSE refused
    /\ UNCHANGED <<session, waiting, known, objects>>

-------------------------------------------------------------------------------
(* Export and import *)


\* export_vram.  The kernel names the object once; FLINK is for own buffers.
ExportVram(s, i) ==
    /\ session[s] = "open" /\ Contains(s, i)
    /\ locals[s][i].exported \/ (~waiting[s] /\ buffers[s][i] # None)
    /\ known' = known \cup {locals[s][i].cap}
    /\ named' = named \cup {buffers[s][i]}
    /\ locals' = [locals EXCEPT ![s][i].exported = TRUE]
    /\ import_name' = import_name \cup ({locals[s][i].cap} \cap {o \in Objects : Managed(o)})
    /\ UNCHANGED <<session, waiting, buffers, vram, handles, objects, refused>>

\* The client imports under a new identifier, or repeats an import.
MayImport(s, o, i) ==
    /\ session[s] = "open" /\ o \in known /\ vram[o] # s
    /\ buffers[s][i] = None
    /\ Contains(s, i) => locals[s][i].cap = o
    /\ \A j \in Ids \ {i} : locals[s][j].cap # o

\* Gpu_vram, name and kernel object are there, and the worker is free
Importable(s, o) == Managed(o) /\ o \in import_name \cap named /\ ~waiting[s]


\* import_vram.  The Vram_local stays if the kernel's handle cannot be opened.
ImportVram(s, o, i) ==
    /\ MayImport(s, o, i) /\ locals[s][i].handle = None
    /\ locals' = [locals EXCEPT ![s][i].cap = o,
                                ![s][i].handle = IF Importable(s, o) THEN o ELSE None]
    /\ handles' = IF Importable(s, o) THEN [handles EXCEPT ![s] = @ \cup {o}] ELSE handles
    /\ UNCHANGED <<session, waiting, buffers, vram, import_name, named, known,
                   objects, refused>>

UnmapCpu_NoClose(s, i) ==
    /\ session[s] = "open" /\ Contains(s, i) /\ ~Owner(s, i)
    /\ buffers[s][i] = None
    /\ locals' = [locals EXCEPT ![s][i] = NoLocal]
    /\ UNCHANGED <<session, waiting, buffers, vram, import_name, handles, named,
                   known, objects, refused>>

\* unmap_cpu of an imported buffer
UnmapCpu(s, i) ==
    LET handle == locals[s][i].handle IN
    /\ session[s] = "open" /\ Contains(s, i) /\ ~Owner(s, i)
    /\ buffers[s][i] = None
    /\ CloseHandles(s, IF waiting[s] THEN {} ELSE {handle})
    /\ refused' = IF waiting[s] /\ handle # None THEN refused \cup {s} ELSE refused
    /\ locals' = [locals EXCEPT ![s][i] = NoLocal]
    /\ UNCHANGED <<session, waiting, buffers, vram, import_name, known, objects>>

-------------------------------------------------------------------------------
(* The destructor of the session: closes imported handles, frees own        *)
(* buffers, and tells the worker to close the device, which releases all    *)
(* handles.  A worker that waits in the kernel gets none of this.           *)

CloseSession_ExportsKept(s) ==
    /\ session[s] = "open"
    /\ session' = [session EXCEPT ![s] = "closed"]
    /\ Unmapped(s, {i \in Ids : Owner(s, i) /\ ~locals[s][i].exported})
    /\ locals' = [locals EXCEPT ![s] = [i \in Ids |-> NoLocal]]
    /\ CloseHandles(s, IF waiting[s] THEN {} ELSE Objects)
    /\ UNCHANGED <<waiting, known, objects, refused>>

CloseSession(s) ==
    /\ session[s] = "open"
    /\ session' = [session EXCEPT ![s] = "closed"]
    /\ Unmapped(s, {i \in Ids : Owner(s, i)})
    /\ locals' = [locals EXCEPT ![s] = [i \in Ids |-> NoLocal]]
    /\ CloseHandles(s, IF waiting[s] THEN {} ELSE Objects)
    /\ UNCHANGED <<waiting, known, objects, refused>>

-------------------------------------------------------------------------------

BuffersNext ==
    \E s \in Clients :
        \/ OpenSession(s) \/ BeginWait(s) \/ EndWait(s) \/ CloseSession(s)
        \/ \E i \in Ids :
             \/ MapGpu(s, i) \/ UnmapGpu(s, i) \/ ExportVram(s, i) \/ UnmapCpu(s, i)
             \/ \E o \in Objects : ImportVram(s, o, i)

BuffersSpec == BuffersInit /\ [][BuffersNext]_bufferVars

-------------------------------------------------------------------------------
(* Properties *)

(* Each variable has the type of the code's data.                           *)
BuffersTypeOK ==
    /\ session \in [Clients -> {"none", "open", "closed"}]
    /\ waiting \in [Clients -> BOOLEAN]
    /\ buffers \in [Clients -> [Ids -> Objects \cup {None}]]
    /\ locals \in [Clients -> [Ids ->
         [cap : Objects \cup {None}, exported : BOOLEAN, handle : Objects \cup {None}]]]
    /\ vram \in [Objects -> Clients \cup {NoVram}]
    /\ handles \in [Clients -> SUBSET Objects]
    /\ import_name \subseteq Objects /\ named \subseteq Objects
    /\ known \subseteq Objects /\ refused \subseteq Clients
    /\ objects \in 0 .. MaxObjects

(* A Gpu_vram that a capability leads to refers to a Buffer_object that     *)
(* still exists, in a session that still exists: other sessions flush the   *)
(* buffer through this reference before they submit a job                   *)
(* (Gpu_vram::bo, Vram_local_space::with_bo).                               *)
VramBacked ==
    \A o \in Objects : Managed(o) =>
        /\ session[vram[o]] = "open"
        /\ \E i \in Ids : buffers[vram[o]][i] = o

(* The handles recorded by a session are open in the kernel, and all open   *)
(* handles are recorded unless a request was refused: the owner may free a  *)
(* buffer that others still use, failed allocations are rolled back.        *)
HandlesRecorded ==
    \A s \in Clients : session[s] = "open" =>
        LET recorded == ({buffers[s][i] : i \in Ids} \cup {locals[s][i].handle : i \in Ids})
                            \ {None}
        IN  recorded \subseteq handles[s] /\ (s \in refused \/ recorded = handles[s])

(* What export_vram returned can be imported as long as the owner has the   *)
(* buffer: its Gpu_vram has the name, and the kernel knows the name.        *)
ExportsImportable ==
    \A o \in known : Managed(o) => o \in import_name /\ o \in named

(* Whatever other sessions reach through an export is there.                *)
ExportsValid == VramBacked /\ ExportsImportable

(* An identifier that was unmapped can be mapped again, unless a request    *)
(* was refused ("Duplicate map_gpu called").                                *)
IdsComeBack ==
    \A s \in Clients, i \in Ids :
        session[s] = "open" /\ ~Contains(s, i) /\ s \notin refused => buffers[s][i] = None

(* Neither handles nor identifiers get lost.                                *)
NothingLeaks == HandlesRecorded /\ IdsComeBack

(* The worker of a session does not outlive it ("XXX must not return        *)
(* prematurely", _local_request).                                           *)
WorkerEndsFirst == \A s \in Clients : session[s] = "closed" => ~waiting[s]
===============================================================================
