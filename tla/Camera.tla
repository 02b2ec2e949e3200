-------------------------------- MODULE Camera --------------------------------
(***************************************************************************)
(* The camera driver: a task of the Linux emulation sets up the capture    *)
(* pipeline by a series of ioctls, and then moves frames from the buffers  *)
(* the sensor interface fills to a GUI buffer of twice the size, showing   *)
(* one half while it paints the other.  Pixels are modelled by position    *)
(* and by the frame they come from; conversion of colours is left out, and *)
(* so is the raw path (no conversion, no rotation).  The sensor interface  *)
(* with its V4L2 queue (videobuf2) is external.                            *)
(***************************************************************************)
EXTENDS Integers, Sequences, FiniteSets, SequencesExt

CONSTANTS
    CameraRoms,      \* raw configurations
    NoRom,           \* the configuration while there is no valid ROM
    MIN_WIDTH, MAX_WIDTH, MIN_HEIGHT, MAX_HEIGHT, MIN_FPS, MAX_FPS,
    MIN_BUFFER, MAX_BUFFER,
    Reserve,         \* buffers the sensor interface keeps while capturing: it
                     \* "wants at least 3 buffers" (lx_user.c:420)
    MaxPutFailures,  \* bound on the buffers lost by failing put_buffer
    FrameModulus     \* frame numbers are counted modulo this bound

Blank == 0           \* what the GUI buffer shows before any frame
NoBuffer == -1

ASSUME CameraLimits ==
    /\ MIN_WIDTH \in 1 .. MAX_WIDTH /\ MIN_HEIGHT \in 1 .. MAX_HEIGHT
    /\ MIN_FPS \in 1 .. MAX_FPS /\ MIN_BUFFER \in 1 .. MAX_BUFFER
    /\ MAX_WIDTH \in Nat /\ MAX_HEIGHT \in Nat /\ MAX_FPS \in Nat /\ MAX_BUFFER \in Nat
    /\ Reserve \in Nat /\ FrameModulus \in Nat \ {0}
ASSUME EnoughBuffers == MIN_BUFFER - MaxPutFailures > Reserve
ASSUME RomsAssumption ==
    CameraRoms \subseteq {NoRom} \union [width : Int, height : Int, fps : Int, num_buffer : Int,
                                        skip_frames : Int, rotate : BOOLEAN]

VARIABLES
    lx_config,   \* _camera.config, or NoRom
    pc,          \* where the task is
    ioctls,      \* ioctls of the setup that are still to come
    queued,      \* V4L2: buffers to be filled, in order
    filled,      \* V4L2: buffers to be fetched, in order
    memory,      \* frame in a buffer, as the device has written it
    cache,       \* frame in a buffer, as the CPU sees it
    next,        \* number of the next frame of the sensor
    held,        \* b, the buffer the task holds, or NoBuffer
    lost,        \* buffers neither held nor queued
    viewFlip, skipCount,
    offset,      \* <<x, y>> of the pixel of the GUI buffer shown at the top left
    gui,         \* GUI buffer: pixel |-> [frame, source], the source pixel
    line,        \* lines painted by _gui_show
    painting,    \* number of the frame being painted, or painted last
    shown,       \* number of the frame that the shown half is to hold
    exitRequested

cameraVars == <<lx_config, pc, ioctls, queued, filled, memory, cache, next, held, lost,
                viewFlip, skipCount, offset, gui, line, painting, shown, exitRequested>>

check_and_constrain_value(value, min, max) ==
    IF value < min THEN min ELSE IF value > max THEN max ELSE value

\* _update_config
Constrained(rom) ==
    LET fps == check_and_constrain_value(rom.fps, MIN_FPS, MAX_FPS)
    IN  [width       |-> check_and_constrain_value(rom.width, MIN_WIDTH, MAX_WIDTH),
         height      |-> check_and_constrain_value(rom.height, MIN_HEIGHT, MAX_HEIGHT),
         num_buffer  |-> check_and_constrain_value(rom.num_buffer, MIN_BUFFER, MAX_BUFFER),
         skip_frames |-> check_and_constrain_value(rom.skip_frames, 0, fps),
         rotate      |-> rom.rotate]

Buffers == 0 .. lx_config.num_buffer - 1
Pixels  == lx_config.width * lx_config.height

(* Setup: the operations on the devices, each of which may fail *)

_query_media_device == <<"topology", "topology">>
_setup_link         == <<"rear link", "front link">>
_open_video_device  == <<"open capture", "open bridge">>
_query_video_device == <<"capabilities">>
_setup_subdev_fmt   == <<"open sensor", "frame interval", "sensor format",
                         "frame interval", "bridge format">>
_setup_video_fmt    == <<"capture format">>
_configure_capture  ==
    _query_media_device \o _setup_link \o _open_video_device \o _query_video_device
        \o _setup_subdev_fmt \o _setup_video_fmt
_request_buffers(n) == <<"request buffers">> \o [i \in 1 .. n |-> "map buffer"]
_queue_buffers(n)   == [i \in 1 .. n |-> "queue buffer"]

Setup(n) == _configure_capture \o _request_buffers(n) \o _queue_buffers(n)

sleep_forever == pc' = "dead" /\ exitRequested' = TRUE

idle == <<filled, memory, cache, next, held, lost, viewFlip, skipCount, offset, gui,
          line, painting, shown>>

CheckConfig ==
    /\ pc = "start"
    /\ IF lx_config = NoRom THEN sleep_forever
                         ELSE pc' = "devices" /\ UNCHANGED exitRequested
    /\ UNCHANGED <<lx_config, ioctls, queued, idle>>

\* All devices but video0 are checked
setup_camera(present) ==
    /\ pc = "devices"
    /\ CASE present = "all"      -> /\ pc' = "setup" /\ ioctls' = Setup(lx_config.num_buffer)
                                    /\ UNCHANGED exitRequested
         [] present = "missing"  -> sleep_forever /\ UNCHANGED ioctls
         [] present = "no video0" -> pc' = "fault" /\ UNCHANGED <<ioctls, exitRequested>>
    /\ UNCHANGED <<lx_config, queued, idle>>

SetupStep(ok) ==
    /\ pc = "setup" /\ ioctls # <<>>
    /\ IF ok
       THEN /\ ioctls' = Tail(ioctls)
            /\ queued' = IF Head(ioctls) = "queue buffer" THEN Append(queued, Len(queued))
                                                        ELSE queued
            /\ UNCHANGED <<pc, exitRequested>>
       ELSE sleep_forever /\ UNCHANGED <<ioctls, queued>>
    /\ UNCHANGED <<lx_config, idle>>

create_gui(ok) ==
    /\ pc = "setup" /\ ioctls = <<>>
    /\ IF ok THEN pc' = "stream on" /\ UNCHANGED exitRequested ELSE sleep_forever
    /\ gui' = [i \in 0 .. 2 * Pixels - 1 |-> [frame |-> Blank, source |-> i % Pixels]]
    /\ UNCHANGED <<lx_config, ioctls, queued, filled, memory, cache, next, held, lost, viewFlip,
                   skipCount, offset, line, painting, shown>>

control_camera(start, ok) ==
    /\ pc = IF start THEN "stream on" ELSE "stream off"
    /\ IF start /\ ok THEN pc' = "get" /\ UNCHANGED exitRequested ELSE sleep_forever
    /\ IF ~start /\ ok THEN queued' = <<>> /\ filled' = <<>> ELSE UNCHANGED <<queued, filled>>
    /\ UNCHANGED <<lx_config, ioctls, memory, cache, next, held, lost, viewFlip, skipCount, offset,
                   gui, line, painting, shown>>

(* Sensor interface *)

Streaming == pc \in {"get", "swap", "paint", "put", "stream off"}

SensorFrame ==
    /\ Streaming /\ Len(queued) > Reserve
    /\ memory' = [memory EXCEPT ![Head(queued)] = next]
    /\ filled' = Append(filled, Head(queued))
    /\ queued' = Tail(queued)
    /\ next' = (next % FrameModulus) + 1
    /\ UNCHANGED <<lx_config, pc, ioctls, cache, held, lost, viewFlip, skipCount, offset, gui,
                   line, painting, shown, exitRequested>>

(* Capturing *)

\* Blocks until there is a buffer; afterwards the frame is skipped or displayed
get_buffer(ok) ==
    /\ pc = "get"
    /\ IF ok
       THEN /\ filled # <<>>
            /\ held' = Head(filled)
            /\ filled' = Tail(filled)
            /\ pc' = IF skipCount >= lx_config.skip_frames THEN "swap" ELSE "put"
       ELSE pc' = "stream off" /\ UNCHANGED <<held, filled>>
    /\ UNCHANGED <<lx_config, ioctls, queued, memory, cache, next, lost, viewFlip, skipCount, offset,
                   gui, line, painting, shown, exitRequested>>

_gui_set_view_Other(flip) ==
    IF ~flip THEN <<0, 0>>
    ELSE IF lx_config.rotate THEN <<0, lx_config.width>> ELSE <<lx_config.width, 0>>

\* The half that is not going to be painted
_gui_set_view(flip) ==
    IF flip THEN <<0, 0>>
    ELSE IF lx_config.rotate THEN <<0, lx_config.width>> ELSE <<lx_config.width, 0>>

\* genode_gui_swap_view, and the start of _gui_show
swap_view ==
    /\ pc = "swap"
    /\ offset' = _gui_set_view(viewFlip)
    /\ cache' = [cache EXCEPT ![held] = memory[held]]
    /\ shown' = painting
    /\ painting' = memory[held]
    /\ line' = 0
    /\ pc' = "paint"
    /\ UNCHANGED <<lx_config, ioctls, queued, filled, memory, next, held, lost, viewFlip, skipCount,
                   gui, exitRequested>>

Lines == IF lx_config.rotate THEN lx_config.width ELSE lx_config.height

\* Pixels of the GUI buffer that a line of the picture is written to, each with the
\* pixel of the frame it is taken from.  Rotation reads the columns of the frame from
\* the right; the index of the first one is the width.
PaintedLine(l) ==
    LET start == IF viewFlip THEN Pixels ELSE 0
    IN  IF lx_config.rotate
        THEN [h \in 0 .. lx_config.height - 1 |->
                [pixel |-> start + l * lx_config.height + h,
                 source |-> (lx_config.width - l) + h * lx_config.width]]
        ELSE [w \in 0 .. lx_config.width - 1 |->
                [pixel |-> start + l * lx_config.width + w, source |-> l * lx_config.width + w]]

\* _gui_show, line by line: the GUI server reads the buffer meanwhile
_gui_show ==
    /\ pc = "paint"
    /\ IF line < Lines
       THEN /\ LET painted == Range(PaintedLine(line))
               IN  gui' = [i \in DOMAIN gui |->
                             IF \E p \in painted : p.pixel = i
                             THEN [frame  |-> cache[held],
                                   source |-> (CHOOSE p \in painted : p.pixel = i).source]
                             ELSE gui[i]]
            /\ line' = line + 1
            /\ UNCHANGED <<pc, viewFlip, skipCount>>
       ELSE /\ pc' = "put" /\ viewFlip' = ~viewFlip /\ skipCount' = 0
            /\ UNCHANGED <<gui, line>>
    /\ UNCHANGED <<lx_config, ioctls, queued, filled, memory, cache, next, held, lost, offset,
                   painting, shown, exitRequested>>

Requeue_Dropped(b) == queued
Requeue(b) == Append(queued, b)

\* An error is ignored: the buffer is used no more
put_buffer(ok) ==
    /\ pc = "put"
    /\ skipCount' = skipCount + 1
    /\ IF ok THEN queued' = Requeue(held) /\ UNCHANGED lost
             ELSE /\ Cardinality(lost) < MaxPutFailures
                  /\ lost' = lost \union {held} /\ UNCHANGED queued
    /\ held' = NoBuffer
    /\ pc' = "get"
    /\ UNCHANGED <<lx_config, ioctls, filled, memory, cache, next, viewFlip, offset, gui, line,
                   painting, shown, exitRequested>>

CameraInit ==
    /\ lx_config \in {IF rom = NoRom THEN NoRom ELSE Constrained(rom) : rom \in CameraRoms}
    /\ pc = "start" /\ ioctls = <<>> /\ queued = <<>> /\ filled = <<>>
    /\ memory = [b \in 0 .. MAX_BUFFER - 1 |-> Blank] /\ cache = memory
    /\ next = 1 /\ held = NoBuffer /\ lost = {}
    /\ viewFlip = TRUE /\ skipCount = 0 /\ offset = <<0, 0>> /\ gui = <<>> /\ line = 0
    /\ painting = Blank /\ shown = Blank /\ exitRequested = FALSE

\* TASK_DEAD
Dead == pc \in {"dead", "fault"} /\ UNCHANGED cameraVars

CaptureTask ==
    \/ CheckConfig
    \/ \E present \in {"all", "missing", "no video0"} : setup_camera(present)
    \/ \E ok \in BOOLEAN :
          SetupStep(ok) \/ create_gui(ok) \/ control_camera(TRUE, ok) \/ control_camera(FALSE, ok)
              \/ put_buffer(ok)
    \/ get_buffer(TRUE)
    \/ swap_view
    \/ _gui_show

CameraNext == CaptureTask \/ get_buffer(FALSE) \/ SensorFrame \/ Dead

\* VIDIOC_DQBUF blocks as long as no buffer is filled: no error can be relied upon

CameraFairness == WF_cameraVars(CaptureTask) /\ WF_cameraVars(SensorFrame)

CameraSpec == CameraInit /\ [][CameraNext]_cameraVars /\ CameraFairness

(* Properties *)

\* Pixels of the view, by column and row
ViewWidth  == IF lx_config.rotate THEN lx_config.height ELSE lx_config.width
ViewHeight == IF lx_config.rotate THEN lx_config.width ELSE lx_config.height
GuiWidth   == IF lx_config.rotate THEN lx_config.height ELSE 2 * lx_config.width
Viewed(x, y) == gui[(y + offset[2]) * GuiWidth + x + offset[1]]

\* With rotation, the GUI server never shows a torn picture: whenever it reads the
\* buffer, it gets one whole frame, the one that was painted before the current one,
\* although the sensor fills buffers and the task paints meanwhile.  ("display first
\* buffer while painting to second")
FrameShownWhole ==
    gui # <<>> /\ lx_config.rotate =>
        \A x \in 0 .. ViewWidth - 1, y \in 0 .. ViewHeight - 1 : Viewed(x, y).frame = shown

\* Once it captures, the driver displays frames for ever, even if a buffer is lost, or
\* it asks its parent to be terminated.
CaptureGoesOn == pc = "get" ~> pc = "swap" \/ exitRequested

\* "specifies if the capture image data is rotated counter-clockwise and flipped":
\* whatever the orientation, a frame shown consists of all the pixels of the frame.
RotationComplete ==
    gui # <<>> /\ lx_config.rotate /\ shown # Blank =>
        {Viewed(x, y).source : x \in 0 .. ViewWidth - 1, y \in 0 .. ViewHeight - 1}
            = 0 .. Pixels - 1

================================================================================
