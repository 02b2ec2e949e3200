---------------------------- MODULE AudioSession ----------------------------
(***************************************************************************)
(* The Audio_out and Audio_in services of the audio driver,                *)
(* src/driver/audio/a64/session.cc.  A channel has at most one session; a  *)
(* session is a stream in memory shared with its client, which allocates   *)
(* and submits packets while the driver plays or records.  A packet stands *)
(* for its number in its session, 0 is an invalid packet.                  *)
(*                                                                         *)
(* The driver handles session requests and interrupts in one entrypoint,   *)
(* so a client's memory accesses are all that happens between the steps of *)
(* a handler.                                                              *)
(***************************************************************************)
EXTENDS Naturals, FiniteSets

CONSTANTS
    QueueSize,     \* the packets of a stream
    MaxPackets,    \* bound: packets a client submits in a session
    MaxOpens       \* bound: sessions opened

ASSUME AudioAssumption ==
    QueueSize \in Nat \ {0, 1} /\ MaxPackets \in Nat /\ MaxOpens \in Nat

Out      == {"left", "right"}
Channels == Out \cup {"mic"}
\* what a client can ask for: "surround" stands for every unknown name
Names    == Channels \cup {"surround"}
Slots    == 0 .. QueueSize - 1

VARIABLES
    channel_acquired,  \* channel -> the driver points to a session
    sessions,          \* channel -> number of its open sessions
    stream,            \* the streams of the output channels
    unread,            \* recordings the client of "mic" has not fetched
    active,            \* channel -> started by its client
    taken,             \* output channel -> packets taken by the driver
    waiting,           \* output channel -> what the client found the driver
                       \*   doing when it had to wait for a free packet
    opens,             \* sessions opened so far
    handler,           \* "idle", "advance" or "rx"
    wasFull            \* the channels whose queue was full (full_left, full_right)

streamVars  == <<stream, unread, active, taken, waiting>>
sessionVars == <<channel_acquired, sessions, streamVars, opens, handler, wasFull>>

NewStream == [pos |-> 0, tail |-> 0, slot |-> [i \in Slots |-> 0],
              sent |-> 0, filling |-> FALSE]

SessionInit ==
    /\ channel_acquired = [c \in Channels |-> FALSE]
    /\ sessions = [c \in Channels |-> 0]
    /\ stream = [c \in Out |-> NewStream] /\ unread = 0
    /\ active = [c \in Channels |-> FALSE]
    /\ taken = [c \in Out |-> 0]
    /\ waiting = [c \in Out |-> "no"]
    /\ opens = 0 /\ handler = "idle" /\ wasFull = {}

Succ(i) == (i + 1) % QueueSize

\* Stream::full: one packet is kept free
Full(c) == Succ(stream[c].tail) = stream[c].pos

Current(c) == stream[c].slot[stream[c].pos]

-----------------------------------------------------------------------------
(* Sessions. *)

Granted_Taken(n) == n \in Channels

\* Root_policy::aquire; a refused request changes nothing
Granted(n) == n \in Channels /\ ~channel_acquired[n]

\* A stream comes and goes with its session.
ResetStream(c) ==
    /\ IF c \in Out
       THEN /\ stream' = [stream EXCEPT ![c] = NewStream]
            /\ taken' = [taken EXCEPT ![c] = 0]
            /\ waiting' = [waiting EXCEPT ![c] = "no"]
            /\ UNCHANGED unread
       ELSE unread' = 0 /\ UNCHANGED <<stream, taken, waiting>>
    /\ active' = [active EXCEPT ![c] = FALSE]

Open(n) ==
    /\ handler = "idle" /\ opens < MaxOpens /\ Granted(n)
    /\ opens' = opens + 1
    /\ channel_acquired' = [channel_acquired EXCEPT ![n] = TRUE]
    /\ sessions' = [sessions EXCEPT ![n] = @ + 1]
    /\ ResetStream(n)
    /\ UNCHANGED <<handler, wasFull>>

Close(c) ==
    /\ handler = "idle" /\ sessions[c] > 0
    /\ sessions' = [sessions EXCEPT ![c] = @ - 1]
    /\ channel_acquired' = [channel_acquired EXCEPT ![c] = FALSE]
    /\ ResetStream(c)
    /\ UNCHANGED <<opens, handler, wasFull>>

\* The RPCs start and stop
StartOrStop(c) ==
    /\ handler = "idle" /\ sessions[c] > 0
    /\ active' = [active EXCEPT ![c] = ~@]
    /\ UNCHANGED <<channel_acquired, sessions, stream, unread, taken, waiting,
                   opens, handler, wasFull>>

-----------------------------------------------------------------------------
(* The clients' side of the streams, at any time. *)

Alloc(c) ==
    /\ sessions[c] > 0 /\ ~stream[c].filling
    /\ waiting[c] = "no" /\ stream[c].sent < MaxPackets
    /\ IF Full(c)
       THEN waiting' = [waiting EXCEPT ![c] = handler] /\ UNCHANGED stream
       ELSE /\ stream' = [stream EXCEPT ![c].filling = TRUE,
                                        ![c].tail = Succ(@)]
            /\ UNCHANGED waiting
    /\ UNCHANGED <<channel_acquired, sessions, unread, active, taken, opens,
                   handler, wasFull>>

Submit(c) ==
    /\ stream[c].filling
    /\ stream' = [stream EXCEPT
         ![c].filling = FALSE, ![c].sent = @ + 1,
         ![c].slot[(stream[c].tail + QueueSize - 1) % QueueSize] =
             stream[c].sent + 1]
    /\ UNCHANGED <<channel_acquired, sessions, unread, active, taken, waiting,
                   opens, handler, wasFull>>

Fetch ==
    /\ unread > 0 /\ unread' = unread - 1
    /\ UNCHANGED <<channel_acquired, sessions, stream, active, taken, waiting,
                   opens, handler, wasFull>>

-----------------------------------------------------------------------------
(* Playing. *)

\* Audio_aggregator::_audio_out_active
AudioOutActive == \A c \in Out : channel_acquired[c] /\ active[c]

PairQueued_PositionAhead ==
    AudioOutActive /\ \A c \in Out : stream[c].slot[Succ(stream[c].pos)] # 0

\* a packet to play on both channels
PairQueued == AudioOutActive /\ \A c \in Out : Current(c) # 0

notTaken == <<channel_acquired, sessions, unread, active, waiting, opens>>

TakePair_LeftInvalidated ==
    /\ stream' = [stream EXCEPT !["left"].slot[stream["left"].pos] = 0]
    /\ taken' = [c \in Out |-> taken[c] + 1]
    /\ wasFull' = {c \in Out : Full(c)}
    /\ UNCHANGED notTaken

TakePair_FullAfterwards ==
    /\ stream' = [c \in Out |-> [stream[c] EXCEPT !.slot[stream[c].pos] = 0]]
    /\ taken' = [c \in Out |-> taken[c] + 1]
    /\ wasFull' = {c \in Out : Succ(stream[c].tail) = Succ(stream[c].pos)}
    /\ UNCHANGED notTaken

\* Out::play_packet up to the two calls of full in _advance_position
TakePair ==
    /\ stream' = [c \in Out |-> [stream[c] EXCEPT !.slot[stream[c].pos] = 0]]
    /\ taken' = [c \in Out |-> taken[c] + 1]
    /\ wasFull' = {c \in Out : Full(c)}
    /\ UNCHANGED notTaken

\* the rest of _advance_position and of play_packet, with alloc_submit to the
\* channels that were full.  The packet played is the one at pos, so
\* pos(packet_position(p)) leaves pos alone; progress_submit wakes clients,
\* which may act at any time anyway.
AdvancePosition ==
    /\ stream' = [c \in Out |-> [stream[c] EXCEPT !.pos = Succ(@)]]
    /\ waiting' = [c \in Out |-> IF c \in wasFull THEN "no" ELSE waiting[c]]
    /\ wasFull' = {}
    /\ UNCHANGED <<channel_acquired, sessions, unread, active, taken, opens>>

-----------------------------------------------------------------------------
(* Recording: In::record_packet.  A recording is stored if the channel is  *)
(* active; in an overrun it replaces one the client has not fetched.       *)

RecordActive == channel_acquired["mic"] /\ active["mic"]

RecordPacket ==
    /\ unread' = IF RecordActive /\ unread < QueueSize THEN unread + 1 ELSE unread
    /\ UNCHANGED <<channel_acquired, sessions, stream, active, taken, waiting,
                   opens, wasFull>>

=============================================================================
