---------------------------- MODULE AudioDriver ----------------------------
(***************************************************************************)
(* The interrupt handling of the audio driver,                             *)
(* src/driver/audio/a64/main.cc.  Two channels of the DMA engine go round  *)
(* two buffers each, one playing (tx), one recording (rx); the engine does *)
(* not wait for the driver, and an interrupt that finds its predecessor    *)
(* pending is lost.  The driver keeps the buffers of a channel in a queue, *)
(* the one to be filled or delivered next at its head.                     *)
(*                                                                         *)
(* The engine completes no buffer while the handler runs: a period is      *)
(* 11 ms, the handler copies one packet.  Interrupts that are late or      *)
(* spurious are modelled.                                                  *)
(***************************************************************************)
EXTENDS AudioSession, Sequences

Descr == {0, 1}

VARIABLES
    tx, rx,     \* the two channels: buffer in use, interrupt pending, queue
    heard,      \* the tx buffers played to their end since they were filled
    late        \* an rx interrupt was lost

dmaVars == <<tx, rx, heard, late>>
vars == <<sessionVars, dmaVars>>

\* tx() of the constructor fills buffer 0 and leaves it to be reused last.
Init ==
    /\ SessionInit
    /\ tx = [cur |-> 0, pending |-> FALSE, queue |-> <<1, 0>>]
    /\ rx = [cur |-> 0, pending |-> FALSE, queue |-> <<0, 1>>]
    /\ heard = {1}     \* never filled
    /\ late = FALSE

-----------------------------------------------------------------------------
(* The DMA engine. *)

\* a buffer is completed, the engine goes on with the other
Complete(ch) == [ch EXCEPT !.cur = 1 - @, !.pending = TRUE]

TxComplete ==
    /\ handler = "idle"
    /\ tx' = Complete(tx)
    /\ heard' = heard \cup {tx.cur}
    /\ UNCHANGED <<sessionVars, rx, late>>

RxComplete ==
    /\ handler = "idle"
    /\ rx' = Complete(rx)
    /\ late' = (late \/ rx.pending)
    /\ UNCHANGED <<sessionVars, tx, heard>>

SpuriousTx ==
    /\ handler = "idle" /\ ~tx.pending
    /\ tx' = [tx EXCEPT !.pending = TRUE]
    /\ UNCHANGED <<sessionVars, rx, heard, late>>

-----------------------------------------------------------------------------
(* handle_dma_irq. *)

Rotate(q) == Append(Tail(q), Head(q))

\* fill of the buffer at the head, which goes to the end of the queue
Refill ==
    /\ tx' = [tx EXCEPT !.pending = FALSE, !.queue = Rotate(@)]
    /\ heard' = heard \ {Head(tx.queue)}

MayRefill_Unchecked == tx.pending

\* The buffer at the head is not refilled while the engine reads it.
MayRefill == tx.pending /\ tx.cur # Head(tx.queue)

HandleTx ==
    /\ handler = "idle" /\ (tx.pending \/ rx.pending)
    /\ IF MayRefill /\ PairQueued
       THEN TakePair /\ handler' = "advance"
       ELSE /\ handler' = "rx"
            /\ UNCHANGED <<channel_acquired, sessions, streamVars, opens, wasFull>>
    /\ IF MayRefill
       THEN Refill                  \* with silence if there is no pair
       ELSE tx' = [tx EXCEPT !.pending = FALSE] /\ UNCHANGED heard
    /\ UNCHANGED <<rx, late>>

Advance ==
    /\ handler = "advance" /\ AdvancePosition
    /\ handler' = "rx"
    /\ UNCHANGED dmaVars

\* irq_pending of rx, rx(), and the acknowledgement of the interrupt
HandleRx ==
    /\ handler = "rx"
    /\ IF rx.pending
       THEN /\ rx' = [rx EXCEPT !.pending = FALSE, !.queue = Rotate(@)]
            /\ RecordPacket
       ELSE UNCHANGED <<rx, channel_acquired, sessions, streamVars, opens, wasFull>>
    /\ handler' = "idle"
    /\ UNCHANGED <<tx, heard, late>>

-----------------------------------------------------------------------------

Client ==
    /\ \/ \E n \in Names : Open(n)
       \/ \E c \in Channels : Close(c) \/ StartOrStop(c)
       \/ \E c \in Out : Alloc(c) \/ Submit(c)
       \/ Fetch
    /\ UNCHANGED dmaVars

Engine == TxComplete \/ RxComplete \/ SpuriousTx

Handler == HandleTx \/ Advance \/ HandleRx

Next == Client \/ Engine \/ Handler

\* The engine never stops, the entrypoint handles its interrupts, and it is
\* not late for ever by exactly one period.
Fairness ==
    /\ SF_vars(TxComplete)
    /\ WF_vars(HandleTx) /\ SF_vars(MayRefill /\ HandleTx)
    /\ WF_vars(Advance) /\ WF_vars(HandleRx)

Spec == Init /\ [][Next]_vars /\ Fairness

-----------------------------------------------------------------------------
(* Properties. *)

(* A channel belongs to one session: none is granted while another is open *)
(* and the driver plays or records exactly for the open ones               *)
(* (Root_policy::aquire, the constructor and destructor of sessions).      *)
ChannelExclusive ==
    \A c \in Channels : sessions[c] = IF channel_acquired[c] THEN 1 ELSE 0

(* The two channels are played in step, packet by packet in the order of   *)
(* submission, none twice and none skipped, however far the client of one  *)
(* channel is ahead of the other (play_packet, _advance_position).         *)
TakenInOrder ==
    [][\A c \in Out : taken'[c] > taken[c] => Current(c) = taken[c] + 1]_vars

(* A buffer is refilled only when the engine does not read it and has      *)
(* played what was in it to the end, after late and spurious interrupts    *)
(* too (the check of cur_src in handle_dma_irq, the order of the queue).   *)
PacketsSounded ==
    [][tx'.queue # tx.queue => Head(tx.queue) \in heard \ {tx.cur}]_vars

(* As long as no rx interrupt was lost, a recording handed to the session  *)
(* is complete: it is not the buffer the engine is writing (rx, which has  *)
(* no check like the one for tx).                                          *)
RecordingComplete ==
    [][rx'.queue # rx.queue => late \/ Head(rx.queue) # rx.cur]_vars

(* The driver never touches the buffer that the DMA engine works on.       *)
BuffersExclusive == PacketsSounded /\ RecordingComplete

(* A client that found its queue full while no packet was being taken is   *)
(* woken when there is room again: the driver asks for full before it      *)
(* advances the position (full_left and full_right in _advance_position).  *)
WaiterWoken ==
    \A c \in Out : waiting[c] \in {"idle", "rx"} => Full(c)

PairSubmitted ==
    AudioOutActive /\ \A c \in Out : stream[c].sent > taken[c]

(* What was submitted on both channels is finally played, while both are   *)
(* started, whatever interrupts were late or lost (handle_dma_irq).        *)
PairsPlayed == []<>~PairSubmitted

=============================================================================
