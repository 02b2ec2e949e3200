--------------------------- MODULE AudioDriverProof ---------------------------
(***************************************************************************)
(* Proofs about AudioDriver, for queues of any length and any number of    *)
(* sessions and packets, and about AudioCodec, for all volumes and         *)
(* whatever the registers of the codec contained before.                   *)
(*                                                                         *)
(* The argument: the two buffers of a DMA channel are in its queue, in one *)
(* of two orders.  A buffer at the head that the engine does not use was   *)
(* the last to be completed, hence it has sounded (TxInv); as long as no   *)
(* interrupt was lost, the engine is at the head exactly while no rx       *)
(* interrupt is pending (RxInv).  A client that waits while a packet is    *)
(* being taken was noted as full before (WaitInv).                         *)
(*                                                                         *)
(* The second part is about the order of the packets: the slots of a       *)
(* stream from its position on hold the packets that are submitted and not *)
(* taken, in this order (RingInv).                                         *)
(*                                                                         *)
(* The third part is about the audio codec: a write replaces one field of  *)
(* its register and, where it matters, leaves the other fields alone       *)
(* (ReadBack, Kept).  So each setting determines the fields of its output, *)
(* and the settings after it do not touch them (AllSet).                   *)
(***************************************************************************)
EXTENDS AudioDriver, AudioCodec, SequenceTheorems, TLAPS

Orders   == {q \in Seq(Descr) : Len(q) = 2 /\ q[1] # q[2]}
Dma      == [cur : Descr, pending : BOOLEAN, queue : Orders]
Stream   == [pos : Slots, tail : Slots, slot : [Slots -> Nat], sent : Nat, filling : BOOLEAN]

TypeInv ==
    /\ tx \in Dma /\ rx \in Dma
    /\ late \in BOOLEAN
    /\ channel_acquired \in [Channels -> BOOLEAN]
    /\ sessions \in [Channels -> Nat]
    /\ stream \in [Out -> Stream]
    /\ waiting \in [Out -> {"no", "idle", "advance", "rx"}]
    /\ handler \in {"idle", "advance", "rx"}

TxInv   == Head(tx.queue) # tx.cur => Head(tx.queue) \in heard
RxInv   == ~late => (rx.pending <=> Head(rx.queue) # rx.cur)
WaitInv == handler = "advance" =>
             \A c \in Out : waiting[c] \in {"idle", "rx"} => c \in wasFull

IInv == TypeInv /\ TxInv /\ RxInv /\ WaitInv /\ ChannelExclusive /\ WaiterWoken

-----------------------------------------------------------------------------
(* Queues of two buffers *)

\* Rotating the queue of a channel exchanges its two buffers.
LEMMA RotateOrders ==
    ASSUME NEW q \in Orders
    PROVE  /\ Rotate(q) \in Orders
           /\ Head(q) \in Descr
           /\ Head(Rotate(q)) = 1 - Head(q)
  <1>1. q \in Seq(Descr) /\ Len(q) = 2 /\ q[1] # q[2]
    BY DEF Orders
  <1>2. q[1] \in Descr /\ q[2] \in Descr
    BY <1>1, ElementOfSeq, 1 \in 1 .. Len(q), 2 \in 1 .. Len(q)
  <1>3. Tail(q) \in Seq(Descr) /\ Len(Tail(q)) = 1 /\ Tail(q)[1] = q[2] /\ Head(q) = q[1]
    <2>1. q # << >> /\ Len(q) = 2
      BY <1>1
    <2>2. Len(Tail(q)) = 1
      BY <1>1, <2>1, HeadTailProperties
    <2>3. 1 \in 1 .. Len(Tail(q)) /\ 1 + 1 = 2
      BY <2>2
    <2> QED BY <1>1, <2>1, <2>2, <2>3, HeadTailProperties
  <1>4. /\ Rotate(q) \in Seq(Descr) /\ Len(Rotate(q)) = 2
        /\ Rotate(q)[1] = q[2] /\ Rotate(q)[2] = q[1]
    <2>1. Rotate(q) = Append(Tail(q), q[1])
      BY <1>3 DEF Rotate
    <2>2. \A t \in Seq(Descr), e \in Descr :
             /\ Append(t, e) \in Seq(Descr) /\ Len(Append(t, e)) = Len(t) + 1
             /\ \A i \in 1 .. Len(t) : Append(t, e)[i] = t[i]
             /\ Append(t, e)[Len(t) + 1] = e
      BY AppendProperties
    <2>3. 1 \in 1 .. Len(Tail(q)) /\ 1 + 1 = 2
      BY <1>3
    <2>4. /\ Append(Tail(q), q[1]) \in Seq(Descr) /\ Len(Append(Tail(q), q[1])) = Len(Tail(q)) + 1
          /\ Append(Tail(q), q[1])[1] = Tail(q)[1]
          /\ Append(Tail(q), q[1])[Len(Tail(q)) + 1] = q[1]
      BY <1>2, <1>3, <2>2, <2>3
    <2> QED BY <1>3, <2>1, <2>3, <2>4
  <1>5. Head(Rotate(q)) = q[2]
    BY <1>4
  <1> QED BY <1>1, <1>2, <1>3, <1>4, <1>5 DEF Orders, Descr

\* A slot is followed by a slot, and preceded by one.
LEMMA SuccSlot ==
    ASSUME NEW i \in Slots
    PROVE  Succ(i) \in Slots /\ (i + QueueSize - 1) % QueueSize \in Slots
  BY AudioAssumption DEF Slots, Succ

\* Completing a buffer moves the engine to the other one.
LEMMA CompleteEffect ==
    ASSUME NEW ch \in Dma
    PROVE  /\ Complete(ch) \in Dma
           /\ Complete(ch).cur = 1 - ch.cur
           /\ Complete(ch).pending
           /\ Complete(ch).queue = ch.queue
  <1>1. Complete(ch) = [[ch EXCEPT !.cur = 1 - @] EXCEPT !.pending = TRUE]
    BY DEF Dma, Complete
  <1>2. [ch EXCEPT !.cur = 1 - @] \in Dma
    BY DEF Dma, Descr
  <1>3. Complete(ch) \in Dma
    BY <1>1, <1>2 DEF Dma
  <1> QED BY <1>1, <1>3 DEF Dma

-----------------------------------------------------------------------------

LEMMA InitIInv == Init => IInv
  <1> SUFFICES ASSUME Init PROVE IInv
    OBVIOUS
  <1> USE DEF Init, SessionInit
  <1>1. TypeInv
    <2>1. NewStream \in Stream
      BY AudioAssumption DEF NewStream, Stream, Slots
    <2>2. tx \in Dma /\ rx \in Dma
      BY DEF Dma, Descr, Orders
    <2> QED BY <2>1, <2>2 DEF TypeInv
  <1>2. TxInv /\ RxInv
    <2>1. Head(<<1, 0>>) = 1 /\ Head(<<0, 1>>) = 0
      OBVIOUS
    <2> QED BY <2>1 DEF TxInv, RxInv
  <1>3. WaitInv /\ ChannelExclusive /\ WaiterWoken
    BY DEF WaitInv, ChannelExclusive, WaiterWoken
  <1> QED BY <1>1, <1>2, <1>3 DEF IInv

-----------------------------------------------------------------------------
(* Steps of the clients *)

LEMMA OpenIInv ==
    ASSUME IInv, NEW n \in Names, Open(n), UNCHANGED dmaVars
    PROVE  IInv'
  <1> USE DEF Open, dmaVars
  <1>1. n \in Channels /\ ~channel_acquired[n] /\ handler = "idle"
    BY DEF Granted
  <1>2. NewStream \in Stream
    BY AudioAssumption DEF NewStream, Stream, Slots
  <1>3. /\ stream' \in [Out -> Stream]
        /\ waiting' \in [Out -> {"no", "idle", "advance", "rx"}]
        /\ \A c \in Out : waiting'[c] = "no" \/ (waiting'[c] = waiting[c] /\ stream'[c] = stream[c])
    BY <1>2 DEF ResetStream, IInv, TypeInv
  <1>4. TypeInv'
    BY <1>1, <1>3 DEF IInv, TypeInv
  <1>5. ChannelExclusive'
    BY <1>1 DEF IInv, TypeInv, ChannelExclusive
  <1>6. WaiterWoken'
    BY <1>3 DEF IInv, WaiterWoken, Full
  <1>7. TxInv' /\ RxInv' /\ WaitInv'
    BY <1>1 DEF IInv, TxInv, RxInv, WaitInv
  <1> QED BY <1>4, <1>5, <1>6, <1>7 DEF IInv

LEMMA CloseIInv ==
    ASSUME IInv, NEW ch \in Channels, Close(ch), UNCHANGED dmaVars
    PROVE  IInv'
  <1> USE DEF Close, dmaVars
  <1>1. NewStream \in Stream
    BY AudioAssumption DEF NewStream, Stream, Slots
  <1>2. /\ stream' \in [Out -> Stream]
        /\ waiting' \in [Out -> {"no", "idle", "advance", "rx"}]
        /\ \A c \in Out : waiting'[c] = "no" \/ (waiting'[c] = waiting[c] /\ stream'[c] = stream[c])
    BY <1>1 DEF ResetStream, IInv, TypeInv
  <1>3. sessions[ch] = 1
    BY DEF IInv, ChannelExclusive
  <1>4. TypeInv'
    BY <1>2, <1>3 DEF IInv, TypeInv
  <1>5. ChannelExclusive'
    BY <1>3 DEF IInv, TypeInv, ChannelExclusive
  <1>6. WaiterWoken'
    BY <1>2 DEF IInv, WaiterWoken, Full
  <1>7. TxInv' /\ RxInv' /\ WaitInv'
    BY DEF IInv, TxInv, RxInv, WaitInv
  <1> QED BY <1>4, <1>5, <1>6, <1>7 DEF IInv

LEMMA AllocIInv ==
    ASSUME IInv, NEW ch \in Out, Alloc(ch), UNCHANGED dmaVars
    PROVE  IInv'
  <1> USE DEF Alloc, dmaVars
  <1>1. stream' \in [Out -> Stream]
    <2>1. stream[ch] \in Stream /\ Succ(stream[ch].tail) \in Slots
      BY SuccSlot DEF IInv, TypeInv, Stream
    <2>2. [stream[ch] EXCEPT !.filling = TRUE, !.tail = Succ(@)] \in Stream
      BY <2>1 DEF Stream
    <2> QED BY <2>2 DEF IInv, TypeInv
  <1>2. \A c \in Out \ {ch} : waiting'[c] = waiting[c] /\ stream'[c] = stream[c]
    BY DEF IInv, TypeInv
  <1>3. CASE Full(ch)
    <2>1. waiting' = [waiting EXCEPT ![ch] = handler] /\ stream' = stream
      BY <1>3
    <2>2. TypeInv'
      BY <2>1, <1>1 DEF IInv, TypeInv
    <2>3. WaiterWoken'
      BY <2>1, <1>2, <1>3 DEF IInv, TypeInv, WaiterWoken, Full
    <2>4. WaitInv'
      BY <2>1 DEF IInv, TypeInv, WaitInv
    <2> QED BY <2>2, <2>3, <2>4 DEF IInv, TxInv, RxInv, ChannelExclusive
  <1>4. CASE ~Full(ch)
    <2>1. waiting' = waiting /\ waiting[ch] = "no"
      BY <1>4
    <2>2. TypeInv'
      BY <2>1, <1>1 DEF IInv, TypeInv
    <2>3. WaiterWoken'
      BY <2>1, <1>2 DEF IInv, TypeInv, WaiterWoken, Full
    <2>4. WaitInv'
      BY <2>1 DEF IInv, TypeInv, WaitInv
    <2> QED BY <2>2, <2>3, <2>4 DEF IInv, TxInv, RxInv, ChannelExclusive
  <1> QED BY <1>3, <1>4

LEMMA SubmitIInv ==
    ASSUME IInv, NEW ch \in Out, Submit(ch), UNCHANGED dmaVars
    PROVE  IInv'
  <1> USE DEF Submit, dmaVars
  <1>1. stream' \in [Out -> Stream] /\ \A c \in Out : /\ stream'[c].tail = stream[c].tail
                                                    /\ stream'[c].pos = stream[c].pos
    <2>1. stream[ch] \in Stream
      BY DEF IInv, TypeInv
    <2> DEFINE i == (stream[ch].tail + QueueSize - 1) % QueueSize
               slot == [stream[ch].slot EXCEPT ![i] = stream[ch].sent + 1]
               s == [stream[ch] EXCEPT !.filling = FALSE, !.sent = stream[ch].sent + 1,
                                       !.slot = slot]
    <2>2. slot \in [Slots -> Nat]
      <3>1. stream[ch].slot \in [Slots -> Nat] /\ stream[ch].sent + 1 \in Nat
        BY <2>1 DEF Stream
      <3> QED BY <3>1
    <2> HIDE DEF slot
    <2>5. s \in Stream /\ s.tail = stream[ch].tail /\ s.pos = stream[ch].pos
      <3> DEFINE r == [stream[ch] EXCEPT !.filling = FALSE]
                 t == [r EXCEPT !.sent = stream[ch].sent + 1]
      <3>1. s = [t EXCEPT !.slot = slot]
        BY <2>1 DEF Stream
      <3>2. r \in Stream /\ r.tail = stream[ch].tail /\ r.pos = stream[ch].pos
        BY <2>1 DEF Stream
      <3>3. stream[ch].sent + 1 \in Nat
        BY <2>1 DEF Stream
      <3> HIDE DEF r, s
      <3>4. t \in Stream /\ t.tail = stream[ch].tail /\ t.pos = stream[ch].pos
        BY <3>2, <3>3 DEF Stream
      <3> HIDE DEF t
      <3> QED BY <2>2, <3>1, <3>4 DEF Stream
    <2> USE DEF slot
    <2>3. stream' = [stream EXCEPT ![ch] = s]
      BY <2>1 DEF IInv, TypeInv, Stream
    <2> HIDE DEF s
    <2> QED BY <2>5, <2>3 DEF IInv, TypeInv
  <1>2. TypeInv'
    BY <1>1 DEF IInv, TypeInv
  <1>3. WaiterWoken'
    BY <1>1 DEF IInv, WaiterWoken, Full
  <1> QED BY <1>2, <1>3 DEF IInv, TxInv, RxInv, WaitInv, ChannelExclusive

LEMMA ClientIInv == IInv /\ Client => IInv'
  <1> SUFFICES ASSUME IInv, Client PROVE IInv'
    OBVIOUS
  <1>1. CASE \E n \in Names : Open(n)
    BY <1>1, OpenIInv DEF Client
  <1>2. CASE \E c \in Channels : Close(c)
    BY <1>2, CloseIInv DEF Client
  <1>3. CASE \E c \in Out : Alloc(c)
    BY <1>3, AllocIInv DEF Client
  <1>4. CASE \E c \in Out : Submit(c)
    BY <1>4, SubmitIInv DEF Client
  <1>5. CASE (\E c \in Channels : StartOrStop(c)) \/ Fetch
    <2>1. UNCHANGED <<tx, rx, heard, late, channel_acquired, sessions, stream, waiting, handler, wasFull>>
      BY <1>5 DEF Client, StartOrStop, Fetch, dmaVars
    <2> QED BY <2>1 DEF IInv, TypeInv, TxInv, RxInv, WaitInv, ChannelExclusive, WaiterWoken, Full
  <1> QED BY <1>1, <1>2, <1>3, <1>4, <1>5 DEF Client

-----------------------------------------------------------------------------
(* Steps of the engine *)

LEMMA EngineIInv == IInv /\ Engine => IInv'
  <1> SUFFICES ASSUME IInv, Engine PROVE IInv'
    OBVIOUS
  <1>0. tx \in Dma /\ rx \in Dma /\ late \in BOOLEAN
    BY DEF IInv, TypeInv
  <1>1. UNCHANGED sessionVars
    BY DEF Engine, TxComplete, RxComplete, SpuriousTx
  <1>2. WaitInv' /\ ChannelExclusive' /\ WaiterWoken'
    BY <1>1 DEF sessionVars, streamVars, IInv, WaitInv, ChannelExclusive, WaiterWoken, Full
  <1>3. CASE TxComplete
    <2>1. tx' \in Dma /\ tx'.cur = 1 - tx.cur /\ tx'.queue = tx.queue
      BY <1>0, <1>3, CompleteEffect DEF TxComplete
    <2>2. TypeInv'
      BY <1>1, <1>3, <2>1 DEF TxComplete, sessionVars, streamVars, IInv, TypeInv
    <2>3. TxInv'
      <3>1. Head(tx.queue) \in Descr /\ tx.cur \in Descr
        BY <1>0, RotateOrders DEF Dma
      <3> QED BY <1>3, <2>1, <3>1 DEF TxComplete, IInv, TxInv, Descr
    <2>4. RxInv'
      BY <1>3 DEF TxComplete, IInv, RxInv
    <2> QED BY <1>2, <2>2, <2>3, <2>4 DEF IInv
  <1>4. CASE RxComplete
    <2>1. rx' \in Dma /\ rx'.cur = 1 - rx.cur /\ rx'.queue = rx.queue
      BY <1>0, <1>4, CompleteEffect DEF RxComplete
    <2>2. rx'.pending
      BY <1>0, <1>4, CompleteEffect DEF RxComplete
    <2>3. late' \in BOOLEAN
      BY <1>4 DEF RxComplete
    <2>4. TypeInv'
      BY <1>1, <1>4, <2>1, <2>3 DEF RxComplete, sessionVars, streamVars, IInv, TypeInv
    <2>5. RxInv'
      <3>1. Head(rx.queue) \in Descr /\ rx.cur \in Descr
        BY <1>0, RotateOrders DEF Dma
      <3>2. ~late' => ~late /\ ~rx.pending
        BY <1>4 DEF RxComplete
      <3>3. ~late' => Head(rx.queue) = rx.cur
        BY <3>2 DEF IInv, RxInv
      <3>4. ~late' => Head(rx'.queue) # rx'.cur
        BY <2>1, <3>1, <3>3 DEF Descr
      <3> QED BY <2>2, <3>4 DEF RxInv
    <2>6. TxInv'
      BY <1>4 DEF RxComplete, IInv, TxInv
    <2> QED BY <1>2, <2>4, <2>5, <2>6 DEF IInv
  <1>5. CASE SpuriousTx
    <2>1. tx' \in Dma /\ tx'.cur = tx.cur /\ tx'.queue = tx.queue
      BY <1>0, <1>5 DEF SpuriousTx, Dma
    <2>2. TypeInv'
      BY <1>1, <1>5, <2>1 DEF SpuriousTx, sessionVars, streamVars, IInv, TypeInv
    <2>3. TxInv' /\ RxInv'
      BY <1>5, <2>1 DEF SpuriousTx, IInv, TxInv, RxInv
    <2> QED BY <1>2, <2>2, <2>3 DEF IInv
  <1> QED BY <1>3, <1>4, <1>5 DEF Engine

-----------------------------------------------------------------------------
(* Steps of the interrupt handler *)

\* Taking a pair invalidates two packets and moves no position.
LEMMA TakePairEffect ==
    ASSUME IInv, TakePair
    PROVE  /\ stream' \in [Out -> Stream]
           /\ \A c \in Out : Full(c)' <=> Full(c)
           /\ UNCHANGED <<channel_acquired, sessions, waiting>>
           /\ wasFull' = {c \in Out : Full(c)}
  <1>1. \A c \in Out : /\ stream'[c] \in Stream
                       /\ stream'[c].tail = stream[c].tail
                       /\ stream'[c].pos = stream[c].pos
    <2> SUFFICES ASSUME NEW c \in Out
                 PROVE  /\ stream'[c] \in Stream
                        /\ stream'[c].tail = stream[c].tail
                        /\ stream'[c].pos = stream[c].pos
      OBVIOUS
    <2> DEFINE slot == [stream[c].slot EXCEPT ![stream[c].pos] = 0]
    <2>1. stream[c] \in Stream
      BY DEF IInv, TypeInv
    <2>2. slot \in [Slots -> Nat]
      <3>1. stream[c].slot \in [Slots -> Nat]
        BY <2>1 DEF Stream
      <3> QED BY <3>1
    <2>3. stream'[c] = [stream[c] EXCEPT !.slot = slot]
      BY DEF TakePair
    <2> HIDE DEF slot
    <2> QED BY <2>1, <2>2, <2>3 DEF Stream
  <1>2. stream' = [c \in Out |-> stream'[c]]
    BY DEF TakePair
  <1>3. stream' \in [Out -> Stream]
    BY <1>1, <1>2
  <1>4. \A c \in Out : Full(c)' <=> Full(c)
    BY <1>1 DEF Full
  <1> QED BY <1>3, <1>4 DEF TakePair, notTaken

\* Whether a pair is taken or not, who waits is noted and the queues are as
\* full as before.
LEMMA HandleTxSessions ==
    ASSUME IInv, HandleTx
    PROVE  /\ stream' \in [Out -> Stream]
           /\ \A c \in Out : Full(c)' <=> Full(c)
           /\ UNCHANGED <<channel_acquired, sessions, waiting>>
           /\ handler' \in {"advance", "rx"}
           /\ handler' = "advance" => wasFull' = {c \in Out : Full(c)}
  <1>1. CASE MayRefill /\ PairQueued
    <2>1. TakePair /\ handler' = "advance"
      BY <1>1 DEF HandleTx
    <2> QED BY <2>1, TakePairEffect
  <1>2. CASE ~(MayRefill /\ PairQueued)
    <2>1. handler' = "rx" /\ UNCHANGED <<channel_acquired, sessions, stream, waiting>>
      BY <1>2 DEF HandleTx, streamVars
    <2> QED BY <2>1 DEF IInv, TypeInv, Full
  <1> QED BY <1>1, <1>2

LEMMA HandleTxIInv == IInv /\ HandleTx => IInv'
  <1> SUFFICES ASSUME IInv, HandleTx PROVE IInv'
    OBVIOUS
  <1>0. tx \in Dma /\ Head(tx.queue) \in Descr /\ tx.cur \in Descr
    BY RotateOrders DEF IInv, TypeInv, Dma
  <1>1. UNCHANGED <<rx, late>>
    BY DEF HandleTx
  <1>2. CASE MayRefill
    <2> DEFINE q == Rotate(tx.queue)
    <2>1. tx' = [tx EXCEPT !.pending = FALSE, !.queue = q] /\ heard' = heard \ {Head(tx.queue)}
      BY <1>2 DEF HandleTx, Refill
    <2>2. q \in Orders /\ Head(q) = 1 - Head(tx.queue)
      BY <1>0, RotateOrders DEF Dma
    <2> HIDE DEF q
    <2>3. tx' \in Dma /\ tx'.cur = tx.cur /\ tx'.queue = q
      <3> DEFINE t == [tx EXCEPT !.pending = FALSE]
      <3>1. t \in Dma /\ t.cur = tx.cur
        BY <1>0 DEF Dma
      <3>2. tx' = [t EXCEPT !.queue = q]
        BY <1>0, <2>1 DEF Dma
      <3> HIDE DEF t
      <3> QED BY <2>2, <3>1, <3>2 DEF Dma
    <2>4. tx.cur # Head(tx.queue)
      BY <1>2 DEF MayRefill
    <2>5. Head(tx'.queue) = tx'.cur
      BY <1>0, <2>2, <2>3, <2>4 DEF Descr
    <2> QED BY <2>3, <2>5, <1>1, HandleTxSessions
            DEF IInv, TypeInv, TxInv, RxInv, WaitInv, ChannelExclusive, WaiterWoken
  <1>3. CASE ~MayRefill
    <2>1. tx' = [tx EXCEPT !.pending = FALSE] /\ UNCHANGED heard
      BY <1>3 DEF HandleTx
    <2>2. tx' \in Dma /\ tx'.cur = tx.cur /\ tx'.queue = tx.queue
      BY <1>0, <2>1 DEF Dma
    <2> QED BY <2>1, <2>2, <1>1, HandleTxSessions
            DEF IInv, TypeInv, TxInv, RxInv, WaitInv, ChannelExclusive, WaiterWoken
  <1> QED BY <1>2, <1>3

LEMMA AdvanceIInv == IInv /\ Advance => IInv'
  <1> SUFFICES ASSUME IInv, Advance PROVE IInv'
    OBVIOUS
  <1> USE DEF Advance, AdvancePosition, dmaVars
  <1>1. stream' \in [Out -> Stream]
    <2>1. \A c \in Out : stream'[c] \in Stream
      <3> SUFFICES ASSUME NEW c \in Out PROVE stream'[c] \in Stream
        OBVIOUS
      <3>1. stream[c] \in Stream /\ Succ(stream[c].pos) \in Slots
        BY SuccSlot DEF IInv, TypeInv, Stream
      <3>2. stream'[c] = [stream[c] EXCEPT !.pos = Succ(stream[c].pos)]
        OBVIOUS
      <3> QED BY <3>1, <3>2 DEF Stream
    <2> QED BY <2>1
  <1>2. /\ waiting' \in [Out -> {"no", "idle", "advance", "rx"}]
        /\ \A c \in Out : waiting'[c] \notin {"idle", "rx"}
    BY DEF IInv, TypeInv, WaitInv
  <1>3. TypeInv'
    BY <1>1, <1>2 DEF IInv, TypeInv
  <1> QED BY <1>2, <1>3 DEF IInv, TxInv, RxInv, WaitInv, ChannelExclusive, WaiterWoken

LEMMA HandleRxIInv == IInv /\ HandleRx => IInv'
  <1> SUFFICES ASSUME IInv, HandleRx PROVE IInv'
    OBVIOUS
  <1>0. rx \in Dma /\ Head(rx.queue) \in Descr /\ rx.cur \in Descr
    BY RotateOrders DEF IInv, TypeInv, Dma
  <1>1. /\ UNCHANGED <<tx, heard, late, channel_acquired, sessions, stream, waiting>>
        /\ handler' = "idle"
    BY DEF HandleRx, RecordPacket, streamVars
  <1>2. rx' \in Dma /\ RxInv'
    <2>1. CASE rx.pending
      <3> DEFINE q == Rotate(rx.queue)
                 r == [rx EXCEPT !.pending = FALSE]
      <3>1. q \in Orders /\ Head(q) = 1 - Head(rx.queue)
        BY <1>0, RotateOrders DEF Dma
      <3>2. r \in Dma /\ r.cur = rx.cur
        BY <1>0 DEF Dma
      <3>3. ~r.pending
        BY <1>0 DEF Dma
      <3>4. rx' = [r EXCEPT !.queue = q]
        BY <1>0, <2>1 DEF HandleRx, Dma
      <3> HIDE DEF q, r
      <3>5. rx' \in Dma /\ rx'.cur = rx.cur /\ rx'.queue = q
        BY <3>1, <3>2, <3>4 DEF Dma
      <3>6. ~rx'.pending
        BY <3>2, <3>3, <3>4 DEF Dma
      <3>7. ~late => Head(rx.queue) # rx.cur
        BY <2>1 DEF IInv, RxInv
      <3>8. ~late' => Head(rx'.queue) = rx'.cur
        BY <1>0, <1>1, <3>1, <3>5, <3>7 DEF Descr
      <3>9. RxInv'
        BY <3>6, <3>8 DEF RxInv
      <3> QED BY <3>5, <3>9
    <2>2. CASE ~rx.pending
      <3>1. rx' = rx
        BY <2>2 DEF HandleRx
      <3> QED BY <1>0, <1>1, <3>1 DEF IInv, RxInv
    <2> QED BY <2>1, <2>2
  <1>3. TypeInv'
    BY <1>1, <1>2 DEF IInv, TypeInv
  <1>4. TxInv' /\ WaitInv' /\ ChannelExclusive' /\ WaiterWoken'
    BY <1>1 DEF IInv, TxInv, WaitInv, ChannelExclusive, WaiterWoken, Full
  <1> QED BY <1>2, <1>3, <1>4 DEF IInv

-----------------------------------------------------------------------------

LEMMA NextIInv == IInv /\ [Next]_vars => IInv'
  <1> SUFFICES ASSUME IInv, [Next]_vars PROVE IInv'
    OBVIOUS
  <1>1. CASE UNCHANGED vars
    BY <1>1 DEF vars, sessionVars, streamVars, dmaVars, IInv, TypeInv, TxInv, RxInv, WaitInv,
                ChannelExclusive, WaiterWoken, Full
  <1> QED BY <1>1, ClientIInv, EngineIInv, HandleTxIInv, AdvanceIInv, HandleRxIInv
          DEF Next, Handler

(* The invariant that the following theorems rest on: the order of the two *)
(* DMA channels' buffers, who waits for a packet, and the sessions.        *)
THEOREM InvariantHolds == Spec => []IInv
  BY InitIInv, NextIInv, PTL DEF Spec

(* However sessions are opened and closed, a channel is acquired exactly   *)
(* while it has one session (Root_policy::aquire).                         *)
THEOREM ChannelsExclusive == Spec => []ChannelExclusive
  <1>1. IInv => ChannelExclusive
    BY DEF IInv
  <1> QED BY InvariantHolds, <1>1, PTL

(* A client that found its queue full is woken once there is room, for     *)
(* queues of every length (_advance_position).                             *)
THEOREM WaitersWoken == Spec => []WaiterWoken
  <1>1. IInv => WaiterWoken
    BY DEF IInv
  <1> QED BY InvariantHolds, <1>1, PTL

(* The driver never refills a buffer that has not sounded, and hands out   *)
(* no recording still written while no rx interrupt was lost               *)
(* (handle_dma_irq).                                                       *)
THEOREM BuffersAreExclusive == Spec => BuffersExclusive
  <1>1. IInv /\ [Next]_vars => (tx'.queue # tx.queue => Head(tx.queue) \in heard \ {tx.cur})
    <2> SUFFICES ASSUME IInv, [Next]_vars, tx'.queue # tx.queue
                 PROVE  Head(tx.queue) \in heard \ {tx.cur}
      OBVIOUS
    <2>1. tx \in Dma
      BY DEF IInv, TypeInv
    <2>2. CASE HandleTx
      <3>1. MayRefill
        BY <2>1, <2>2 DEF HandleTx, Dma
      <3> QED BY <3>1 DEF MayRefill, IInv, TxInv
    <2>3. CASE Engine
      BY <2>1, <2>3, CompleteEffect DEF Engine, TxComplete, RxComplete, SpuriousTx, Dma
    <2>4. CASE Client \/ Advance \/ HandleRx \/ UNCHANGED vars
      BY <2>4 DEF Client, Advance, HandleRx, vars, dmaVars
    <2> QED BY <2>2, <2>3, <2>4 DEF Next, Handler
  <1>2. IInv /\ [Next]_vars => (rx'.queue # rx.queue => late \/ Head(rx.queue) # rx.cur)
    <2> SUFFICES ASSUME IInv, [Next]_vars, rx'.queue # rx.queue
                 PROVE  late \/ Head(rx.queue) # rx.cur
      OBVIOUS
    <2>1. rx \in Dma
      BY DEF IInv, TypeInv
    <2>2. CASE HandleRx
      <3>1. rx.pending
        BY <2>2 DEF HandleRx
      <3> QED BY <3>1 DEF IInv, RxInv
    <2>3. CASE Engine
      BY <2>1, <2>3, CompleteEffect DEF Engine, TxComplete, RxComplete, SpuriousTx
    <2>4. CASE Client \/ Advance \/ HandleTx \/ UNCHANGED vars
      BY <2>4 DEF Client, Advance, HandleTx, vars, dmaVars
    <2> QED BY <2>2, <2>3, <2>4 DEF Next, Handler
  <1> QED BY InvariantHolds, <1>1, <1>2, PTL
          DEF Spec, BuffersExclusive, PacketsSounded, RecordingComplete


-----------------------------------------------------------------------------
(* The order of packets                                                    *)
(*                                                                         *)
(* A stream is a ring: from its position on, one packet after the other,   *)
(* those that were submitted and not taken, then the one being filled.     *)
(* While the handler advances, the position is still at the packet that    *)
(* has been taken.                                                         *)

\* The slots from a to b, going round
Dist(a, b) == IF a <= b THEN b - a ELSE b - a + QueueSize

\* The slots at the position of packets that were taken
Behind == IF handler = "advance" THEN 1 ELSE 0

\* The packet in the slot at distance d from the position, if t were taken and b
\* of them are still at the position
PacketAt(s, t, b, d) == IF b <= d /\ d < b + (s.sent - t) THEN t + 1 + (d - b) ELSE 0

Ring(s, t, b) ==
    /\ t \in Nat /\ t <= s.sent
    /\ Dist(s.pos, s.tail) = b + (s.sent - t) + (IF s.filling THEN 1 ELSE 0)
    /\ \A i \in Slots : s.slot[i] = PacketAt(s, t, b, Dist(s.pos, i))

RingInv ==
    /\ \A c \in Out : Ring(stream[c], taken[c], Behind)
    /\ taken \in [Out -> Nat]

\* Going round by one slot
LEMMA SuccIs ==
    ASSUME NEW i \in Slots
    PROVE  /\ Succ(i) = IF i = QueueSize - 1 THEN 0 ELSE i + 1
           /\ (i + QueueSize - 1) % QueueSize = IF i = 0 THEN QueueSize - 1 ELSE i - 1
  <1>1. QueueSize \in Nat /\ QueueSize > 1 /\ i \in Nat /\ i < QueueSize
    BY AudioAssumption DEF Slots
  <1>2. \A k \in 0 .. QueueSize - 1 : k % QueueSize = k /\ (k + QueueSize) % QueueSize = k
    BY <1>1, Z3
  <1>3. CASE i = QueueSize - 1
    BY <1>1, <1>2, <1>3 DEF Succ
  <1>4. CASE i # QueueSize - 1
    BY <1>1, <1>2, <1>4 DEF Succ
  <1>5. (i + QueueSize - 1) % QueueSize = IF i = 0 THEN QueueSize - 1 ELSE i - 1
    <2>1. CASE i = 0
      BY <1>1, <1>2, <2>1
    <2>2. CASE i # 0
      <3>1. i - 1 \in 0 .. QueueSize - 1 /\ i + QueueSize - 1 = (i - 1) + QueueSize
        BY <1>1, <2>2
      <3> QED BY <1>2, <2>2, <3>1
    <2> QED BY <2>1, <2>2
  <1> QED BY <1>3, <1>4, <1>5

\* Distances
LEMMA DistIs ==
    ASSUME NEW p \in Slots, NEW i \in Slots
    PROVE  Dist(p, i) \in Slots /\ Dist(p, i) \in Nat /\ (Dist(p, i) = 0 <=> p = i)
  BY AudioAssumption DEF Slots, Dist

LEMMA DistDiffers ==
    ASSUME NEW p \in Slots, NEW i \in Slots, NEW j \in Slots, Dist(p, i) = Dist(p, j)
    PROVE  i = j
  BY AudioAssumption DEF Slots, Dist

LEMMA DistSucc ==
    ASSUME NEW p \in Slots, NEW i \in Slots, Succ(i) # p
    PROVE  Dist(p, Succ(i)) = Dist(p, i) + 1
  <1>1. Succ(i) = IF i = QueueSize - 1 THEN 0 ELSE i + 1
    BY SuccIs
  <1> QED BY <1>1, AudioAssumption DEF Slots, Dist

LEMMA DistPred ==
    ASSUME NEW p \in Slots, NEW i \in Slots, Dist(p, i) # 0
    PROVE  Dist(p, (i + QueueSize - 1) % QueueSize) = Dist(p, i) - 1
  <1>1. (i + QueueSize - 1) % QueueSize = IF i = 0 THEN QueueSize - 1 ELSE i - 1
    BY SuccIs
  <1> QED BY <1>1, AudioAssumption DEF Slots, Dist

LEMMA DistAdvanced ==
    ASSUME NEW p \in Slots, NEW i \in Slots
    PROVE  Dist(Succ(p), i) = IF i = p THEN QueueSize - 1 ELSE Dist(p, i) - 1
  <1>1. Succ(p) = IF p = QueueSize - 1 THEN 0 ELSE p + 1
    BY SuccIs
  <1> QED BY <1>1, AudioAssumption DEF Slots, Dist

LEMMA RingNew == Ring(NewStream, 0, 0)
  BY AudioAssumption DEF Ring, NewStream, PacketAt, Dist, Slots

\* Allocating a packet extends the ring by the packet being filled.
LEMMA RingAlloc ==
    ASSUME NEW s \in Stream, NEW t, NEW b \in {0, 1}, Ring(s, t, b),
           s.filling = FALSE, Succ(s.tail) # s.pos,
           NEW s2 \in Stream, s2.pos = s.pos, s2.tail = Succ(s.tail), s2.slot = s.slot,
           s2.sent = s.sent, s2.filling = TRUE
    PROVE  Ring(s2, t, b)
  <1>1. s.pos \in Slots /\ s.tail \in Slots /\ s.sent \in Nat
    BY DEF Stream
  <1>2. Dist(s.pos, s2.tail) = Dist(s.pos, s.tail) + 1
    BY <1>1, DistSucc
  <1> QED BY <1>1, <1>2 DEF Ring, PacketAt

\* Submitting puts the next number behind the last one.
LEMMA RingSubmit ==
    ASSUME NEW s \in Stream, NEW t, NEW b \in {0, 1}, Ring(s, t, b), s.filling = TRUE,
           NEW s2 \in Stream, s2.pos = s.pos, s2.tail = s.tail,
           s2.sent = s.sent + 1, s2.filling = FALSE,
           s2.slot = [s.slot EXCEPT ![(s.tail + QueueSize - 1) % QueueSize] = s.sent + 1]
    PROVE  Ring(s2, t, b)
  <1> DEFINE k == (s.tail + QueueSize - 1) % QueueSize
             n == s.sent - t
  <1>1. s.pos \in Slots /\ s.tail \in Slots /\ s.sent \in Nat /\ s.slot \in [Slots -> Nat]
    BY DEF Stream
  <1>2. t \in Nat /\ t <= s.sent /\ Dist(s.pos, s.tail) = b + n + 1
    BY DEF Ring
  <1>3. k \in Slots
    BY <1>1, SuccSlot
  <1>4. Dist(s.pos, k) = b + n
    <2>1. Dist(s.pos, s.tail) # 0
      BY <1>1, <1>2
    <2>2. Dist(s.pos, k) = Dist(s.pos, s.tail) - 1
      BY <1>1, <2>1, DistPred
    <2> HIDE DEF k
    <2> QED BY <1>1, <1>2, <2>2
  <1>5. s2.slot = [s.slot EXCEPT ![k] = s.sent + 1]
    OBVIOUS
  <1> HIDE DEF k
  <1>6. ASSUME NEW i \in Slots PROVE s2.slot[i] = PacketAt(s2, t, b, Dist(s2.pos, i))
    <2>1. CASE i = k
      <3>1. s2.slot[i] = s.sent + 1
        BY <1>1, <1>5, <2>1
      <3> QED BY <1>1, <1>2, <1>4, <2>1, <3>1 DEF PacketAt
    <2>2. CASE i # k
      <3>1. s2.slot[i] = s.slot[i]
        BY <1>1, <1>5, <2>2
      <3>2. Dist(s.pos, i) # b + n /\ Dist(s.pos, i) \in Nat
        BY <1>1, <1>3, <1>4, <2>2, DistIs, DistDiffers
      <3>3. s.slot[i] = PacketAt(s, t, b, Dist(s.pos, i))
        BY DEF Ring
      <3> QED BY <1>1, <1>2, <3>1, <3>2, <3>3 DEF PacketAt
    <2> QED BY <2>1, <2>2
  <1>7. Dist(s2.pos, s2.tail) = b + (s2.sent - t)
    BY <1>1, <1>2
  <1> QED BY <1>1, <1>2, <1>6, <1>7 DEF Ring

\* The packet that is taken has the next number.
LEMMA RingTake ==
    ASSUME NEW s \in Stream, NEW t, Ring(s, t, 0), s.slot[s.pos] # 0,
           NEW s2 \in Stream, s2.pos = s.pos, s2.tail = s.tail, s2.sent = s.sent,
           s2.filling = s.filling, s2.slot = [s.slot EXCEPT ![s.pos] = 0]
    PROVE  Ring(s2, t + 1, 1) /\ s.slot[s.pos] = t + 1
  <1>1. s.pos \in Slots /\ s.tail \in Slots /\ s.sent \in Nat /\ s.slot \in [Slots -> Nat]
    BY DEF Stream
  <1>2. t \in Nat /\ t <= s.sent
    BY DEF Ring
  <1>3. Dist(s.pos, s.pos) = 0
    BY <1>1, DistIs
  <1>4. s.slot[s.pos] = t + 1 /\ t < s.sent
    BY <1>1, <1>2, <1>3 DEF Ring, PacketAt
  <1>5. ASSUME NEW i \in Slots PROVE s2.slot[i] = PacketAt(s2, t + 1, 1, Dist(s2.pos, i))
    <2>1. CASE i = s.pos
      BY <1>1, <1>2, <1>3, <2>1 DEF PacketAt
    <2>2. CASE i # s.pos
      <3>1. s2.slot[i] = s.slot[i]
        BY <1>1, <2>2
      <3>2. Dist(s.pos, i) # 0 /\ Dist(s.pos, i) \in Nat
        BY <1>1, <2>2, DistIs
      <3>3. s.slot[i] = PacketAt(s, t, 0, Dist(s.pos, i))
        BY DEF Ring
      <3> QED BY <1>1, <1>2, <1>4, <3>1, <3>2, <3>3 DEF PacketAt
    <2> QED BY <2>1, <2>2
  <1>6. Dist(s2.pos, s2.tail) = 1 + (s2.sent - (t + 1)) + (IF s2.filling THEN 1 ELSE 0)
    BY <1>1, <1>2 DEF Ring
  <1> QED BY <1>1, <1>2, <1>4, <1>5, <1>6 DEF Ring

\* Advancing leaves the slot of the packet taken.
LEMMA RingAdvance ==
    ASSUME NEW s \in Stream, NEW t, Ring(s, t, 1),
           NEW s2 \in Stream, s2.pos = Succ(s.pos), s2.tail = s.tail, s2.sent = s.sent,
           s2.filling = s.filling, s2.slot = s.slot
    PROVE  Ring(s2, t, 0)
  <1>1. s.pos \in Slots /\ s.tail \in Slots /\ s.sent \in Nat
    BY DEF Stream
  <1>2. t \in Nat /\ t <= s.sent
        /\ Dist(s.pos, s.tail) = 1 + (s.sent - t) + (IF s.filling THEN 1 ELSE 0)
    BY DEF Ring
  <1>3. /\ Dist(s.pos, s.tail) \in Slots /\ s.tail # s.pos
        /\ Dist(s2.pos, s.tail) = Dist(s.pos, s.tail) - 1
    <2>1. Dist(s.pos, s.tail) # 0
      BY <1>1, <1>2
    <2>2. Dist(s.pos, s.tail) \in Slots /\ s.tail # s.pos
      BY <1>1, <2>1, DistIs
    <2> QED BY <1>1, <2>2, DistAdvanced
  <1>4. ASSUME NEW i \in Slots PROVE s2.slot[i] = PacketAt(s2, t, 0, Dist(s2.pos, i))
    <2>1. s.slot[i] = PacketAt(s, t, 1, Dist(s.pos, i))
      BY DEF Ring
    <2>2. CASE i = s.pos
      <3>1. Dist(s.pos, i) = 0 /\ Dist(s2.pos, i) = QueueSize - 1
        BY <1>1, <2>2, DistIs, DistAdvanced
      <3>2. s.sent - t < QueueSize - 1
        BY <1>1, <1>2, <1>3, AudioAssumption DEF Slots
      <3> QED BY <1>1, <1>2, <2>1, <3>1, <3>2, AudioAssumption DEF PacketAt
    <2>3. CASE i # s.pos
      <3>1. Dist(s2.pos, i) = Dist(s.pos, i) - 1 /\ Dist(s.pos, i) \in Nat
        BY <1>1, <2>3, DistIs, DistAdvanced
      <3> QED BY <1>1, <1>2, <2>1, <3>1 DEF PacketAt
    <2> QED BY <2>2, <2>3
  <1> QED BY <1>1, <1>2, <1>3, <1>4 DEF Ring

LEMMA RingInit == Init => RingInv
  BY RingNew DEF Init, SessionInit, RingInv, Behind

\* Steps that leave the streams alone
LEMMA RingSame ==
    ASSUME RingInv, UNCHANGED <<stream, taken>>, Behind' = Behind
    PROVE  RingInv'
  BY DEF RingInv

\* Steps of one stream
LEMMA RingLocal ==
    ASSUME IInv, RingInv, NEW ch \in Out, Behind' = Behind,
           NEW s, NEW t, stream' = [stream EXCEPT ![ch] = s], taken' = [taken EXCEPT ![ch] = t],
           Ring(s, t, Behind), t \in Nat
    PROVE  RingInv'
  <1>1. stream \in [Out -> Stream] /\ taken \in [Out -> Nat]
    BY DEF IInv, TypeInv, RingInv
  <1>2. ASSUME NEW c \in Out PROVE Ring(stream'[c], taken'[c], Behind)
    <2>1. CASE c = ch
      BY <1>1, <2>1
    <2>2. CASE c # ch
      <3>1. stream'[c] = stream[c] /\ taken'[c] = taken[c]
        BY <1>1, <2>2
      <3> QED BY <3>1 DEF RingInv
    <2> QED BY <2>1, <2>2
  <1> QED BY <1>1, <1>2 DEF RingInv

LEMMA RingReset ==
    ASSUME IInv, RingInv, NEW c \in Channels, ResetStream(c), handler = "idle", handler' = handler
    PROVE  RingInv'
  <1>1. Behind' = Behind /\ Behind = 0
    BY DEF Behind
  <1>2. CASE c \in Out
    <2>1. stream' = [stream EXCEPT ![c] = NewStream] /\ taken' = [taken EXCEPT ![c] = 0]
      BY <1>2 DEF ResetStream
    <2> QED BY <1>1, <1>2, <2>1, RingNew, RingLocal
  <1>3. CASE c \notin Out
    BY <1>1, <1>3, RingSame DEF ResetStream
  <1> QED BY <1>2, <1>3

LEMMA RingClient ==
    ASSUME IInv, RingInv, Client
    PROVE  RingInv'
  <1>0. /\ stream \in [Out -> Stream] /\ IInv'
        /\ \A c \in Out : taken[c] \in Nat /\ taken = [taken EXCEPT ![c] = taken[c]]
    BY ClientIInv DEF IInv, TypeInv, RingInv
  <1>1. stream' \in [Out -> Stream]
    BY <1>0 DEF IInv, TypeInv
  <1>2. ASSUME NEW n \in Names, Open(n) PROVE RingInv'
    BY <1>2, RingReset DEF Open, Granted
  <1>3. ASSUME NEW c \in Channels, Close(c) PROVE RingInv'
    BY <1>3, RingReset DEF Close
  <1>4. ASSUME NEW c \in Out, Alloc(c) PROVE RingInv'
    <2>1. UNCHANGED <<taken, handler>> /\ Behind' = Behind
      BY <1>4 DEF Alloc, Behind
    <2>2. CASE Full(c)
      BY <1>4, <2>1, <2>2, RingSame DEF Alloc
    <2>3. CASE ~Full(c)
      <3> DEFINE s == [stream[c] EXCEPT !.filling = TRUE, !.tail = Succ(@)]
      <3>1. /\ stream' = [stream EXCEPT ![c] = s]
            /\ stream[c].filling = FALSE /\ Succ(stream[c].tail) # stream[c].pos
            /\ stream[c] \in Stream
        BY <1>0, <1>4, <2>3 DEF Alloc, Full, Stream
      <3>2. /\ s.pos = stream[c].pos /\ s.tail = Succ(stream[c].tail)
            /\ s.slot = stream[c].slot /\ s.sent = stream[c].sent /\ s.filling = TRUE
        BY <3>1 DEF Stream
      <3> HIDE DEF s
      <3>3. s \in Stream
        BY <1>0, <1>1, <3>1
      <3>4. Ring(stream[c], taken[c], Behind) /\ Behind \in {0, 1}
        BY DEF RingInv, Behind
      <3>5. Ring(s, taken[c], Behind)
        BY <3>1, <3>2, <3>3, <3>4, RingAlloc
      <3> QED BY <1>0, <2>1, <3>1, <3>5, RingLocal
    <2> QED BY <2>2, <2>3
  <1>5. ASSUME NEW c \in Out, Submit(c) PROVE RingInv'
    <2> DEFINE k == (stream[c].tail + QueueSize - 1) % QueueSize
               slot == [stream[c].slot EXCEPT ![k] = stream[c].sent + 1]
               s == [stream[c] EXCEPT !.filling = FALSE, !.sent = stream[c].sent + 1, !.slot = slot]
    <2>1. UNCHANGED <<taken, handler>> /\ Behind' = Behind
      BY <1>5 DEF Submit, Behind
    <2>2. stream[c].filling = TRUE /\ stream[c] \in Stream
      BY <1>0, <1>5 DEF Submit, Stream
    <2>3. stream' = [stream EXCEPT ![c] = s]
      BY <1>0, <1>5 DEF Submit, Stream
    <2> HIDE DEF slot
    <2>4. /\ s.pos = stream[c].pos /\ s.tail = stream[c].tail
          /\ s.slot = slot /\ s.sent = stream[c].sent + 1 /\ s.filling = FALSE
      BY <2>2 DEF Stream
    <2> HIDE DEF s
    <2>5. s \in Stream
      BY <1>0, <1>1, <2>3
    <2>6. Ring(stream[c], taken[c], Behind) /\ Behind \in {0, 1}
      BY DEF RingInv, Behind
    <2>7. Ring(s, taken[c], Behind)
      BY <2>2, <2>4, <2>5, <2>6, RingSubmit DEF slot
    <2> QED BY <1>0, <2>1, <2>3, <2>7, RingLocal
  <1>6. CASE (\E c \in Channels : StartOrStop(c)) \/ Fetch
    <2>1. UNCHANGED <<stream, taken, handler>>
      BY <1>6 DEF StartOrStop, Fetch
    <2> QED BY <2>1, RingSame DEF Behind
  <1> QED BY <1>2, <1>3, <1>4, <1>5, <1>6 DEF Client

\* A pair is taken: on each channel, the packet after the last one taken.
LEMMA RingTakePair ==
    ASSUME IInv, IInv', RingInv, handler = "idle", handler' = "advance", PairQueued, TakePair
    PROVE  RingInv' /\ \A c \in Out : Current(c) = taken[c] + 1
  <1>1. stream \in [Out -> Stream] /\ stream' \in [Out -> Stream] /\ taken \in [Out -> Nat]
    BY DEF IInv, TypeInv, RingInv
  <1>2. Behind = 0 /\ Behind' = 1
    BY DEF Behind
  <1>3. taken' = [c \in Out |-> taken[c] + 1]
    BY DEF TakePair
  <1>4. ASSUME NEW c \in Out
        PROVE  Ring(stream'[c], taken[c] + 1, 1) /\ stream[c].slot[stream[c].pos] = taken[c] + 1
    <2> DEFINE s == stream'[c]
    <2>1. stream[c] \in Stream /\ s \in Stream /\ stream[c].slot[stream[c].pos] # 0
      BY <1>1 DEF PairQueued, Current
    <2>2. s = [stream[c] EXCEPT !.slot[stream[c].pos] = 0]
      BY DEF TakePair
    <2>3. /\ s.pos = stream[c].pos /\ s.tail = stream[c].tail /\ s.sent = stream[c].sent
          /\ s.filling = stream[c].filling
          /\ s.slot = [stream[c].slot EXCEPT ![stream[c].pos] = 0]
      BY <2>1, <2>2 DEF Stream
    <2>4. Ring(stream[c], taken[c], 0)
      BY <1>2 DEF RingInv
    <2> HIDE DEF s
    <2>5. Ring(s, taken[c] + 1, 1)
      BY <2>1, <2>3, <2>4, RingTake
    <2>6. stream[c].slot[stream[c].pos] = taken[c] + 1
      BY <2>1, <2>3, <2>4, RingTake
    <2> QED BY <2>5, <2>6 DEF s
  <1>5. RingInv'
    BY <1>1, <1>2, <1>3, <1>4 DEF RingInv
  <1> QED BY <1>4, <1>5 DEF Current

LEMMA RingHandler ==
    ASSUME IInv, RingInv, Handler
    PROVE  RingInv'
  <1>0. IInv'
    BY HandleTxIInv, AdvanceIInv, HandleRxIInv DEF Handler
  <1>1. CASE HandleTx
    <2>1. CASE MayRefill /\ PairQueued
      BY <1>0, <1>1, <2>1, RingTakePair DEF HandleTx
    <2>2. CASE ~(MayRefill /\ PairQueued)
      <3>1. UNCHANGED <<stream, taken>> /\ handler = "idle" /\ handler' = "rx"
        BY <1>1, <2>2 DEF HandleTx, streamVars
      <3> QED BY <3>1, RingSame DEF Behind
    <2> QED BY <2>1, <2>2
  <1>2. CASE Advance
    <2>1. stream \in [Out -> Stream] /\ stream' \in [Out -> Stream] /\ taken' = taken
      BY <1>0, <1>2 DEF Advance, AdvancePosition, IInv, TypeInv
    <2>2. Behind = 1 /\ Behind' = 0
      BY <1>2 DEF Advance, Behind
    <2>3. ASSUME NEW c \in Out PROVE Ring(stream'[c], taken[c], 0)
      <3> DEFINE s == stream'[c]
      <3>1. stream[c] \in Stream /\ s \in Stream
        BY <2>1
      <3>2. s = [stream[c] EXCEPT !.pos = Succ(stream[c].pos)]
        BY <1>2 DEF Advance, AdvancePosition
      <3>3. /\ s.pos = Succ(stream[c].pos) /\ s.tail = stream[c].tail /\ s.sent = stream[c].sent
            /\ s.filling = stream[c].filling /\ s.slot = stream[c].slot
        BY <3>1, <3>2 DEF Stream
      <3>4. Ring(stream[c], taken[c], 1)
        BY <2>2 DEF RingInv
      <3> HIDE DEF s
      <3>5. Ring(s, taken[c], 0)
        BY <3>1, <3>3, <3>4, RingAdvance
      <3> QED BY <3>5 DEF s
    <2> QED BY <2>1, <2>2, <2>3 DEF RingInv
  <1>3. CASE HandleRx
    <2>1. UNCHANGED <<stream, taken>> /\ handler = "rx" /\ handler' = "idle"
      BY <1>3 DEF HandleRx, RecordPacket, streamVars
    <2> QED BY <2>1, RingSame DEF Behind
  <1> QED BY <1>1, <1>2, <1>3 DEF Handler

LEMMA RingNext == IInv /\ RingInv /\ [Next]_vars => RingInv'
  <1> SUFFICES ASSUME IInv, RingInv, [Next]_vars PROVE RingInv'
    OBVIOUS
  <1>1. CASE Client
    BY <1>1, RingClient
  <1>2. CASE Handler
    BY <1>2, RingHandler
  <1>3. CASE Engine \/ UNCHANGED vars
    <2>1. UNCHANGED <<stream, taken, handler>>
      BY <1>3 DEF Engine, TxComplete, RxComplete, SpuriousTx, vars, sessionVars, streamVars
    <2> QED BY <2>1, RingSame DEF Behind
  <1> QED BY <1>1, <1>2, <1>3 DEF Next

(* Packets are played in the order of submission, none twice and none      *)
(* skipped, for queues of every length and any number of packets           *)
(* (play_packet, _advance_position).                                       *)
THEOREM TakesInOrder == Spec => TakenInOrder
  <1>1. Init => RingInv
    BY RingInit
  <1>2. IInv /\ RingInv /\ [Next]_vars =>
          (\A c \in Out : taken'[c] > taken[c] => Current(c) = taken[c] + 1)
    <2> SUFFICES ASSUME IInv, RingInv, [Next]_vars, NEW c \in Out, taken'[c] > taken[c]
                 PROVE  Current(c) = taken[c] + 1
      OBVIOUS
    <2>1. taken \in [Out -> Nat]
      BY DEF RingInv
    <2>2. taken'[c] # taken[c] /\ taken'[c] # 0
      BY <2>1
    <2>3. HandleTx /\ MayRefill /\ PairQueued
      <3>1. ~Client
        BY <2>1, <2>2 DEF Client, Open, Close, ResetStream, StartOrStop, Alloc, Submit, Fetch
      <3>2. ~Engine /\ ~UNCHANGED vars
        BY <2>2 DEF Engine, TxComplete, RxComplete, SpuriousTx, vars, sessionVars, streamVars
      <3>3. ~Advance /\ ~HandleRx
        BY <2>2 DEF Advance, AdvancePosition, HandleRx, RecordPacket, streamVars
      <3>4. HandleTx
        BY <3>1, <3>2, <3>3 DEF Next, Handler
      <3> QED BY <2>2, <3>4 DEF HandleTx, streamVars
    <2>4. TakePair /\ handler = "idle" /\ handler' = "advance"
      BY <2>3 DEF HandleTx
    <2>5. IInv'
      BY <2>3, HandleTxIInv
    <2> QED BY <2>3, <2>4, <2>5, RingTakePair
  <1> QED BY <1>1, <1>2, RingNext, InvariantHolds, PTL DEF Spec, TakenInOrder

-----------------------------------------------------------------------------
(* The audio codec: fields of the registers *)

\* The fields that settings write
Fields ==
    {"HpVolume", "HpEnable", "MuteLeft", "MuteRight", "EarSource", "EarEnable", "EarMuteOff",
     "EarVolume", "LineRight", "LineLeft", "LineEnable", "LineVolume", "MicBoost", "MicAmp",
     "MicGain", "HpMute", "MixerEnable", "DacEnable", "AdcMicLeft", "AdcMicRight", "AdcLeft",
     "AdcRight", "MasterMic"}

\* The weights and sizes of the fields
IsShape(w, s) ==
    \/ w = 1   /\ s \in {4, 8, 32, 64}
    \/ w = 2   /\ s = 2
    \/ w = 4   /\ s = 4
    \/ w = 8   /\ s = 2
    \/ w = 16  /\ s \in {2, 4, 8}
    \/ w = 32  /\ s = 2
    \/ w = 64  /\ s \in {2, 4}
    \/ w = 128 /\ s = 2

\* Every field lies within the eight bits of a register of the codec.
LEMMA FieldShapes ==
    ASSUME NEW f \in Fields
    PROVE  /\ Field[f][1] \in 0 .. 14
           /\ IsShape(Field[f][2], Field[f][3])
BY DEF Fields, Field, IsShape

\* Replacing the bits of a field within a byte
Replaced(n, w, s, u) == n + (u - ((n \div w) % s)) * w
HasBits(n, w, s, u)  == n \in 0 .. 255 /\ (n \div w) % s = u

\* A read-modify-write of a field yields a byte whose field has the value written.
LEMMA BitsReplaced ==
    ASSUME NEW n \in 0 .. 255, NEW w, NEW s, IsShape(w, s), NEW u \in 0 .. s - 1
    PROVE  HasBits(Replaced(n, w, s, u), w, s, u)
<1>1. CASE w = 1 /\ s = 4
      BY <1>1 DEF Replaced, HasBits
<1>2. CASE w = 1 /\ s = 8
      BY <1>2 DEF Replaced, HasBits
<1>3. CASE w = 1 /\ s = 32
      BY <1>3 DEF Replaced, HasBits
<1>4. CASE w = 1 /\ s = 64
      BY <1>4 DEF Replaced, HasBits
<1>5. CASE w = 2 /\ s = 2
      BY <1>5 DEF Replaced, HasBits
<1>6. CASE w = 4 /\ s = 4
      BY <1>6 DEF Replaced, HasBits
<1>7. CASE w = 8 /\ s = 2
      BY <1>7 DEF Replaced, HasBits
<1>8. CASE w = 16 /\ s = 2
      BY <1>8 DEF Replaced, HasBits
<1>9. CASE w = 16 /\ s = 4
      BY <1>9 DEF Replaced, HasBits
<1>10. CASE w = 16 /\ s = 8
      BY <1>10 DEF Replaced, HasBits
<1>11. CASE w = 32 /\ s = 2
      BY <1>11 DEF Replaced, HasBits
<1>12. CASE w = 64 /\ s = 2
      BY <1>12 DEF Replaced, HasBits
<1>13. CASE w = 64 /\ s = 4
      BY <1>13 DEF Replaced, HasBits
<1>14. CASE w = 128 /\ s = 2
      BY <1>14 DEF Replaced, HasBits
<1>   QED BY <1>1, <1>2, <1>3, <1>4, <1>5, <1>6, <1>7, <1>8, <1>9, <1>10, <1>11, <1>12, <1>13,
             <1>14 DEF IsShape

\* What a write leaves in the field are the bits of the value that fit into it.
LEMMA PutIs ==
    ASSUME NEW f \in Fields, NEW n \in 0 .. 255, NEW v \in Nat
    PROVE  Put(n, f, v) \in 0 .. 255 /\ Bits(Put(n, f, v), f) = v % Field[f][3]
<1>   DEFINE w == Field[f][2]
             s == Field[f][3]
             u == v % s
<1>0. n \in 0 .. 255
      OBVIOUS
<1>1. IsShape(w, s)
      BY FieldShapes
<1>2. s \in Nat \ {0}
  <2>   HIDE DEF w, s
  <2>   QED BY <1>1 DEF IsShape
<1>3. u \in 0 .. s - 1
  <2>   HIDE DEF s
  <2>   QED BY <1>2
<1>4. Put(n, f, v) = Replaced(n, w, s, u)
      BY DEF Put, Bits, Replaced
<1>5. Bits(Put(n, f, v), f) = (Put(n, f, v) \div w) % s
      BY DEF Bits
<1>6. Field[f][3] = s /\ v % Field[f][3] = u
      OBVIOUS
<1>   HIDE DEF w, s, u
<1>7. HasBits(Replaced(n, w, s, u), w, s, u)
      BY <1>0, <1>1, <1>3, BitsReplaced, Zenon
<1>   QED BY <1>4, <1>5, <1>6, <1>7 DEF HasBits

\* A field and its register
In(f, i) == f \in Fields /\ Field[f][1] = i

\* The registers after the write of a field in register i
Wrote(reg, f, v, i, r) ==
    /\ r \in Registers
    /\ r[i] = Put(reg[i], f, v)
    /\ \A j \in 0 .. 14 : j # i => r[j] = reg[j]

\* A write changes one register (Analog_mmio::write).
LEMMA WriteIs ==
    ASSUME NEW reg \in Registers, NEW f, NEW i, In(f, i), NEW v \in Nat
    PROVE  Wrote(reg, f, v, i, reg ++ <<f, v>>)
<1>1. i \in 0 .. 14 /\ reg[i] \in 0 .. 255
      BY FieldShapes DEF In, Registers
<1>2. reg ++ <<f, v>> = [reg EXCEPT ![i] = Put(reg[i], f, v)]
      BY DEF ++, In
<1>3. Put(reg[i], f, v) \in 0 .. 255
      BY <1>1, PutIs DEF In
<1>   DEFINE r == reg ++ <<f, v>>
<1>   HIDE DEF r
<1>4. r = [reg EXCEPT ![i] = Put(reg[i], f, v)]
      BY <1>2 DEF r
<1>5. Wrote(reg, f, v, i, r)
      BY <1>1, <1>3, <1>4 DEF Registers, Wrote
<1>   QED BY <1>5 DEF r

\* The registers of the fields.
LEMMA RegisterOf ==
    /\ In("HpVolume", 0) /\ In("HpEnable", 0) /\ In("MuteLeft", 1)
    /\ In("MuteRight", 2) /\ In("EarSource", 3) /\ In("EarEnable", 4)
    /\ In("EarMuteOff", 4) /\ In("EarVolume", 4) /\ In("LineRight", 5)
    /\ In("LineLeft", 5) /\ In("LineEnable", 5) /\ In("LineVolume", 6)
    /\ In("MicBoost", 7) /\ In("MicAmp", 7) /\ In("MicGain", 7)
    /\ In("HpMute", 10) /\ In("MixerEnable", 10) /\ In("DacEnable", 10)
    /\ In("AdcMicLeft", 11) /\ In("AdcMicRight", 12) /\ In("AdcLeft", 13)
    /\ In("AdcRight", 13) /\ In("MasterMic", 14)
BY DEF In, Fields, Field

\* What fits into a field is read back
Fits(f, v) == v \in 0 .. Field[f][3] - 1

\* What the settings write fits into the fields.
LEMMA FitsFacts ==
    /\ \A v \in 0 .. 1 :
       /\ Fits("HpEnable", v) /\ Fits("MuteLeft", v) /\ Fits("MuteRight", v)
       /\ Fits("EarEnable", v) /\ Fits("EarMuteOff", v) /\ Fits("LineRight", v)
       /\ Fits("LineLeft", v) /\ Fits("MicAmp", v) /\ Fits("AdcMicLeft", v)
       /\ Fits("AdcMicRight", v) /\ Fits("AdcLeft", v) /\ Fits("AdcRight", v)
       /\ Fits("MasterMic", v)
    /\ \A v \in 0 .. 3 :
       /\ Fits("EarSource", v) /\ Fits("LineEnable", v) /\ Fits("HpMute", v)
       /\ Fits("MixerEnable", v) /\ Fits("DacEnable", v)
    /\ \A v \in 0 .. 31 : Fits("EarVolume", v) /\ Fits("LineVolume", v)
BY DEF Fits, Field

\* A field that was just written has the value written.
LEMMA ReadBack ==
    ASSUME NEW reg \in Registers, NEW f, NEW v, NEW i, NEW r,
           Wrote(reg, f, v, i, r), In(f, i), Fits(f, v)
    PROVE  Bits(r[i], f) = v
<1>   DEFINE s == Field[f][3]
<1>1. f \in Fields /\ i \in 0 .. 14 /\ reg[i] \in 0 .. 255 /\ IsShape(Field[f][2], s)
      BY FieldShapes DEF In, Registers
<1>2. v \in 0 .. s - 1
      BY DEF Fits
<1>3. Field[f][3] = s
      OBVIOUS
<1>   HIDE DEF s
<1>4. s \in Nat /\ v \in Nat /\ v % s = v
      BY <1>1, <1>2 DEF IsShape
<1>5. Bits(Put(reg[i], f, v), f) = v % Field[f][3]
      BY <1>1, <1>4, PutIs
<1>6. r[i] = Put(reg[i], f, v)
      BY DEF Wrote
<1>   QED BY <1>3, <1>4, <1>5, <1>6

\* A write to field f leaves field g of the same register alone
Apart(f, g) == \A n \in 0 .. 255 : \A v \in Nat : Bits(Put(n, f, v), g) = Bits(n, g)

\* Fields that share a register and are read by the property do not overlap; the
\* headphone volume and its enable bit do, and are missing here.
LEMMA ApartFacts ==
    /\ Apart("EarMuteOff", "EarEnable") /\ Apart("EarVolume", "EarEnable")
    /\ Apart("EarVolume", "EarMuteOff") /\ Apart("LineLeft", "LineRight")
    /\ Apart("LineEnable", "LineRight") /\ Apart("LineEnable", "LineLeft")
    /\ Apart("MicBoost", "MicAmp") /\ Apart("MicGain", "MicAmp")
    /\ Apart("DacEnable", "HpMute") /\ Apart("MixerEnable", "HpMute")
    /\ Apart("MixerEnable", "DacEnable") /\ Apart("AdcRight", "AdcLeft")
<1>1. Apart("EarMuteOff", "EarEnable")
      BY DEF Apart, Put, Bits, Field
<1>2. Apart("EarVolume", "EarEnable")
      BY DEF Apart, Put, Bits, Field
<1>3. Apart("EarVolume", "EarMuteOff")
      BY DEF Apart, Put, Bits, Field
<1>4. Apart("LineLeft", "LineRight")
      BY DEF Apart, Put, Bits, Field
<1>5. Apart("LineEnable", "LineRight")
      BY DEF Apart, Put, Bits, Field
<1>6. Apart("LineEnable", "LineLeft")
      BY DEF Apart, Put, Bits, Field
<1>7. Apart("MicBoost", "MicAmp")
      BY DEF Apart, Put, Bits, Field
<1>8. Apart("MicGain", "MicAmp")
      BY DEF Apart, Put, Bits, Field
<1>9. Apart("DacEnable", "HpMute")
      BY DEF Apart, Put, Bits, Field
<1>10. Apart("MixerEnable", "HpMute")
      BY DEF Apart, Put, Bits, Field
<1>11. Apart("MixerEnable", "DacEnable")
      BY DEF Apart, Put, Bits, Field
<1>12. Apart("AdcRight", "AdcLeft")
      BY DEF Apart, Put, Bits, Field
<1>   QED BY <1>1, <1>2, <1>3, <1>4, <1>5, <1>6, <1>7, <1>8, <1>9, <1>10, <1>11, <1>12

\* A write keeps the other fields of the register.
LEMMA Kept ==
    ASSUME NEW reg \in Registers, NEW f, NEW g, NEW v \in Nat, NEW i \in 0 .. 14, NEW r,
           Wrote(reg, f, v, i, r), Apart(f, g)
    PROVE  Bits(r[i], g) = Bits(reg[i], g)
<1>1. reg[i] \in 0 .. 255 /\ r[i] = Put(reg[i], f, v)
      BY DEF Registers, Wrote
<1>2. Bits(Put(reg[i], f, v), g) = Bits(reg[i], g)
      BY <1>1 DEF Apart
<1>   QED BY <1>1, <1>2

\* The enable bit of the headphone is the highest bit of its volume: an enabled
\* headphone is never muted by its volume.
LEMMA EnabledIsLoud ==
    ASSUME NEW n \in 0 .. 255, Bits(n, "HpEnable") = 1
    PROVE  Bits(n, "HpVolume") > 0
BY DEF Bits, Field

\* The volumes fit into their fields; from 7 per cent on none of 31 steps mutes.
LEMMA VolumeIs ==
    ASSUME NEW v \in Nat
    PROVE  /\ _volume(v, 7) \in Nat /\ _volume(v, 63) \in Nat /\ _volume(v, 31) \in 0 .. 31
           /\ _volume(v, 31) > 1 <=> v >= 7
BY DEF _volume

\* What an output needs besides the common converter
EarpieceOn(reg) ==
    /\ Bits(reg[3], "EarSource") = 1 /\ Bits(reg[4], "EarEnable") = 1
    /\ Bits(reg[4], "EarMuteOff") = 1 /\ Bits(reg[4], "EarVolume") > 1

SpeakerOn(reg) ==
    /\ Bits(reg[5], "LineEnable") = 3 /\ Bits(reg[5], "LineLeft") = 1
    /\ Bits(reg[5], "LineRight") = 1 /\ Bits(reg[1], "MuteLeft") = 1
    /\ Bits(reg[2], "MuteRight") = 1 /\ Bits(reg[6], "LineVolume") > 1

HeadphoneOn(reg) ==
    /\ Bits(reg[0], "HpEnable") = 1 /\ Bits(reg[10], "HpMute") = 3
    /\ Bits(reg[0], "HpVolume") > 0

MicOn(reg) ==
    /\ Bits(reg[7], "MicAmp") = 1 /\ Bits(reg[11], "AdcMicLeft") = 1
    /\ Bits(reg[12], "AdcMicRight") = 1 /\ Bits(reg[13], "AdcLeft") = 1
    /\ Bits(reg[13], "AdcRight") = 1 /\ Bits(reg[14], "MasterMic") = 1

\* Analog::earpiece_enabled, whatever the registers contained: the earpiece is on
\* if its volume is heard, and only its registers change.
LEMMA EarpieceSet ==
    ASSUME NEW reg \in Registers, NEW v \in Nat
    PROVE  LET r == EarpieceEnabled(reg, v)
           IN  /\ r \in Registers
               /\ \A i \in (0 .. 14) \ {3, 4} : r[i] = reg[i]
               /\ EarpieceOn(r) <=> v >= 7
<1>   DEFINE on == If(v # 0, 1)
             r1 == reg ++ <<"EarSource", 1>>
             r2 == r1 ++ <<"EarEnable", on>>
             r3 == r2 ++ <<"EarMuteOff", on>>
             r4 == r3 ++ <<"EarVolume", _volume(v, 31)>>
<1>1. EarpieceEnabled(reg, v) = r4 /\ on \in 0 .. 1 /\ (v # 0 <=> on = 1)
      BY DEF EarpieceEnabled, If
<1>2. _volume(v, 31) \in 0 .. 31 /\ (_volume(v, 31) > 1 <=> v >= 7)
      BY VolumeIs
<1>   HIDE DEF on
<1>3. 1 \in Nat /\ _volume(v, 31) \in Nat /\ on \in Nat
      BY <1>1, <1>2
<1>4. Wrote(reg, "EarSource", 1, 3, r1)
      BY <1>3, WriteIs, RegisterOf
<1>   HIDE DEF r1
<1>5. Wrote(r1, "EarEnable", on, 4, r2)
      BY <1>4, <1>3, WriteIs, RegisterOf DEF Wrote
<1>   HIDE DEF r2
<1>6. Wrote(r2, "EarMuteOff", on, 4, r3)
      BY <1>5, <1>3, WriteIs, RegisterOf DEF Wrote
<1>   HIDE DEF r3
<1>7. Wrote(r3, "EarVolume", _volume(v, 31), 4, r4)
      BY <1>6, <1>3, WriteIs, RegisterOf DEF Wrote
<1>   HIDE DEF r4
<1>8. r1 \in Registers /\ r2 \in Registers /\ r3 \in Registers /\ r4 \in Registers
      BY <1>4, <1>5, <1>6, <1>7 DEF Wrote
<1>9. Bits(r4[3], "EarSource") = 1
  <2>1. Bits(r1[3], "EarSource") = 1
        BY <1>1, <1>2, <1>4, <1>8, ReadBack, RegisterOf, FitsFacts
  <2>   QED BY <2>1, <1>5, <1>6, <1>7 DEF Wrote
<1>10. Bits(r4[4], "EarEnable") = on
  <2>1. Bits(r2[4], "EarEnable") = on
        BY <1>1, <1>2, <1>5, <1>8, ReadBack, RegisterOf, FitsFacts
  <2>2. Bits(r3[4], "EarEnable") = Bits(r2[4], "EarEnable")
        BY <1>3, <1>6, <1>8, Kept, ApartFacts
  <2>3. Bits(r4[4], "EarEnable") = Bits(r3[4], "EarEnable")
        BY <1>3, <1>7, <1>8, Kept, ApartFacts
  <2>   QED BY <2>1, <2>2, <2>3
<1>11. Bits(r4[4], "EarMuteOff") = on
  <2>1. Bits(r3[4], "EarMuteOff") = on
        BY <1>1, <1>2, <1>6, <1>8, ReadBack, RegisterOf, FitsFacts
  <2>2. Bits(r4[4], "EarMuteOff") = Bits(r3[4], "EarMuteOff")
        BY <1>3, <1>7, <1>8, Kept, ApartFacts
  <2>   QED BY <2>1, <2>2
<1>12. Bits(r4[4], "EarVolume") = _volume(v, 31)
  <2>1. Bits(r4[4], "EarVolume") = _volume(v, 31)
        BY <1>1, <1>2, <1>7, <1>8, ReadBack, RegisterOf, FitsFacts
  <2>   QED BY <2>1
<1>13. \A i \in (0 .. 14) \ {3, 4} : r4[i] = reg[i]
      BY <1>4, <1>5, <1>6, <1>7 DEF Wrote
<1>   QED BY <1>1, <1>2, <1>9, <1>10, <1>11, <1>12, <1>8, <1>13 DEF EarpieceOn

\* The same for Analog::speaker_enabled.
LEMMA SpeakerSet ==
    ASSUME NEW reg \in Registers, NEW v \in Nat
    PROVE  LET r == SpeakerEnabled(reg, v)
           IN  /\ r \in Registers
               /\ \A i \in (0 .. 14) \ {1, 2, 5, 6} : r[i] = reg[i]
               /\ SpeakerOn(r) <=> v >= 7
<1>   DEFINE on == If(v # 0, 1)
             r1 == reg ++ <<"LineVolume", _volume(v, 31)>>
             r2 == r1 ++ <<"LineRight", 1>>
             r3 == r2 ++ <<"LineLeft", 1>>
             r4 == r3 ++ <<"LineEnable", 3 * on>>
             r5 == r4 ++ <<"MuteLeft", on>>
             r6 == r5 ++ <<"MuteRight", on>>
<1>1. SpeakerEnabled(reg, v) = r6 /\ on \in 0 .. 1 /\ (v # 0 <=> on = 1) /\ 3 * on \in 0 .. 3
      BY DEF SpeakerEnabled, If
<1>2. _volume(v, 31) \in 0 .. 31 /\ (_volume(v, 31) > 1 <=> v >= 7)
      BY VolumeIs
<1>   HIDE DEF on
<1>3. 1 \in Nat /\ 3 * on \in Nat /\ _volume(v, 31) \in Nat /\ on \in Nat
      BY <1>1, <1>2
<1>4. Wrote(reg, "LineVolume", _volume(v, 31), 6, r1)
      BY <1>3, WriteIs, RegisterOf
<1>   HIDE DEF r1
<1>5. Wrote(r1, "LineRight", 1, 5, r2)
      BY <1>4, <1>3, WriteIs, RegisterOf DEF Wrote
<1>   HIDE DEF r2
<1>6. Wrote(r2, "LineLeft", 1, 5, r3)
      BY <1>5, <1>3, WriteIs, RegisterOf DEF Wrote
<1>   HIDE DEF r3
<1>7. Wrote(r3, "LineEnable", 3 * on, 5, r4)
      BY <1>6, <1>3, WriteIs, RegisterOf DEF Wrote
<1>   HIDE DEF r4
<1>8. Wrote(r4, "MuteLeft", on, 1, r5)
      BY <1>7, <1>3, WriteIs, RegisterOf DEF Wrote
<1>   HIDE DEF r5
<1>9. Wrote(r5, "MuteRight", on, 2, r6)
      BY <1>8, <1>3, WriteIs, RegisterOf DEF Wrote
<1>   HIDE DEF r6
<1>10. \A r \in {r1, r2, r3, r4, r5, r6} : r \in Registers
      BY <1>4, <1>5, <1>6, <1>7, <1>8, <1>9 DEF Wrote
<1>11. Bits(r6[6], "LineVolume") = _volume(v, 31)
  <2>1. Bits(r1[6], "LineVolume") = _volume(v, 31)
        BY <1>1, <1>2, <1>4, <1>10, ReadBack, RegisterOf, FitsFacts
  <2>   QED BY <2>1, <1>5, <1>6, <1>7, <1>8, <1>9 DEF Wrote
<1>12. Bits(r6[5], "LineRight") = 1
  <2>1. Bits(r2[5], "LineRight") = 1
        BY <1>1, <1>2, <1>5, <1>10, ReadBack, RegisterOf, FitsFacts
  <2>2. Bits(r3[5], "LineRight") = Bits(r2[5], "LineRight")
        BY <1>3, <1>6, <1>10, Kept, ApartFacts
  <2>3. Bits(r4[5], "LineRight") = Bits(r3[5], "LineRight")
        BY <1>3, <1>7, <1>10, Kept, ApartFacts
  <2>   QED BY <2>1, <2>2, <2>3, <1>8, <1>9 DEF Wrote
<1>13. Bits(r6[5], "LineLeft") = 1
  <2>1. Bits(r3[5], "LineLeft") = 1
        BY <1>1, <1>2, <1>6, <1>10, ReadBack, RegisterOf, FitsFacts
  <2>2. Bits(r4[5], "LineLeft") = Bits(r3[5], "LineLeft")
        BY <1>3, <1>7, <1>10, Kept, ApartFacts
  <2>   QED BY <2>1, <2>2, <1>8, <1>9 DEF Wrote
<1>14. Bits(r6[5], "LineEnable") = 3 * on
  <2>1. Bits(r4[5], "LineEnable") = 3 * on
        BY <1>1, <1>2, <1>7, <1>10, ReadBack, RegisterOf, FitsFacts
  <2>   QED BY <2>1, <1>8, <1>9 DEF Wrote
<1>15. Bits(r6[1], "MuteLeft") = on
  <2>1. Bits(r5[1], "MuteLeft") = on
        BY <1>1, <1>2, <1>8, <1>10, ReadBack, RegisterOf, FitsFacts
  <2>   QED BY <2>1, <1>9 DEF Wrote
<1>16. Bits(r6[2], "MuteRight") = on
  <2>1. Bits(r6[2], "MuteRight") = on
        BY <1>1, <1>2, <1>9, <1>10, ReadBack, RegisterOf, FitsFacts
  <2>   QED BY <2>1
<1>17. \A i \in (0 .. 14) \ {1, 2, 5, 6} : r6[i] = reg[i]
      BY <1>4, <1>5, <1>6, <1>7, <1>8, <1>9 DEF Wrote
<1>   QED BY <1>1, <1>2, <1>11, <1>12, <1>13, <1>14, <1>15, <1>16, <1>10, <1>17 DEF SpeakerOn

\* The same for Analog::headphone_enabled; the volume is written before the enable bit.
LEMMA HeadphoneSet ==
    ASSUME NEW reg \in Registers, NEW v \in Nat
    PROVE  LET r == HeadphoneEnabled(reg, v)
           IN  /\ r \in Registers
               /\ \A i \in (0 .. 14) \ {0, 10} : r[i] = reg[i]
               /\ HeadphoneOn(r) <=> v >= 1
<1>   DEFINE on == If(v # 0, 1)
             r1 == reg ++ <<"HpVolume", _volume(v, 63)>>
             r2 == r1 ++ <<"HpEnable", on>>
             r3 == r2 ++ <<"HpMute", 3 * on>>
<1>1. HeadphoneEnabled(reg, v) = r3 /\ on \in 0 .. 1 /\ (v # 0 <=> on = 1) /\ 3 * on \in 0 .. 3
      BY DEF HeadphoneEnabled, If
<1>2. _volume(v, 63) \in Nat
      BY VolumeIs
<1>   HIDE DEF on
<1>3. 3 * on \in Nat /\ _volume(v, 63) \in Nat /\ on \in Nat
      BY <1>1, <1>2
<1>4. Wrote(reg, "HpVolume", _volume(v, 63), 0, r1)
      BY <1>3, WriteIs, RegisterOf
<1>   HIDE DEF r1
<1>5. Wrote(r1, "HpEnable", on, 0, r2)
      BY <1>4, <1>3, WriteIs, RegisterOf DEF Wrote
<1>   HIDE DEF r2
<1>6. Wrote(r2, "HpMute", 3 * on, 10, r3)
      BY <1>5, <1>3, WriteIs, RegisterOf DEF Wrote
<1>   HIDE DEF r3
<1>7. r1 \in Registers /\ r2 \in Registers /\ r3 \in Registers
      BY <1>4, <1>5, <1>6 DEF Wrote
<1>8. Bits(r3[0], "HpEnable") = on
  <2>1. Bits(r2[0], "HpEnable") = on
        BY <1>1, <1>2, <1>5, <1>7, ReadBack, RegisterOf, FitsFacts
  <2>   QED BY <2>1, <1>6 DEF Wrote
<1>9. Bits(r3[10], "HpMute") = 3 * on
  <2>1. Bits(r3[10], "HpMute") = 3 * on
        BY <1>1, <1>2, <1>6, <1>7, ReadBack, RegisterOf, FitsFacts
  <2>   QED BY <2>1
<1>10. \A i \in (0 .. 14) \ {0, 10} : r3[i] = reg[i]
      BY <1>4, <1>5, <1>6 DEF Wrote
<1>11. on = 1 => Bits(r3[0], "HpVolume") > 0
  <2>1. r3[0] \in 0 .. 255
        BY <1>7 DEF Registers
  <2>   QED BY <1>8, <2>1, EnabledIsLoud
<1>   QED BY <1>1, <1>2, <1>8, <1>9, <1>7, <1>10, <1>11 DEF HeadphoneOn

\* The same for Analog::mic1_enabled.
LEMMA MicSet ==
    ASSUME NEW reg \in Registers, NEW v \in Nat
    PROVE  LET r == Mic1Enabled(reg, v)
           IN  /\ r \in Registers
               /\ \A i \in (0 .. 14) \ {7, 11, 12, 13, 14} : r[i] = reg[i]
               /\ MicOn(r) <=> v # 0
<1>   DEFINE on == If(v # 0, 1)
             r1 == reg ++ <<"MicAmp", on>>
             r2 == r1 ++ <<"MicBoost", 3>>
             r3 == r2 ++ <<"MicGain", _volume(v, 7)>>
             r4 == r3 ++ <<"AdcMicLeft", on>>
             r5 == r4 ++ <<"AdcMicRight", on>>
             r6 == r5 ++ <<"AdcLeft", on>>
             r7 == r6 ++ <<"AdcRight", on>>
             r8 == r7 ++ <<"MasterMic", on>>
<1>1. Mic1Enabled(reg, v) = r8 /\ on \in 0 .. 1 /\ (v # 0 <=> on = 1)
      BY DEF Mic1Enabled, If
<1>2. _volume(v, 7) \in Nat
      BY VolumeIs
<1>   HIDE DEF on
<1>3. 3 \in Nat /\ _volume(v, 7) \in Nat /\ on \in Nat
      BY <1>1, <1>2
<1>4. Wrote(reg, "MicAmp", on, 7, r1)
      BY <1>3, WriteIs, RegisterOf
<1>   HIDE DEF r1
<1>5. Wrote(r1, "MicBoost", 3, 7, r2)
      BY <1>4, <1>3, WriteIs, RegisterOf DEF Wrote
<1>   HIDE DEF r2
<1>6. Wrote(r2, "MicGain", _volume(v, 7), 7, r3)
      BY <1>5, <1>3, WriteIs, RegisterOf DEF Wrote
<1>   HIDE DEF r3
<1>7. Wrote(r3, "AdcMicLeft", on, 11, r4)
      BY <1>6, <1>3, WriteIs, RegisterOf DEF Wrote
<1>   HIDE DEF r4
<1>8. Wrote(r4, "AdcMicRight", on, 12, r5)
      BY <1>7, <1>3, WriteIs, RegisterOf DEF Wrote
<1>   HIDE DEF r5
<1>9. Wrote(r5, "AdcLeft", on, 13, r6)
      BY <1>8, <1>3, WriteIs, RegisterOf DEF Wrote
<1>   HIDE DEF r6
<1>10. Wrote(r6, "AdcRight", on, 13, r7)
      BY <1>9, <1>3, WriteIs, RegisterOf DEF Wrote
<1>   HIDE DEF r7
<1>11. Wrote(r7, "MasterMic", on, 14, r8)
      BY <1>10, <1>3, WriteIs, RegisterOf DEF Wrote
<1>   HIDE DEF r8
<1>12. \A r \in {r1, r2, r3, r4, r5, r6, r7, r8} : r \in Registers
      BY <1>4, <1>5, <1>6, <1>7, <1>8, <1>9, <1>10, <1>11 DEF Wrote
<1>13. Bits(r8[7], "MicAmp") = on
  <2>1. Bits(r1[7], "MicAmp") = on
        BY <1>1, <1>2, <1>4, <1>12, ReadBack, RegisterOf, FitsFacts
  <2>2. Bits(r2[7], "MicAmp") = Bits(r1[7], "MicAmp")
        BY <1>3, <1>5, <1>12, Kept, ApartFacts
  <2>3. Bits(r3[7], "MicAmp") = Bits(r2[7], "MicAmp")
        BY <1>3, <1>6, <1>12, Kept, ApartFacts
  <2>   QED BY <2>1, <2>2, <2>3, <1>7, <1>8, <1>9, <1>10, <1>11 DEF Wrote
<1>14. Bits(r8[11], "AdcMicLeft") = on
  <2>1. Bits(r4[11], "AdcMicLeft") = on
        BY <1>1, <1>2, <1>7, <1>12, ReadBack, RegisterOf, FitsFacts
  <2>   QED BY <2>1, <1>8, <1>9, <1>10, <1>11 DEF Wrote
<1>15. Bits(r8[12], "AdcMicRight") = on
  <2>1. Bits(r5[12], "AdcMicRight") = on
        BY <1>1, <1>2, <1>8, <1>12, ReadBack, RegisterOf, FitsFacts
  <2>   QED BY <2>1, <1>9, <1>10, <1>11 DEF Wrote
<1>16. Bits(r8[13], "AdcLeft") = on
  <2>1. Bits(r6[13], "AdcLeft") = on
        BY <1>1, <1>2, <1>9, <1>12, ReadBack, RegisterOf, FitsFacts
  <2>2. Bits(r7[13], "AdcLeft") = Bits(r6[13], "AdcLeft")
        BY <1>3, <1>10, <1>12, Kept, ApartFacts
  <2>   QED BY <2>1, <2>2, <1>11 DEF Wrote
<1>17. Bits(r8[13], "AdcRight") = on
  <2>1. Bits(r7[13], "AdcRight") = on
        BY <1>1, <1>2, <1>10, <1>12, ReadBack, RegisterOf, FitsFacts
  <2>   QED BY <2>1, <1>11 DEF Wrote
<1>18. Bits(r8[14], "MasterMic") = on
  <2>1. Bits(r8[14], "MasterMic") = on
        BY <1>1, <1>2, <1>11, <1>12, ReadBack, RegisterOf, FitsFacts
  <2>   QED BY <2>1
<1>19. \A i \in (0 .. 14) \ {7, 11, 12, 13, 14} : r8[i] = reg[i]
      BY <1>4, <1>5, <1>6, <1>7, <1>8, <1>9, <1>10, <1>11 DEF Wrote
<1>   QED BY <1>1, <1>2, <1>13, <1>14, <1>15, <1>16, <1>17, <1>18, <1>12, <1>19 DEF MicOn

\* Analog::dac_mixer_enabled switches the converter, and keeps the headphone muted or
\* not, which shares its register.
LEMMA MixerSet ==
    ASSUME NEW reg \in Registers, NEW b \in BOOLEAN
    PROVE  LET r == DacMixerEnabled(reg, b)
           IN  /\ r \in Registers
               /\ \A i \in (0 .. 14) \ {10} : r[i] = reg[i]
               /\ Bits(r[10], "DacEnable") = 3 /\ Bits(r[10], "MixerEnable") = 3 <=> b
               /\ Bits(r[10], "HpMute") = Bits(reg[10], "HpMute")
<1>   DEFINE on == If(b, 3)
             r1 == reg ++ <<"DacEnable", on>>
             r2 == r1 ++ <<"MixerEnable", on>>
<1>1. DacMixerEnabled(reg, b) = r2 /\ on \in 0 .. 3 /\ (on = 3 <=> b)
      BY DEF DacMixerEnabled, If
<1>   HIDE DEF on
<1>2. on \in Nat
      BY <1>1
<1>3. Wrote(reg, "DacEnable", on, 10, r1)
      BY <1>2, WriteIs, RegisterOf
<1>   HIDE DEF r1
<1>4. Wrote(r1, "MixerEnable", on, 10, r2)
      BY <1>3, <1>2, WriteIs, RegisterOf DEF Wrote
<1>   HIDE DEF r2
<1>5. r1 \in Registers /\ r2 \in Registers
      BY <1>3, <1>4 DEF Wrote
<1>6. Bits(r2[10], "DacEnable") = on
  <2>1. Bits(r1[10], "DacEnable") = on
        BY <1>1, <1>3, <1>5, ReadBack, RegisterOf, FitsFacts
  <2>2. Bits(r2[10], "DacEnable") = Bits(r1[10], "DacEnable")
        BY <1>2, <1>4, <1>5, Kept, ApartFacts
  <2>   QED BY <2>1, <2>2
<1>7. Bits(r2[10], "MixerEnable") = on
  <2>1. Bits(r2[10], "MixerEnable") = on
        BY <1>1, <1>4, <1>5, ReadBack, RegisterOf, FitsFacts
  <2>   QED BY <2>1
<1>8. Bits(r2[10], "HpMute") = Bits(reg[10], "HpMute")
  <2>1. Bits(r1[10], "HpMute") = Bits(reg[10], "HpMute")
        BY <1>2, <1>3, <1>5, Kept, ApartFacts
  <2>2. Bits(r2[10], "HpMute") = Bits(r1[10], "HpMute")
        BY <1>2, <1>4, <1>5, Kept, ApartFacts
  <2>   QED BY <2>1, <2>2
<1>9. \A i \in (0 .. 14) \ {10} : r2[i] = reg[i]
      BY <1>3, <1>4 DEF Wrote
<1>   QED BY <1>1, <1>6, <1>7, <1>8, <1>5, <1>9

\* The registers after a configuration: each setting keeps what the earlier ones
\* have written
After(reg, c) ==
    LET mic     == Mic1Enabled(reg, c.mic)
        ear     == EarpieceEnabled(mic, c.out["earpiece"])
        speaker == SpeakerEnabled(ear, c.out["speaker"])
        hp      == HeadphoneEnabled(speaker, c.out["headphone"])
    IN  DacMixerEnabled(hp, \E o \in Outputs : c.out[o] # 0)

\* The volumes of a configuration are numbers.
LEMMA ConfigType ==
    ASSUME NEW c \in AudioConfigs
    PROVE  /\ c.mic \in Nat /\ c.target \in {"soc", "modem"}
           /\ \A o \in Outputs : c.out[o] \in Nat
BY VolumesAssumption DEF AudioConfigs

\* After all settings of a configuration each output is as its own setting left it.
LEMMA AllSet ==
    ASSUME NEW reg \in Registers, NEW c \in AudioConfigs
    PROVE  LET r == After(reg, c)
           IN  /\ r \in Registers
               /\ EarpieceOn(r) <=> c.out["earpiece"] >= 7
               /\ SpeakerOn(r) <=> c.out["speaker"] >= 7
               /\ HeadphoneOn(r) <=> c.out["headphone"] >= 1
               /\ MicOn(r) <=> c.mic # 0
               /\ Bits(r[10], "DacEnable") = 3 /\ Bits(r[10], "MixerEnable") = 3
                  <=> \E o \in Outputs : c.out[o] # 0
<1>   DEFINE m == c.mic
             e == c.out["earpiece"]
             s == c.out["speaker"]
             h == c.out["headphone"]
             b == \E o \in Outputs : c.out[o] # 0
             r1 == Mic1Enabled(reg, m)
             r2 == EarpieceEnabled(r1, e)
             r3 == SpeakerEnabled(r2, s)
             r4 == HeadphoneEnabled(r3, h)
             r5 == DacMixerEnabled(r4, b)
<1>1. After(reg, c) = r5
      BY DEF After
<1>2. m \in Nat /\ e \in Nat /\ s \in Nat /\ h \in Nat /\ b \in BOOLEAN
      BY ConfigType DEF Outputs
<1>   SUFFICES /\ r5 \in Registers
               /\ EarpieceOn(r5) <=> e >= 7
               /\ SpeakerOn(r5) <=> s >= 7
               /\ HeadphoneOn(r5) <=> h >= 1
               /\ MicOn(r5) <=> m # 0
               /\ Bits(r5[10], "DacEnable") = 3 /\ Bits(r5[10], "MixerEnable") = 3 <=> b
      BY <1>1
<1>   HIDE DEF m, e, s, h, b
<1>3. /\ r1 \in Registers
      /\ MicOn(r1) <=> m # 0
      BY <1>2, MicSet
<1>   HIDE DEF r1
<1>4. /\ r2 \in Registers
      /\ \A i \in (0 .. 14) \ {3, 4} : r2[i] = r1[i]
      /\ EarpieceOn(r2) <=> e >= 7
      BY <1>2, <1>3, EarpieceSet
<1>   HIDE DEF r2
<1>5. /\ r3 \in Registers
      /\ \A i \in (0 .. 14) \ {1, 2, 5, 6} : r3[i] = r2[i]
      /\ SpeakerOn(r3) <=> s >= 7
      BY <1>2, <1>4, SpeakerSet
<1>   HIDE DEF r3
<1>6. /\ r4 \in Registers
      /\ \A i \in (0 .. 14) \ {0, 10} : r4[i] = r3[i]
      /\ HeadphoneOn(r4) <=> h >= 1
      BY <1>2, <1>5, HeadphoneSet
<1>   HIDE DEF r4
<1>7. /\ r5 \in Registers
      /\ \A i \in (0 .. 14) \ {10} : r5[i] = r4[i]
      /\ Bits(r5[10], "DacEnable") = 3 /\ Bits(r5[10], "MixerEnable") = 3 <=> b
      /\ Bits(r5[10], "HpMute") = Bits(r4[10], "HpMute")
      BY <1>2, <1>6, MixerSet
<1>   HIDE DEF r5
<1>8. EarpieceOn(r5) <=> EarpieceOn(r2)
  <2>1. r5[3] = r2[3] /\ r5[4] = r2[4]
        BY <1>5, <1>6, <1>7
  <2>   QED BY <2>1 DEF EarpieceOn
<1>9. SpeakerOn(r5) <=> SpeakerOn(r3)
  <2>1. \A i \in {1, 2, 5, 6} : r5[i] = r3[i]
        BY <1>6, <1>7
  <2>   QED BY <2>1 DEF SpeakerOn
<1>10. HeadphoneOn(r5) <=> HeadphoneOn(r4)
      BY <1>7 DEF HeadphoneOn
<1>11. MicOn(r5) <=> MicOn(r1)
  <2>1. \A i \in {7, 11, 12, 13, 14} : r5[i] = r1[i]
        BY <1>4, <1>5, <1>6, <1>7
  <2>   QED BY <2>1 DEF MicOn
<1>   QED BY <1>3, <1>4, <1>5, <1>6, <1>7, <1>8, <1>9, <1>10, <1>11

\* The field of a register file is the field of its register.
LEMMA GetIs ==
    ASSUME NEW reg, NEW f, NEW i, In(f, i)
    PROVE  Get(reg, f) = Bits(reg[i], f)
BY DEF Get, In

\* What the property reads of the registers.
LEMMA AudibleIs ==
    ASSUME NEW reg
    PROVE  LET dac == Bits(reg[10], "DacEnable") = 3 /\ Bits(reg[10], "MixerEnable") = 3
           IN  /\ Audible(reg, "earpiece")  <=> dac /\ EarpieceOn(reg)
               /\ Audible(reg, "speaker")   <=> dac /\ SpeakerOn(reg)
               /\ Audible(reg, "headphone") <=> dac /\ HeadphoneOn(reg)
               /\ Recording(reg) <=> MicOn(reg)
<1>1. /\ Get(reg, "DacEnable") = Bits(reg[10], "DacEnable")
      /\ Get(reg, "MixerEnable") = Bits(reg[10], "MixerEnable")
      /\ Get(reg, "HpMute") = Bits(reg[10], "HpMute")
      BY GetIs, RegisterOf
<1>2. /\ Get(reg, "EarSource") = Bits(reg[3], "EarSource")
      /\ Get(reg, "EarEnable") = Bits(reg[4], "EarEnable")
      /\ Get(reg, "EarMuteOff") = Bits(reg[4], "EarMuteOff")
      /\ Get(reg, "EarVolume") = Bits(reg[4], "EarVolume")
      BY GetIs, RegisterOf
<1>3. /\ Get(reg, "LineEnable") = Bits(reg[5], "LineEnable")
      /\ Get(reg, "LineLeft") = Bits(reg[5], "LineLeft")
      /\ Get(reg, "LineRight") = Bits(reg[5], "LineRight")
      /\ Get(reg, "LineVolume") = Bits(reg[6], "LineVolume")
      /\ Get(reg, "MuteLeft") = Bits(reg[1], "MuteLeft")
      /\ Get(reg, "MuteRight") = Bits(reg[2], "MuteRight")
      BY GetIs, RegisterOf
<1>4. /\ Get(reg, "HpEnable") = Bits(reg[0], "HpEnable")
      /\ Get(reg, "HpVolume") = Bits(reg[0], "HpVolume")
      BY GetIs, RegisterOf
<1>5. /\ Get(reg, "MicAmp") = Bits(reg[7], "MicAmp")
      /\ Get(reg, "AdcMicLeft") = Bits(reg[11], "AdcMicLeft")
      /\ Get(reg, "AdcMicRight") = Bits(reg[12], "AdcMicRight")
      /\ Get(reg, "AdcLeft") = Bits(reg[13], "AdcLeft")
      /\ Get(reg, "AdcRight") = Bits(reg[13], "AdcRight")
      /\ Get(reg, "MasterMic") = Bits(reg[14], "MasterMic")
      BY GetIs, RegisterOf
<1>6. Audible(reg, "earpiece") <=>
          Bits(reg[10], "DacEnable") = 3 /\ Bits(reg[10], "MixerEnable") = 3 /\ EarpieceOn(reg)
      BY <1>1, <1>2, Zenon DEF Audible, EarpieceOn
<1>7. Audible(reg, "speaker") <=>
          Bits(reg[10], "DacEnable") = 3 /\ Bits(reg[10], "MixerEnable") = 3 /\ SpeakerOn(reg)
      BY <1>1, <1>3 DEF Audible, SpeakerOn
<1>8. Audible(reg, "headphone") <=>
          Bits(reg[10], "DacEnable") = 3 /\ Bits(reg[10], "MixerEnable") = 3 /\ HeadphoneOn(reg)
      BY <1>1, <1>4 DEF Audible, HeadphoneOn
<1>9. Recording(reg) <=> MicOn(reg)
      BY <1>5 DEF Recording, MicOn
<1>   QED BY <1>6, <1>7, <1>8, <1>9

\* The routing device is the one of the state
RouteInv ==
    /\ _codec_state \in {"NONE", "SOC", "MODEM"}
    /\ _codec_state = "SOC" => codec_config = "audio_codec_soc"
    /\ _codec_state = "MODEM" => codec_config = "audio_codec_modem"

AudioControlInv == analog \in Registers /\ RouteInv /\ OutputsFollowConfig

\* The routing device acquired is the one of the target (apply_config).
LEMMA RouteFollows ==
    ASSUME RouteInv, NEW target \in {"soc", "modem"}, Route(target)
    PROVE  /\ RouteInv'
           /\ codec_config' = IF target = "soc" THEN "audio_codec_soc" ELSE "audio_codec_modem"
BY DEF RouteInv, Route

\* A configuration makes the codec what it says, whatever was set before.
LEMMA ApplySets ==
    ASSUME AudioControlInv, NEW c \in AudioConfigs, ApplyAudioConfig(c)
    PROVE  AudioControlInv'
<1>1. analog' = After(analog, c) /\ audio_config' = c /\ Route(c.target)
      BY DEF ApplyAudioConfig, After
<1>2. analog \in Registers /\ RouteInv
      BY DEF AudioControlInv
<1>   DEFINE dac(r) == Bits(r[10], "DacEnable") = 3 /\ Bits(r[10], "MixerEnable") = 3
<1>3. /\ analog' \in Registers
      /\ EarpieceOn(analog') <=> c.out["earpiece"] >= 7
      /\ SpeakerOn(analog') <=> c.out["speaker"] >= 7
      /\ HeadphoneOn(analog') <=> c.out["headphone"] >= 1
      /\ MicOn(analog') <=> c.mic # 0
      /\ dac(analog') <=> \E o \in Outputs : c.out[o] # 0
      BY <1>1, <1>2, AllSet
<1>4. /\ Audible(analog', "earpiece")  <=> dac(analog') /\ EarpieceOn(analog')
      /\ Audible(analog', "speaker")   <=> dac(analog') /\ SpeakerOn(analog')
      /\ Audible(analog', "headphone") <=> dac(analog') /\ HeadphoneOn(analog')
      /\ Recording(analog') <=> MicOn(analog')
      BY AudibleIs
<1>5. \A o \in Outputs : c.out[o] \in Nat
      BY ConfigType
<1>   HIDE DEF dac
<1>6. \A o \in Outputs : Audible(analog', o) <=> c.out[o] >= Heard[o]
      BY <1>3, <1>4, <1>5 DEF Outputs, Heard
<1>7. c.target \in {"soc", "modem"}
      BY ConfigType
<1>8. /\ RouteInv'
      /\ codec_config' = IF c.target = "soc" THEN "audio_codec_soc" ELSE "audio_codec_modem"
      BY <1>1, <1>2, <1>7, RouteFollows
<1>9. OutputsFollowConfig'
      BY <1>1, <1>3, <1>4, <1>6, <1>8 DEF OutputsFollowConfig
<1>   QED BY <1>3, <1>8, <1>9 DEF AudioControlInv

\* After each configuration exactly the outputs with a volume that is heard are
\* audible, the microphone records only if the configuration says so, and the codec is
\* routed as it says (apply_config), for all volumes and all contents of the registers
\* before the first.
THEOREM OutputsAreAsConfigured == AudioControlSpec => []OutputsFollowConfig
<1>1. AudioControlInit => AudioControlInv
      BY VolumesAssumption DEF AudioControlInit, AudioControlInv, RouteInv, OutputsFollowConfig
<1>2. AudioControlInv /\ [AudioControlNext]_audioVars => AudioControlInv'
  <2>   SUFFICES ASSUME AudioControlInv, [AudioControlNext]_audioVars PROVE AudioControlInv'
        OBVIOUS
  <2>1. CASE AudioControlNext
        BY <2>1, ApplySets DEF AudioControlNext
  <2>2. CASE UNCHANGED audioVars
        BY <2>2 DEF audioVars, AudioControlInv, RouteInv, OutputsFollowConfig
  <2>   QED BY <2>1, <2>2
<1>3. AudioControlInv => OutputsFollowConfig
      BY DEF AudioControlInv
<1>   QED BY <1>1, <1>2, <1>3, PTL DEF AudioControlSpec

=============================================================================
