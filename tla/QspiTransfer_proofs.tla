-------------------------- MODULE QspiTransfer_proofs --------------------------
(***************************************************************************)
(* What holds of the DMA pipeline for every number of buffers and every    *)
(* length of a payload, as long as no transfer has been forgotten.         *)
(***************************************************************************)
EXTENDS QspiTransfer, TLAPS

LEMMA FollowingBuffer ==
  ASSUME NEW b \in Buffer
  PROVE  (b + 1) % QSPI_DMA_BUFFER_COUNT =
           IF b + 1 = QSPI_DMA_BUFFER_COUNT THEN 0 ELSE b + 1
BY CountAssumption DEF Buffer

\* No payload goes beyond the chunks of an object's life.
Room == chunks + remaining <= MaxChunks

Flags == /\ in_transaction \in BOOLEAN
         /\ has_pending_command \in BOOLEAN
         /\ desynced \in BOOLEAN

LEMMA RoomStep ==
  ASSUME TypeOK, Room, [Next]_vars
  PROVE  Room'
<1> USE CountAssumption, BoundAssumption DEF transfer, command, control, wire,
        Goto, Return
<1>1. ASSUME chunks' = chunks, remaining' = 0 \/ remaining' = remaining
      PROVE  Room'
  <2>1. chunks \in 0 .. MaxChunks /\ remaining \in Nat
    BY DEF TypeOK
  <2> QED
    BY <1>1, <2>1 DEF Room
<1>2. ASSUME NEW k \in 0 .. MaxPayload, SendCall(k) \/ WriteDataCall(k)
      PROVE  Room'
  <2>1. chunks + k <= MaxChunks /\ chunks' = chunks /\ remaining' = k
    BY <1>2 DEF SendCall, WriteDataCall
  <2> QED
    BY <2>1 DEF Room
<1>3. CASE WriteCommandCall \/ DeinitCall \/ TakeDone \/ TxParam \/ Begin
           \/ ColorStart \/ ColorEnd \/ DrainDone \/ DeinitDone \/ Interrupted
           \/ TransDone \/ UNCHANGED vars
  BY <1>1, <1>3 DEF WriteCommandCall, DeinitCall, TakeDone, TxParam, Begin,
     ColorStart, ColorEnd, DrainDone, DeinitDone, Interrupted, TransDone, vars
<1>4. CASE TakeTimeout \/ TxParamError \/ TxColorError
  BY <1>1, <1>4 DEF TakeTimeout, TxParamError, TxColorError
<1>5. CASE Make
  BY <1>5 DEF Make, Room
<1>6. CASE TxColor
  BY <1>6 DEF TxColor, TypeOK, Room
<1> QED
  BY <1>2, <1>3, <1>4, <1>5, <1>6 DEF Next, Wait, Method

\* The type invariant: the code never counts more transfers than it has
\* buffers, nor gives its semaphore past that.
LEMMA TypeStep ==
  ASSUME TypeOK, Room, [Next]_vars
  PROVE  TypeOK'
<1> USE CountAssumption, BoundAssumption DEF transfer, command, control, wire,
        Goto, Return
<1>1. ASSUME NEW k \in 0 .. MaxPayload, SendCall(k) PROVE TypeOK'
  BY <1>1 DEF SendCall, TypeOK
<1>2. ASSUME NEW k \in 0 .. MaxPayload, WriteDataCall(k) PROVE TypeOK'
  BY <1>2 DEF WriteDataCall, TypeOK
<1>3. CASE WriteCommandCall
  BY <1>3 DEF WriteCommandCall, TypeOK
<1>4. CASE DeinitCall
  BY <1>4 DEF DeinitCall, TypeOK
<1>5. CASE Make
  <2>1. dma' \in Seq(Buffer) /\ Len(dma') <= QSPI_DMA_BUFFER_COUNT
    BY <1>5 DEF Make, TypeOK
  <2>2. chunks' \in 0 .. MaxChunks /\ remaining' \in 0 .. MaxPayload
    BY <1>5 DEF Make
  <2>3. panel' \in Seq(0 .. MaxChunks + 1)
    BY <1>5 DEF Make
  <2> QED
    BY <1>5, <2>1, <2>2, <2>3 DEF Make, TypeOK
<1>6. CASE TakeDone
  BY <1>6 DEF TakeDone, Waits, WaitsForOne, WaitsForAll, TypeOK
<1>7. CASE TakeTimeout
  BY <1>7 DEF TakeTimeout, ResetTransferState, TypeOK
<1>8. CASE TxParam
  <2>1. Flags'
    BY <1>8 DEF TxParam, TypeOK, Flags
  <2>2. /\ pc' \in {"begin", "idle"} /\ op' \in {op, "none"}
        /\ remaining' \in {remaining, 0}
        /\ UNCHANGED <<transfer, wire, desynced>>
    BY <1>8 DEF TxParam
  <2> QED
    BY <2>1, <2>2 DEF TypeOK, Flags
<1>9. CASE TxParamError
  BY <1>9 DEF TxParamError, ResetTransferState, TypeOK
<1>10. CASE Begin
  BY <1>10 DEF Begin, TypeOK
<1>11. CASE ColorStart
  BY <1>11 DEF ColorStart, TypeOK
<1>12. ASSUME CopyChunk
       PROVE  dma_buffer' \in [Buffer -> 0 .. MaxChunks + 1]
  BY <1>12 DEF CopyChunk, TypeOK
<1>13. CASE TxColor
  <2>1. active_buffer' \in Buffer
    BY <1>13, FollowingBuffer DEF TxColor, TypeOK, Buffer
  <2>2. dma' \in Seq(Buffer) /\ Len(dma') <= QSPI_DMA_BUFFER_COUNT
    BY <1>13 DEF TxColor, TypeOK
  <2>3. inflight_transfers' \in 0 .. QSPI_DMA_BUFFER_COUNT
    BY <1>13 DEF TxColor, Waits, WaitsForOne, TypeOK
  <2>4. remaining' \in 0 .. MaxPayload
    BY <1>13 DEF TxColor, TypeOK
  <2>5. chunks' \in 0 .. MaxChunks
    BY <1>13 DEF TxColor, TypeOK, Room
  <2> QED
    BY <1>12, <1>13, <2>1, <2>2, <2>3, <2>4, <2>5 DEF TxColor, TypeOK
<1>14. CASE TxColorError
  BY <1>12, <1>14 DEF TxColorError, TypeOK
<1>15. CASE ColorEnd
  BY <1>15 DEF ColorEnd, TypeOK
<1>16. CASE DrainDone
  <2>1. Flags'
    BY <1>16 DEF DrainDone, TypeOK, Flags
  <2>2. /\ pc' = "idle" /\ op' = "none" /\ remaining' = 0
        /\ UNCHANGED <<transfer, wire, desynced>>
    BY <1>16 DEF DrainDone
  <2> QED
    BY <2>1, <2>2 DEF TypeOK, Flags
<1>17. CASE DeinitDone
  <2>1. Flags'
    BY <1>17 DEF DeinitDone, TypeOK, Flags
  <2>2. /\ dma_buffer' \in [Buffer -> 0 .. MaxChunks + 1]
        /\ active_buffer' \in Buffer
    BY <1>17 DEF DeinitDone, Buffer
  <2>3. /\ inflight_transfers' \in 0 .. QSPI_DMA_BUFFER_COUNT
        /\ transfer_done_sem' \in 0 .. QSPI_DMA_BUFFER_COUNT
        /\ pc' = "dead"
        /\ UNCHANGED <<op, remaining, wire>>
    BY <1>17 DEF DeinitDone
  <2> QED
    BY <2>1, <2>2, <2>3 DEF TypeOK, Flags
<1>18. CASE Interrupted
  BY <1>18 DEF Interrupted, TypeOK
<1>19. CASE TransDone
  <2>1. Head(dma) \in Buffer /\ dma' \in Seq(Buffer) /\ Len(dma') <= Len(dma)
    BY <1>19 DEF TransDone, TypeOK
  <2>2. panel' \in Seq(0 .. MaxChunks + 1)
    BY <1>19, <2>1 DEF TransDone, TypeOK
  <2> QED
    BY <1>19, <2>1, <2>2 DEF TransDone, TypeOK
<1>20. CASE UNCHANGED vars
  BY <1>20 DEF vars, TypeOK
<1> QED
  BY <1>1, <1>2, <1>3, <1>4, <1>5, <1>6, <1>7, <1>8, <1>9, <1>10, <1>11, <1>13,
     <1>14, <1>15, <1>16, <1>17, <1>18, <1>19, <1>20 DEF Next, Wait, Method

\* TypeOK for every number of buffers and every length of a payload.
THEOREM Typing == Spec => []TypeOK
<1>1. Init => TypeOK
  <2> USE CountAssumption, BoundAssumption
  <2>1. Init => Flags
    BY DEF Init, Flags
  <2>2. Init => /\ dma_buffer \in [Buffer -> 0 .. MaxChunks + 1]
                /\ active_buffer \in Buffer
    BY DEF Init, Buffer
  <2>3. Init => /\ dma \in Seq(Buffer) /\ Len(dma) <= QSPI_DMA_BUFFER_COUNT
                /\ panel \in Seq(0 .. MaxChunks + 1)
    BY DEF Init
  <2>4. Init => /\ 0 \in 0 .. MaxChunks /\ 0 \in 0 .. MaxPayload
                /\ 0 \in 0 .. QSPI_DMA_BUFFER_COUNT
    OBVIOUS
  <2> QED
    BY <2>1, <2>2, <2>3, <2>4 DEF Init, TypeOK, Flags
<1>2. Init => Room
  BY BoundAssumption DEF Init, Room
<1> QED
  BY <1>1, <1>2, TypeStep, RoomStep, PTL DEF Spec

-----------------------------------------------------------------------------
(* The count.                                                              *)

\* A deinited object counts nothing, so that the next one starts from zero.
DeadIsClear ==
  pc = "dead" => inflight_transfers = 0 /\ transfer_done_sem = 0

LEMMA DeadStep ==
  ASSUME TypeOK, DeadIsClear, [Next]_vars
  PROVE  DeadIsClear'
<1> USE DEF transfer, command, control, wire, Goto, Return, DeadIsClear
<1>1. ASSUME NEW k \in 0 .. MaxPayload, SendCall(k) \/ WriteDataCall(k)
      PROVE  DeadIsClear'
  BY <1>1 DEF SendCall, WriteDataCall
<1>2. CASE WriteCommandCall \/ DeinitCall \/ TxParam \/ Begin \/ ColorStart
           \/ ColorEnd \/ DrainDone \/ Interrupted \/ Make \/ UNCHANGED vars
  BY <1>2 DEF WriteCommandCall, DeinitCall, TxParam, Begin, ColorStart,
     ColorEnd, DrainDone, Interrupted, Make, vars
<1>3. CASE TakeDone
  BY <1>3 DEF TakeDone, Waits, WaitsForOne, WaitsForAll
<1>4. CASE TakeTimeout \/ TxParamError \/ TxColorError
  BY <1>4 DEF TakeTimeout, TxParamError, TxColorError, ResetTransferState
<1>5. CASE TxColor \/ DeinitDone \/ TransDone
  BY <1>5 DEF TxColor, DeinitDone, TransDone
<1> QED
  BY <1>1, <1>2, <1>3, <1>4, <1>5 DEF Next, Wait, Method

\* InflightExact and BuffersOutliveTransfers rest on each other: a deinited
\* object has nothing in flight because the count it waited on was exact.
LEMMA CountStep ==
  ASSUME TypeOK, DeadIsClear, InflightExact, BuffersOutliveTransfers, Next,
         ~desynced'
  PROVE  /\ inflight_transfers' = transfer_done_sem' + Len(dma')
         /\ pc' = "dead" => dma' = <<>>
<1> USE CountAssumption DEF transfer, command, control, wire, Goto, Return
<1> DEFINE Exact == inflight_transfers = transfer_done_sem + Len(dma)
           Outlive == pc = "dead" => dma = <<>>
<1>1. /\ inflight_transfers \in 0 .. QSPI_DMA_BUFFER_COUNT
      /\ transfer_done_sem \in 0 .. QSPI_DMA_BUFFER_COUNT
      /\ dma \in Seq(Buffer) /\ Len(dma) \in Nat
  BY DEF TypeOK
<1>2. ~desynced => Exact /\ Outlive
  BY DEF InflightExact, BuffersOutliveTransfers
<1>3. ASSUME UNCHANGED <<inflight_transfers, transfer_done_sem, dma, desynced>>,
             pc' # "dead"
      PROVE  Exact' /\ Outlive'
  BY <1>2, <1>3
<1>4. ASSUME NEW k \in 0 .. MaxPayload, SendCall(k) \/ WriteDataCall(k)
      PROVE  Exact' /\ Outlive'
  BY <1>3, <1>4 DEF SendCall, WriteDataCall
<1>5. CASE WriteCommandCall \/ DeinitCall \/ TxParam \/ Begin \/ ColorEnd
           \/ DrainDone \/ Interrupted
  BY <1>3, <1>5 DEF WriteCommandCall, DeinitCall, TxParam, Begin, ColorEnd,
     DrainDone, Interrupted
<1>6. CASE Make
  <2>1. /\ dma = <<>> /\ dma' = <<>> /\ pc' = "idle"
        /\ inflight_transfers' = 0 /\ transfer_done_sem' = 0
    BY <1>6 DEF Make, DeadIsClear
  <2> QED
    BY <2>1
\* Every wait takes one semaphore for one transfer.
<1>7. CASE TakeDone
  <2>1. /\ pc \in {"flush", "param", "chunk", "begin", "drain", "sleep"}
        /\ UNCHANGED <<pc, dma, desynced>>
        /\ transfer_done_sem' = transfer_done_sem - 1
        /\ inflight_transfers' = inflight_transfers - 1
    BY <1>7 DEF TakeDone, Waits, WaitsForOne, WaitsForAll
  <2> QED
    BY <1>1, <1>2, <2>1
\* What is forgotten is empty, or desynced tells.
<1>8. CASE TakeTimeout \/ TxParamError \/ TxColorError
  <2>1. /\ dma = <<>> /\ dma' = <<>> /\ inflight_transfers' = 0
        /\ transfer_done_sem' = 0
    BY <1>8 DEF TakeTimeout, TxParamError, TxColorError, ResetTransferState
  <2> QED
    BY <2>1
\* With nothing in flight there is no stray completion to throw away.
<1>9. CASE ColorStart
  BY <1>1, <1>2, <1>9 DEF ColorStart
<1>10. CASE TxColor
  <2>1. Len(dma') = Len(dma) + 1
    BY <1>1, <1>10 DEF TxColor
  <2> QED
    BY <1>1, <1>2, <1>10, <2>1 DEF TxColor
\* It has waited until nothing was in flight.
<1>11. CASE DeinitDone
  <2>1. ~(inflight_transfers > 0) /\ ~desynced
    BY <1>11 DEF DeinitDone, Waits, WaitsForAll
  <2>2. Len(dma) = 0
    BY <1>1, <1>2, <2>1
  <2>3. dma = <<>>
    BY <1>1, <2>2
  <2> QED
    BY <1>11, <2>3 DEF DeinitDone
\* The semaphore never saturates.
<1>12. CASE TransDone
  <2>1. Len(dma') = Len(dma) - 1 /\ Len(dma) > 0 /\ dma # <<>> /\ ~desynced
    BY <1>1, <1>12 DEF TransDone
  <2>2. pc # "dead" /\ transfer_done_sem < QSPI_DMA_BUFFER_COUNT
    BY <1>1, <1>2, <2>1
  <2> QED
    BY <1>1, <1>2, <1>12, <2>1, <2>2 DEF TransDone
<1> QED
  BY <1>4, <1>5, <1>6, <1>7, <1>8, <1>9, <1>10, <1>11, <1>12 DEF Next, Wait, Method

\* InflightExact: no completion is counted twice or lost, whatever the driver
\* refuses, and whichever method waits.  Together with it
\* BuffersOutliveTransfers.
THEOREM Counted == Spec => [](InflightExact /\ BuffersOutliveTransfers)
<1>1. Init => DeadIsClear /\ InflightExact /\ BuffersOutliveTransfers
  BY DEF Init, DeadIsClear, InflightExact, BuffersOutliveTransfers
<1>2. TypeOK /\ DeadIsClear /\ InflightExact /\ BuffersOutliveTransfers
        /\ [Next]_vars => InflightExact' /\ BuffersOutliveTransfers'
  <2> SUFFICES ASSUME TypeOK, DeadIsClear, InflightExact,
                      BuffersOutliveTransfers, [Next]_vars
               PROVE  InflightExact' /\ BuffersOutliveTransfers'
    OBVIOUS
  <2>1. CASE Next
    BY <2>1, CountStep DEF InflightExact, BuffersOutliveTransfers
  <2>2. CASE UNCHANGED vars
    BY <2>2 DEF vars, InflightExact, BuffersOutliveTransfers
  <2> QED
    BY <2>1, <2>2
<1> QED
  BY <1>1, <1>2, Typing, DeadStep, PTL DEF Spec

\* BuffersOutliveTransfers alone: when deinit() has freed the DMA buffers no
\* transfer still reads one, unless a reset of the peripheral has lost count.
THEOREM FreedBuffersAreIdle == Spec => []BuffersOutliveTransfers
  BY Counted, PTL

-----------------------------------------------------------------------------
(* The order.                                                              *)

\* The buffer k places behind b in the ring.
Behind(b, k) == IF k <= b THEN b - k ELSE b - k + QSPI_DMA_BUFFER_COUNT

\* The buffers queued are the ones before the active one, and hold the chunks
\* the panel gets next.
Ring ==
  \A j \in 1 .. Len(dma) : /\ dma[j] = Behind(active_buffer, Len(dma) - j + 1)
                           /\ dma_buffer[dma[j]] = Len(panel) + j
Received == /\ Len(panel) + Len(dma) = chunks
            /\ \A j \in 1 .. Len(panel) : panel[j] = j

LEMMA OneBehind ==
  ASSUME NEW b \in Buffer
  PROVE  Behind((b + 1) % QSPI_DMA_BUFFER_COUNT, 1) = b
<1>1. CASE b + 1 = QSPI_DMA_BUFFER_COUNT
  BY <1>1, CountAssumption, FollowingBuffer DEF Behind, Buffer
<1>2. CASE b + 1 # QSPI_DMA_BUFFER_COUNT
  BY <1>2, CountAssumption, FollowingBuffer DEF Behind, Buffer
<1> QED
  BY <1>1, <1>2

LEMMA OneOn ==
  ASSUME NEW b \in Buffer, NEW k \in 1 .. QSPI_DMA_BUFFER_COUNT - 1
  PROVE  /\ Behind((b + 1) % QSPI_DMA_BUFFER_COUNT, k + 1) = Behind(b, k)
         /\ Behind(b, k) # b
<1> USE CountAssumption
<1>1. b \in Nat /\ k \in Nat \ {0} /\ b < QSPI_DMA_BUFFER_COUNT
      /\ k < QSPI_DMA_BUFFER_COUNT /\ QSPI_DMA_BUFFER_COUNT \in Nat
  BY DEF Buffer
<1>2. Behind(b, k) # b
  BY <1>1 DEF Behind
<1>3. CASE b + 1 = QSPI_DMA_BUFFER_COUNT
  <2>1. (b + 1) % QSPI_DMA_BUFFER_COUNT = 0
    BY <1>3, FollowingBuffer
  <2> QED
    BY <1>1, <1>2, <1>3, <2>1 DEF Behind
<1>4. CASE b + 1 # QSPI_DMA_BUFFER_COUNT
  <2>1. (b + 1) % QSPI_DMA_BUFFER_COUNT = b + 1
    BY <1>4, FollowingBuffer
  <2> QED
    BY <1>1, <1>2, <2>1 DEF Behind
<1> QED
  BY <1>3, <1>4

LEMMA OrderStep ==
  ASSUME TypeOK, InflightExact, Next, ~desynced',
         ~desynced => Ring /\ Received
  PROVE  Ring' /\ Received'
<1> USE CountAssumption DEF transfer, command, control, wire, Goto, Return
<1>1. /\ dma \in Seq(Buffer) /\ Len(dma) \in Nat
      /\ panel \in Seq(0 .. MaxChunks + 1) /\ Len(panel) \in Nat
      /\ dma_buffer \in [Buffer -> 0 .. MaxChunks + 1]
      /\ active_buffer \in Buffer /\ chunks \in Nat
  BY DEF TypeOK
<1>2. ASSUME UNCHANGED <<dma_buffer, active_buffer, wire>>, ~desynced
      PROVE  Ring' /\ Received'
  BY <1>2 DEF Ring, Received
<1>3. ASSUME dma = <<>>, dma' = <<>>, UNCHANGED <<panel, chunks>>, ~desynced
      PROVE  Ring' /\ Received'
  BY <1>3 DEF Ring, Received
<1>4. ASSUME NEW k \in 0 .. MaxPayload, SendCall(k) \/ WriteDataCall(k)
      PROVE  Ring' /\ Received'
  BY <1>2, <1>4 DEF SendCall, WriteDataCall
<1>5. CASE WriteCommandCall \/ DeinitCall \/ TxParam \/ Begin \/ ColorEnd
           \/ DrainDone \/ Interrupted \/ TakeDone \/ ColorStart
  BY <1>2, <1>5 DEF WriteCommandCall, DeinitCall, TxParam, Begin, ColorEnd,
     DrainDone, Interrupted, TakeDone, ColorStart
<1>6. CASE TakeTimeout \/ TxParamError
  BY <1>2, <1>6 DEF TakeTimeout, TxParamError, ResetTransferState
<1>7. CASE TxColorError
  BY <1>3, <1>7 DEF TxColorError
<1>8. CASE Make
  <2>1. dma' = <<>> /\ panel' = <<>> /\ chunks' = 0
    BY <1>8 DEF Make
  <2> QED
    BY <2>1 DEF Ring, Received
<1>9. CASE DeinitDone
  <2>1. /\ ~desynced /\ dma' = dma /\ UNCHANGED <<panel, chunks>>
        /\ ~(inflight_transfers > 0)
    BY <1>9 DEF DeinitDone, Waits, WaitsForAll
  <2>2. Len(dma) = 0
    BY <2>1 DEF InflightExact, TypeOK
  <2>3. dma = <<>>
    BY <1>1, <2>2
  <2> QED
    BY <1>3, <2>1, <2>3
\* The copy goes into a buffer that is not queued.
<1>10. CASE TxColor
  <2> DEFINE N == QSPI_DMA_BUFFER_COUNT
  <2>1. /\ Ring /\ Received /\ Len(dma) < N
        /\ dma_buffer' = [dma_buffer EXCEPT ![active_buffer] = chunks + 1]
        /\ dma' = Append(dma, active_buffer) /\ panel' = panel
        /\ active_buffer' = (active_buffer + 1) % N /\ chunks' = chunks + 1
    BY <1>10 DEF TxColor, CopyChunk
  <2>2. /\ Len(dma') = Len(dma) + 1 /\ dma'[Len(dma) + 1] = active_buffer
        /\ \A j \in 1 .. Len(dma) : dma'[j] = dma[j]
    BY <1>1, <2>1
  <2>3. ASSUME NEW j \in 1 .. Len(dma)
        PROVE  /\ dma'[j] = Behind(active_buffer', Len(dma') - j + 1)
               /\ dma_buffer'[dma'[j]] = Len(panel') + j
    <3>1. Len(dma) - j + 1 \in 1 .. N - 1
      BY <1>1, <2>1
    <3>2. /\ dma[j] = Behind(active_buffer, Len(dma) - j + 1)
          /\ dma_buffer[dma[j]] = Len(panel) + j
      BY <2>1 DEF Ring
    <3>3. /\ Behind(active_buffer', (Len(dma) - j + 1) + 1) = dma[j]
          /\ dma[j] # active_buffer
      BY <1>1, <2>1, <3>1, <3>2, OneOn
    <3>4. Len(dma') - j + 1 = (Len(dma) - j + 1) + 1
      BY <1>1, <2>2
    <3>5. dma[j] \in Buffer
      BY <1>1
    <3>6. dma_buffer'[dma[j]] = dma_buffer[dma[j]]
      BY <1>1, <2>1, <3>3, <3>5
    <3> QED
      BY <2>1, <2>2, <3>2, <3>3, <3>4, <3>6
  <2>4. /\ active_buffer = Behind(active_buffer', 1)
        /\ dma_buffer'[active_buffer] = Len(panel') + Len(dma) + 1
    BY <1>1, <2>1, OneBehind DEF Received
  <2>5. Ring'
    <3> SUFFICES ASSUME NEW j \in 1 .. Len(dma')
                 PROVE  /\ dma'[j] = Behind(active_buffer', Len(dma') - j + 1)
                        /\ dma_buffer'[dma'[j]] = Len(panel') + j
      BY DEF Ring
    <3>1. CASE j = Len(dma) + 1
      <4>1. Len(dma') - j + 1 = 1
        BY <1>1, <2>2, <3>1
      <4> QED
        BY <1>1, <2>1, <2>2, <2>4, <3>1, <4>1
    <3>2. CASE j # Len(dma) + 1
      <4>1. j \in 1 .. Len(dma)
        BY <1>1, <2>2, <3>2
      <4> QED
        BY <2>3, <4>1
    <3> QED
      BY <3>1, <3>2
  <2>6. Received'
    <3>1. Len(panel) + Len(dma) = chunks /\ \A j \in 1 .. Len(panel) : panel[j] = j
      BY <2>1 DEF Received
    <3>2. Len(panel') + Len(dma') = chunks'
      BY <1>1, <2>1, <2>2, <3>1
    <3> QED
      BY <2>1, <3>1, <3>2 DEF Received
  <2> QED
    BY <2>5, <2>6
\* The oldest buffer holds the chunk that is due.
<1>11. CASE TransDone
  <2>1. /\ Ring /\ Received /\ dma # <<>> /\ dma' = Tail(dma)
        /\ panel' = Append(panel, dma_buffer[Head(dma)])
        /\ UNCHANGED <<dma_buffer, active_buffer, chunks>>
    BY <1>11 DEF TransDone
  <2>2. /\ Len(dma) >= 1 /\ Len(dma') = Len(dma) - 1 /\ Head(dma) = dma[1]
        /\ \A j \in 1 .. Len(dma') : dma'[j] = dma[j + 1]
    BY <1>1, <2>1
  <2>3. dma_buffer[Head(dma)] = Len(panel) + 1
    BY <1>1, <2>1, <2>2 DEF Ring
  <2>4. /\ Len(panel') = Len(panel) + 1 /\ panel'[Len(panel) + 1] = Len(panel) + 1
        /\ \A j \in 1 .. Len(panel) : panel'[j] = panel[j]
    BY <1>1, <2>1, <2>3
  <2>5. Received'
    <3>1. Len(panel) + Len(dma) = chunks /\ \A j \in 1 .. Len(panel) : panel[j] = j
      BY <2>1 DEF Received
    <3>2. Len(panel') + Len(dma') = chunks'
      <4>1. /\ Len(panel') = Len(panel) + 1 /\ Len(dma') = Len(dma) - 1
            /\ chunks' = chunks
        BY <2>1, <2>2, <2>4
      <4>2. Len(panel) \in Nat /\ Len(dma) \in Nat
        BY <1>1
      <4>3. Len(panel) + Len(dma) = chunks
        BY <3>1
      <4> QED
        BY <4>1, <4>2, <4>3
    <3>3. ASSUME NEW j \in 1 .. Len(panel') PROVE panel'[j] = j
      BY <1>1, <2>4, <3>1, SMTT(30)
    <3> QED
      BY <3>2, <3>3 DEF Received
  <2>6. ASSUME NEW j \in 1 .. Len(dma')
        PROVE  /\ dma'[j] = Behind(active_buffer', Len(dma') - j + 1)
               /\ dma_buffer'[dma'[j]] = Len(panel') + j
    <3>1. j + 1 \in 1 .. Len(dma) /\ dma'[j] = dma[j + 1]
      BY <1>1, <2>2
    <3>2. /\ dma[j + 1] = Behind(active_buffer, Len(dma) - (j + 1) + 1)
          /\ dma_buffer[dma[j + 1]] = Len(panel) + (j + 1)
      BY <2>1, <3>1 DEF Ring
    <3>3. Len(dma) - (j + 1) + 1 = Len(dma') - j + 1
          /\ Len(panel) + (j + 1) = Len(panel') + j
      BY <1>1, <2>2, <2>4
    <3> QED
      BY <2>1, <3>1, <3>2, <3>3
  <2> QED
    BY <2>5, <2>6 DEF Ring
<1> QED
  BY <1>4, <1>5, <1>6, <1>7, <1>8, <1>9, <1>10, <1>11 DEF Next, Wait, Method

\* PanelInOrder: with any number of DMA buffers no chunk is copied over one
\* that is still queued, so the panel gets each once, whole and in order.
THEOREM InOrder == Spec => []PanelInOrder
<1> DEFINE IInv == ~desynced => Ring /\ Received
<1>1. Init => IInv
  BY DEF Init, Ring, Received
<1>2. TypeOK /\ InflightExact /\ IInv /\ [Next]_vars => IInv'
  <2> SUFFICES ASSUME TypeOK, InflightExact, IInv, [Next]_vars
               PROVE  IInv'
    OBVIOUS
  <2>1. CASE Next
    BY <2>1, OrderStep
  <2>2. CASE UNCHANGED vars
    BY <2>2 DEF vars, Ring, Received
  <2> QED
    BY <2>1, <2>2
<1>3. IInv => PanelInOrder
  BY DEF Received, PanelInOrder
<1> QED
  BY <1>1, <1>2, <1>3, Typing, Counted, PTL DEF Spec
=============================================================================
