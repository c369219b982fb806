----------------------------- MODULE QspiTransfer -----------------------------
(***************************************************************************)
(* The double-buffered DMA transfers of the ESP32-S3 QSPIBus               *)
(* (src/src/ports/esp32/mod_qspibus.c).                                    *)
(*                                                                         *)
(* A colour payload is cut into chunks.  Each is copied into one of the    *)
(* DMA buffers, taken in turn, and queued on the SPI peripheral; the       *)
(* completion ISR gives a counting semaphore, and the sender takes it once *)
(* per chunk, before it reuses a buffer (send) and for all of them at the  *)
(* end (write_data).  A wait that lasts a second, or a driver error, makes *)
(* the code forget every transfer it has in flight                         *)
(* (qspibus_reset_transfer_state) and raise.                               *)
(*                                                                         *)
(* The SPI driver is modelled from how the file uses it: a queue of        *)
(* QSPI_DMA_BUFFER_COUNT transfers completed in order.  transfer_in_       *)
(* progress is always inflight_transfers > 0 and has no variable.          *)
(***************************************************************************)
EXTENDS Integers, Sequences

CONSTANTS QSPI_DMA_BUFFER_COUNT,
          MaxPayload,   \* bound: chunks in one payload
          MaxChunks     \* bound: chunks sent over an object's life

ASSUME CountAssumption == QSPI_DMA_BUFFER_COUNT \in Nat \ {0}
ASSUME BoundAssumption == MaxPayload \in Nat /\ MaxChunks \in Nat

Buffer == 0 .. QSPI_DMA_BUFFER_COUNT - 1

VARIABLES
  dma_buffer,           \* the chunk last copied into each DMA buffer; 0: none
  active_buffer,        \* the buffer the next chunk is copied into
  inflight_transfers,   \* transfers the code believes are in flight
  transfer_done_sem,    \* the counting semaphore
  in_transaction, has_pending_command,
  pc,                   \* where the VM thread is
  op,                   \* the method it is in
  remaining,            \* chunks of the payload not yet queued
  chunks,               \* chunks queued over the object's life
  dma,                  \* SPI driver: the queued buffers, oldest first
  panel,                \* the chunks the panel has received
  desynced              \* history: in-flight transfers were once forgotten

vars == <<dma_buffer, active_buffer, inflight_transfers, transfer_done_sem,
          in_transaction, has_pending_command, pc, op, remaining, chunks, dma,
          panel, desynced>>
transfer == <<dma_buffer, active_buffer, inflight_transfers,
              transfer_done_sem>>
command == <<in_transaction, has_pending_command>>
control == <<pc, op, remaining>>
wire == <<chunks, dma, panel>>

Init == /\ dma_buffer = [b \in Buffer |-> 0]
        /\ active_buffer = 0
        /\ inflight_transfers = 0
        /\ transfer_done_sem = 0
        /\ in_transaction = FALSE
        /\ has_pending_command = FALSE
        /\ pc = "idle"
        /\ op = "none"
        /\ remaining = 0
        /\ chunks = 0
        /\ dma = <<>>
        /\ panel = <<>>
        /\ desynced = FALSE

Goto(label) == pc' = label /\ UNCHANGED <<op, remaining>>
Return == pc' = "idle" /\ op' = "none" /\ remaining' = 0

-----------------------------------------------------------------------------
(* Waiting.                                                                *)

\* The program counters where a full pipeline makes the code wait for one
\* transfer, and those where it waits for all of them.
WaitsForOneLate == /\ pc \in {"flush", "param", "chunk"}   \* mutant: off by one
                   /\ inflight_transfers > QSPI_DMA_BUFFER_COUNT
WaitsForOne == pc \in {"flush", "param", "chunk"}
               /\ inflight_transfers >= QSPI_DMA_BUFFER_COUNT
WaitsForAll == /\ (pc = "begin" /\ ~in_transaction) \/ pc \in {"drain", "sleep"}
               /\ inflight_transfers > 0
Waits == WaitsForOne \/ WaitsForAll

\* qspibus_wait_one_transfer_done(), when the semaphore comes.
TakeUncounted ==    \* mutant: the transfer still counts as in flight
  /\ Waits
  /\ transfer_done_sem > 0
  /\ transfer_done_sem' = transfer_done_sem - 1
  /\ UNCHANGED <<dma_buffer, active_buffer, inflight_transfers, command,
                 control, wire, desynced>>
TakeDone == /\ Waits
            /\ transfer_done_sem > 0
            /\ transfer_done_sem' = transfer_done_sem - 1
            /\ inflight_transfers' = inflight_transfers - 1
            /\ UNCHANGED <<dma_buffer, active_buffer, command, control, wire,
                           desynced>>

\* qspibus_reset_transfer_state(): the count and the semaphore are cleared,
\* the transfers themselves go on.
ResetTransferState == /\ inflight_transfers' = 0
                      /\ transfer_done_sem' = 0
                      /\ desynced' = (desynced \/ dma # <<>>)
                      /\ UNCHANGED <<dma_buffer, active_buffer>>

\* The wait times out.  The senders raise and leave the command state as it
\* is; begin_transaction() is tried again, deinit() goes on regardless.
TimeoutStays ==     \* mutant: a timed-out begin_transaction() keeps waiting
  /\ Waits
  /\ transfer_done_sem = 0
  /\ pc \notin {"begin", "sleep"}
  /\ ResetTransferState
  /\ Return
  /\ UNCHANGED <<command, wire>>
TakeTimeout == /\ Waits
               /\ transfer_done_sem = 0
               /\ ResetTransferState
               /\ IF pc \in {"begin", "sleep"} THEN UNCHANGED control
                                               ELSE Return
               /\ UNCHANGED <<command, wire>>

-----------------------------------------------------------------------------
(* The methods.                                                            *)

\* send(command, data): a command still pending is sent first, then the
\* transaction begins.  n = 0 stands for a payload sent with the command.
SendCall(n) == /\ pc = "idle"
               /\ chunks + n <= MaxChunks
               /\ pc' = IF has_pending_command THEN "flush" ELSE "begin"
               /\ op' = "send"
               /\ remaining' = n
               /\ UNCHANGED <<transfer, command, wire, desynced>>

\* write_command(command): stages the command; one already staged is sent
\* first.
WriteCommandCall == /\ pc = "idle"
                    /\ ~in_transaction
                    /\ IF has_pending_command
                         THEN /\ pc' = "flush"
                              /\ op' = "write_command"
                              /\ UNCHANGED <<remaining, has_pending_command>>
                         ELSE /\ has_pending_command' = TRUE
                              /\ UNCHANGED control
                    /\ UNCHANGED <<transfer, in_transaction, wire, desynced>>

\* write_data(data), for the staged command.
WriteDataCall(n) == /\ pc = "idle"
                    /\ ~in_transaction
                    /\ has_pending_command
                    /\ chunks + n <= MaxChunks
                    /\ pc' = IF n = 0 THEN "param" ELSE "color"
                    /\ op' = "write_data"
                    /\ remaining' = n
                    /\ UNCHANGED <<transfer, command, wire, desynced>>

\* qspibus_send_command_bytes() of the pending command, past its wait.
TxParam ==
  /\ pc \in {"flush", "param"}
  /\ ~Waits
  /\ \/ /\ pc = "flush" /\ op = "send"
        /\ has_pending_command' = FALSE
        /\ Goto("begin")
        /\ UNCHANGED in_transaction
     \/ /\ pc = "flush" /\ op = "write_command"
        /\ has_pending_command' = TRUE
        /\ Return
        /\ UNCHANGED in_transaction
     \/ /\ pc = "param"
        /\ has_pending_command' = FALSE
        /\ in_transaction' = FALSE
        /\ Return
  /\ UNCHANGED <<transfer, wire, desynced>>

\* The SPI driver refuses the command.
TxParamError == /\ pc \in {"flush", "param"}
                /\ ~Waits
                /\ ResetTransferState
                /\ Return
                /\ UNCHANGED <<command, wire>>

\* qspibus_begin_transaction() succeeds and send() stages its command.
Begin == /\ pc = "begin"
         /\ ~in_transaction /\ ~has_pending_command
         /\ ~Waits
         /\ in_transaction' = TRUE
         /\ has_pending_command' = TRUE
         /\ Goto(IF remaining > 0 THEN "color" ELSE "param")
         /\ UNCHANGED <<transfer, wire, desynced>>

\* The loop around begin_transaction() polls for events, and an exception
\* raised there (Ctrl-C) leaves send().
Interrupted == /\ pc = "begin"
               /\ Return
               /\ UNCHANGED <<transfer, command, wire, desynced>>

\* qspibus_send_color_bytes() starts: with nothing in flight, stray
\* completions are thrown away.
ColorStart == /\ pc = "color"
              /\ transfer_done_sem' = IF inflight_transfers = 0
                                      THEN 0 ELSE transfer_done_sem
              /\ Goto("chunk")
              /\ UNCHANGED <<dma_buffer, active_buffer, inflight_transfers,
                             command, wire, desynced>>

\* The copy of the next chunk into the active buffer.
CopyChunk == dma_buffer' = [dma_buffer EXCEPT ![active_buffer] = chunks + 1]

\* One round of the chunk loop, past its wait.
TxColorUnflipped == \* mutant: always the same buffer
  /\ pc = "chunk" /\ remaining > 0
  /\ ~Waits
  /\ Len(dma) < QSPI_DMA_BUFFER_COUNT
  /\ CopyChunk
  /\ dma' = Append(dma, active_buffer)
  /\ chunks' = chunks + 1
  /\ inflight_transfers' = inflight_transfers + 1
  /\ remaining' = remaining - 1
  /\ UNCHANGED <<active_buffer, transfer_done_sem, command, pc, op, panel,
                 desynced>>
TxColor == /\ pc = "chunk" /\ remaining > 0
           /\ ~Waits
           /\ Len(dma) < QSPI_DMA_BUFFER_COUNT
           /\ CopyChunk
           /\ dma' = Append(dma, active_buffer)
           /\ chunks' = chunks + 1
           /\ inflight_transfers' = inflight_transfers + 1
           /\ active_buffer' = (active_buffer + 1) % QSPI_DMA_BUFFER_COUNT
           /\ remaining' = remaining - 1
           /\ UNCHANGED <<transfer_done_sem, command, pc, op, panel, desynced>>

\* The SPI driver refuses the chunk, which is already in the buffer.
TxColorError == /\ pc = "chunk" /\ remaining > 0
                /\ ~Waits
                /\ CopyChunk
                /\ inflight_transfers' = 0
                /\ transfer_done_sem' = 0
                /\ desynced' = (desynced \/ dma # <<>>)
                /\ Return
                /\ UNCHANGED <<active_buffer, command, wire>>

\* All chunks queued: send() ends its transaction and returns with them in
\* flight, write_data() waits for them.
ColorEnd == /\ pc = "chunk" /\ remaining = 0
            /\ IF op = "send" THEN /\ has_pending_command' = FALSE
                                   /\ in_transaction' = FALSE
                                   /\ Return
                              ELSE /\ Goto("drain")
                                   /\ UNCHANGED command
            /\ UNCHANGED <<transfer, wire, desynced>>

DrainDone == /\ pc = "drain"
             /\ ~Waits
             /\ has_pending_command' = FALSE
             /\ Return
             /\ UNCHANGED <<transfer, in_transaction, wire, desynced>>

\* deinit(), __del__ and the soft-reset teardown: wait for the transfers,
\* then free the semaphore and the buffers.
DeinitCall == /\ pc = "idle"
              /\ pc' = "sleep"
              /\ op' = "deinit"
              /\ UNCHANGED <<transfer, command, remaining, wire, desynced>>

DeinitUnwaited ==   \* mutant: the buffers are freed at once
  /\ pc = "sleep"
  /\ pc' = "dead"
  /\ dma_buffer' = [b \in Buffer |-> 0]
  /\ active_buffer' = 0
  /\ inflight_transfers' = 0
  /\ transfer_done_sem' = 0
  /\ in_transaction' = FALSE
  /\ has_pending_command' = FALSE
  /\ UNCHANGED <<op, remaining, wire, desynced>>
DeinitDone == /\ pc = "sleep"
              /\ ~Waits
              /\ pc' = "dead"
              /\ dma_buffer' = [b \in Buffer |-> 0]
              /\ active_buffer' = 0
              /\ inflight_transfers' = 0
              /\ transfer_done_sem' = 0
              /\ in_transaction' = FALSE
              /\ has_pending_command' = FALSE
              /\ UNCHANGED <<op, remaining, wire, desynced>>

\* The constructor, once the driver has let go of the old transfers.
Make == /\ pc = "dead"
        /\ dma = <<>>
        /\ Return
        /\ chunks' = 0
        /\ panel' = <<>>
        /\ desynced' = FALSE
        /\ UNCHANGED <<transfer, command, dma>>

-----------------------------------------------------------------------------
\* The oldest transfer completes: the panel has what its buffer held, and
\* qspibus_on_color_trans_done() gives the semaphore, which saturates.  On a
\* deinited object it does nothing.
TransDone == /\ dma # <<>>
             /\ dma' = Tail(dma)
             /\ panel' = Append(panel, dma_buffer[Head(dma)])
             /\ transfer_done_sem' =
                  IF pc # "dead" /\ transfer_done_sem < QSPI_DMA_BUFFER_COUNT
                  THEN transfer_done_sem + 1 ELSE transfer_done_sem
             /\ UNCHANGED <<dma_buffer, active_buffer, inflight_transfers,
                            command, control, chunks, desynced>>

-----------------------------------------------------------------------------
Wait == TakeDone \/ TakeTimeout

Method == \/ TxParam \/ TxParamError \/ Begin \/ ColorStart
          \/ TxColor \/ TxColorError \/ ColorEnd \/ DrainDone \/ DeinitDone

Next == \/ \E n \in 0 .. MaxPayload : SendCall(n) \/ WriteDataCall(n)
        \/ WriteCommandCall
        \/ DeinitCall \/ Make
        \/ Wait \/ Method \/ Interrupted
        \/ TransDone

\* A method that is not waiting runs on, and a wait ends within a second
\* even when the transfer does not: nothing is asked of the SPI peripheral,
\* whose transfers may never complete.
Fairness == WF_vars(Method) /\ WF_vars(Wait)

Spec == Init /\ [][Next]_vars /\ Fairness

-----------------------------------------------------------------------------
(* Properties.                                                             *)

\* The type invariant.
TypeOK == /\ dma_buffer \in [Buffer -> 0 .. MaxChunks + 1]
          /\ active_buffer \in Buffer
          /\ inflight_transfers \in 0 .. QSPI_DMA_BUFFER_COUNT
          /\ transfer_done_sem \in 0 .. QSPI_DMA_BUFFER_COUNT
          /\ in_transaction \in BOOLEAN
          /\ has_pending_command \in BOOLEAN
          /\ pc \in {"idle", "flush", "begin", "color", "chunk", "param",
                     "drain", "sleep", "dead"}
          /\ op \in {"none", "send", "write_command", "write_data", "deinit"}
          /\ remaining \in 0 .. MaxPayload
          /\ chunks \in 0 .. MaxChunks
          /\ dma \in Seq(Buffer) /\ Len(dma) <= QSPI_DMA_BUFFER_COUNT
          /\ panel \in Seq(0 .. MaxChunks + 1)
          /\ desynced \in BOOLEAN

\* The count of transfers in flight is exact until one is forgotten: each is
\* either still with the SPI peripheral or has its semaphore waiting.  The
\* semaphore therefore never saturates, and a wait is never for nothing.
InflightExact ==
  ~desynced => inflight_transfers = transfer_done_sem + Len(dma)

\* A chunk is never copied over one the DMA has not sent: until a transfer
\* is forgotten the panel receives every chunk once, whole and in order.
PanelInOrder ==
  ~desynced => /\ Len(panel) + Len(dma) = chunks
               /\ \A i \in 1 .. Len(panel) : panel[i] = i

\* The DMA buffers are not freed under a transfer, until one is forgotten.
BuffersOutliveTransfers == pc = "dead" /\ ~desynced => dma = <<>>

\* Every method returns, even when no transfer ever completes, with two
\* exceptions: a send() that finds the transaction of an earlier, failed one
\* still open loops until it is interrupted, and a colour payload waits in
\* the driver while its queue is full of transfers the code has forgotten.
MethodsReturn ==
  pc \notin {"idle", "dead"}
    ~> \/ pc \in {"idle", "dead"}
       \/ pc = "begin" /\ in_transaction
       \/ pc = "chunk" /\ desynced
=============================================================================
