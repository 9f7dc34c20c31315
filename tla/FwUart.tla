------------------------------- MODULE FwUart -------------------------------
(***************************************************************************)
(* What the master and the slave of the firmware update by UART share: the *)
(* frames of src/fw_update/fw_update.h, the PHY of fw_update_phy.c over    *)
(* the UART's DMA, the interrupt handlers of the two programs, the queue   *)
(* of messages and the response timer.  Each node has its own copy.        *)
(*                                                                         *)
(* Unlike the radio of OtaMac the UART always listens: frames, and a       *)
(* timeout besides, can pile up in the queue.  A message is a pointer into *)
(* a ring of three receive buffers.                                        *)
(*                                                                         *)
(* Push and pop are single steps here; UpdateMsgQueue has their parts.     *)
(***************************************************************************)
EXTENDS OtaImage, FiniteSets

CONSTANTS
    NoData,    \* the data of a frame that is not a DATA frame
    TimerSlot, \* the slots of timer_list, numbered from 1: ten in the code
    Noise,     \* whether frames may be lost or spoilt on the line
    MaxHeld,   \* how many interrupts a held trigger button may swallow
    MaxLate    \* how many timeouts may come although an answer is on its way

VARIABLES
    uart,        \* [Node -> what PHY and queue keep, see Uart]
    TxFrame,     \* the frame last built, kept to be sent again
    sending,     \* the node spins in FW_UPDATE_PHY_SendData
    rspWaitTimer,\* the handle FW_UPDATE_rspWaitTimer: a slot, or NULL
    timer_list,  \* the slots that are busy and valid
    held, late

uartVars == <<uart, TxFrame, sending, rspWaitTimer, timer_list, held, late>>

NULL == 0

ASSUME TimerSlotAssumption == TimerSlot \subseteq Nat \ {NULL} /\ IsFiniteSet(TimerSlot)
ASSUME FwBoundAssumption == Noise \in BOOLEAN /\ MaxHeld \in Nat /\ MaxLate \in Nat
ASSUME FwNoDataAssumption == NoData \notin BlockOf

Node == {"master", "slave"}
Peer(n) == IF n = "master" THEN "slave" ELSE "master"

MSG_QUEUE_LEN == 4
PHY_RX_BUF_NUM == 3
FW_UPDATE_RETRY_MAX == 3

FW_UPDATE_FRAME_TYPE_CMD == 1
FW_UPDATE_FRAME_TYPE_DATA == 2
FW_UPDATE_FRAME_TYPE_ACK == 3

FW_UPDATE_CMD_ID_START_REQ == 1
FW_UPDATE_CMD_ID_START_RSP == 2
FW_UPDATE_CMD_ID_END_REQ == 3
FW_UPDATE_CMD_ID_END_RSP == 4
FW_UPDATE_CMD_ID_VERSION_REQ == 5
FW_UPDATE_CMD_ID_VERSION_RSP == 6

(* Type 0 is a zeroed buffer.  Id is the command, or the block number of a
   DATA or ACK frame; Val a command's value; Data a DATA frame's block.  Ok
   tells whether the checksum is right. *)
Frame == [Type : 0 .. 3, Id : Nat, Val : Nat, Data : BlockOf \cup {NoData}, Ok : BOOLEAN]

NoFrame == [Type |-> 0, Id |-> 0, Val |-> 0, Data |-> NoData, Ok |-> TRUE]

CmdFrame(id, val) == [NoFrame EXCEPT !.Type = FW_UPDATE_FRAME_TYPE_CMD, !.Id = id, !.Val = val]

(* Buf is the receive buffer that a DATA message points to. *)
Message == [Type : {"INVALID_DATA", "DATA", "TIMEOUT"}, Buf : 0 .. PHY_RX_BUF_NUM - 1]

INVALID_DATA == [Type |-> "INVALID_DATA", Buf |-> 0]
TIMEOUT == [Type |-> "TIMEOUT", Buf |-> 0]

(* on: FW_UPDATE_PHY_Init has run; tx: the transmitter is at work; irq: the
   DMA channels whose interrupt has not been served. *)
Uart == [on : BOOLEAN, tx : BOOLEAN, irq : SUBSET {"RX", "TX"}, PHY_TxFinished : BOOLEAN,
         PHY_RxPtr : 0 .. PHY_RX_BUF_NUM - 1, PHY_RxBuf : [0 .. PHY_RX_BUF_NUM - 1 -> Frame],
         MsgQueue : Seq(Message)]

UartOff == [on |-> FALSE, tx |-> FALSE, irq |-> {}, PHY_TxFinished |-> FALSE,
            PHY_RxPtr |-> 0, PHY_RxBuf |-> [b \in 0 .. PHY_RX_BUF_NUM - 1 |-> NoFrame],
            MsgQueue |-> << >>]

MsgQueue(n) == uart[n].MsgQueue
Msg(n) == Head(MsgQueue(n))
GotMsg(n) == MsgQueue(n) # << >>
GotData(n) == GotMsg(n) /\ Msg(n).Type = "DATA"

(* What the main loop copies into RxFrame: the buffer as it is by now. *)
RxFrame(n) == uart[n].PHY_RxBuf[Msg(n).Buf]
-----------------------------------------------------------------------------
(* FW_UPDATE_MsgQueuePush drops the message when the queue is full. *)
Push(q, msg) == IF Len(q) < MSG_QUEUE_LEN THEN Append(q, msg) ELSE q

Popped(u) == [u EXCEPT !.MsgQueue = IF @ = << >> THEN @ ELSE Tail(@)]

(* FW_UPDATE_PHY_RxIrqHandler and FW_UPDATE_RxIrq: the next buffer is given to
   the DMA before this one is looked at. *)
RxIrqHandler(u) ==
    [u EXCEPT !.PHY_RxPtr = (@ + 1) % PHY_RX_BUF_NUM,
              !.MsgQueue = Push(@, IF u.PHY_RxBuf[u.PHY_RxPtr].Ok
                                   THEN [Type |-> "DATA", Buf |-> u.PHY_RxPtr]
                                   ELSE INVALID_DATA)]

TxIrqHandler(u) == [u EXCEPT !.PHY_TxFinished = TRUE]

(* irq_handler serves the channels whose status it reads. *)
irq_handler(u) ==
    LET rx == IF "RX" \in u.irq THEN RxIrqHandler(u) ELSE u
        tx == IF "TX" \in u.irq THEN TxIrqHandler(rx) ELSE rx
    IN [tx EXCEPT !.irq = {}]

(* A DMA channel is done.  If the handler spins on the trigger button just
   then, irq_clr_src drops the request and the channel's status waits for the
   next interrupt. *)
Interrupt(u, channel, swallow) ==
    LET raised == [u EXCEPT !.irq = @ \cup {channel}]
    IN IF swallow THEN raised ELSE irq_handler(raised)

(* The DMA fills the buffer that PHY_RxPtr points to. *)
Fill(u, frame) == [u EXCEPT !.PHY_RxBuf[u.PHY_RxPtr] = frame]

Arrivals(frame) == {frame} \cup (IF Noise THEN {[frame EXCEPT !.Ok = FALSE]} ELSE {})

(* The frame has gone out: the sender's interrupt comes, and the peer has the
   frame, a spoilt one, or nothing. *)
Transmitted(n) ==
    LET p == Peer(n) IN
    /\ uart[n].tx
    /\ \E sw \in [Node -> BOOLEAN], got \in Arrivals(TxFrame[n]), lost \in BOOLEAN :
         /\ held' = held + Cardinality({m \in Node : sw[m]})
         /\ held' <= MaxHeld
         /\ lost => ~sw[p] /\ got = TxFrame[n] /\ (Noise \/ ~uart[p].on)
         /\ ~uart[p].on => lost
         /\ uart' = [uart EXCEPT
                       ![n] = Interrupt([@ EXCEPT !.tx = FALSE], "TX", sw[n]),
                       ![p] = IF lost THEN @ ELSE Interrupt(Fill(@, got), "RX", sw[p])]
    /\ UNCHANGED <<TxFrame, sending, rspWaitTimer, timer_list, late>>
-----------------------------------------------------------------------------
(* Mutant: a timer is forgotten without being cancelled. *)
Forget(n) == timer_list[n]

(* ev_unon_timer, called if the handle is not NULL: a timer that has fired is
   cancelled again. *)
Unon(n) == timer_list[n] \ {rspWaitTimer[n]}

(* ev_on_timer takes the first slot that is not busy, and spins for ever when
   there is none. *)
FirstFree(busy) == CHOOSE s \in TimerSlot \ busy : \A t \in TimerSlot \ busy : s <= t

On(n, busy) ==
    /\ busy # TimerSlot
    /\ rspWaitTimer' = [rspWaitTimer EXCEPT ![n] = FirstFree(busy)]
    /\ timer_list' = [timer_list EXCEPT ![n] = busy \cup {FirstFree(busy)}]

(* A call of MasterStart or SlaveStart: it pops, and then sends, restarts the
   timer without sending, stops the timer, or does none of these. *)
Running(n) == uart[n].on /\ ~sending[n]

Send(n, frame) ==
    /\ uart' = [uart EXCEPT ![n] = [Popped(@) EXCEPT !.tx = TRUE]]
    /\ TxFrame' = [TxFrame EXCEPT ![n] = frame]
    /\ sending' = [sending EXCEPT ![n] = TRUE]
    /\ UNCHANGED <<held, late>>

(* The timer is cancelled before the frame is sent, if it is at all. *)
SendAfterCancel(n, frame) ==
    /\ Send(n, frame)
    /\ timer_list' = [timer_list EXCEPT ![n] = Unon(n)]
    /\ rspWaitTimer' = [rspWaitTimer EXCEPT ![n] = NULL]

SendAgain(n) == Send(n, TxFrame[n]) /\ UNCHANGED <<rspWaitTimer, timer_list>>

RestartTimer(n) ==
    /\ uart' = [uart EXCEPT ![n] = Popped(@)]
    /\ On(n, Unon(n))
    /\ UNCHANGED <<TxFrame, sending, held, late>>

StopTimer(n) ==
    /\ uart' = [uart EXCEPT ![n] = Popped(@)]
    /\ timer_list' = [timer_list EXCEPT ![n] = Unon(n)]
    /\ rspWaitTimer' = [rspWaitTimer EXCEPT ![n] = NULL]
    /\ UNCHANGED <<TxFrame, sending, held, late>>

PopOnly(n) ==
    /\ uart' = [uart EXCEPT ![n] = Popped(@)]
    /\ UNCHANGED <<TxFrame, sending, rspWaitTimer, timer_list, held, late>>

(* The spin on PHY_TxFinished ends; the timer is started, unless nothing more
   is awaited. *)
Sent(n, wait) ==
    /\ sending[n] /\ uart[n].PHY_TxFinished
    /\ uart' = [uart EXCEPT ![n].PHY_TxFinished = FALSE]
    /\ sending' = [sending EXCEPT ![n] = FALSE]
    /\ IF wait THEN On(n, Unon(n)) ELSE UNCHANGED <<rspWaitTimer, timer_list>>
    /\ UNCHANGED <<TxFrame, held, late>>

(* Nothing that n would answer or be answered by is under way. *)
Silent == \A n \in Node : ~uart[n].tx /\ MsgQueue(n) = << >> /\ ~sending[n]

(* ev_process_timer calls FW_UPDATE_rspWaitTimerCb, which returns -1: the slot
   is freed, the handle stays. *)
TimerFires(n) ==
    /\ Running(n)
    /\ \E s \in timer_list[n] : timer_list' = [timer_list EXCEPT ![n] = @ \ {s}]
    /\ uart' = [uart EXCEPT ![n].MsgQueue = Push(@, TIMEOUT)]
    /\ IF Silent THEN UNCHANGED late ELSE late < MaxLate /\ late' = late + 1
    /\ UNCHANGED <<TxFrame, sending, rspWaitTimer, held>>

(* Reset and deep sleep both end in cstartup_flash.S, which clears .bss. *)
UartReset(n) ==
    /\ uart' = [uart EXCEPT ![n] = UartOff]
    /\ TxFrame' = [TxFrame EXCEPT ![n] = NoFrame]
    /\ sending' = [sending EXCEPT ![n] = FALSE]
    /\ rspWaitTimer' = [rspWaitTimer EXCEPT ![n] = NULL]
    /\ timer_list' = [timer_list EXCEPT ![n] = {}]
    /\ UNCHANGED <<held, late>>

FW_UPDATE_PHY_Init(n) ==
    /\ uart' = [uart EXCEPT ![n].on = TRUE]
    /\ UNCHANGED <<TxFrame, sending, rspWaitTimer, timer_list, held, late>>

UartInit ==
    /\ uart = [n \in Node |-> UartOff]
    /\ TxFrame = [n \in Node |-> NoFrame]
    /\ sending = [n \in Node |-> FALSE]
    /\ rspWaitTimer = [n \in Node |-> NULL]
    /\ timer_list = [n \in Node |-> {}]
    /\ held = 0
    /\ late = 0

UartTypeOK ==
    /\ uart \in [Node -> Uart]
    /\ \A n \in Node : Len(MsgQueue(n)) <= MSG_QUEUE_LEN
    /\ TxFrame \in [Node -> Frame]
    /\ sending \in [Node -> BOOLEAN]
    /\ rspWaitTimer \in [Node -> TimerSlot \cup {NULL}]
    /\ timer_list \in [Node -> SUBSET TimerSlot]
    /\ held \in 0 .. MaxHeld
    /\ late \in 0 .. MaxLate
=============================================================================
