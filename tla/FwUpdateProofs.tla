--------------------------- MODULE FwUpdateProofs ----------------------------
(***************************************************************************)
(* Theorems about FwUpdate, for every set of images, any number of timer   *)
(* slots, and with or without noise and power failures; also for any       *)
(* number of button presses, late timeouts and swallowed interrupts,       *)
(* except where a theorem says otherwise.                                  *)
(***************************************************************************)
EXTENDS FwUpdate, FiniteSetTheorems, WellFoundedInduction, TLAPS

USE DEF Node, Peer

(* A DATA frame has a block in it, wherever it is. *)
GoodFrame == {f \in Frame : f.Type = FW_UPDATE_FRAME_TYPE_DATA => f.Data \in BlockOf}

RxBuffer == 0 .. PHY_RX_BUF_NUM - 1

GoodUart == {u \in Uart : /\ Len(u.MsgQueue) <= MSG_QUEUE_LEN
                          /\ u.PHY_RxBuf \in [RxBuffer -> GoodFrame]}

UartInv ==
    /\ uart \in [Node -> GoodUart]
    /\ TxFrame \in [Node -> GoodFrame]
    /\ sending \in [Node -> BOOLEAN]
    /\ rspWaitTimer \in [Node -> TimerSlot \cup {NULL}]
    /\ timer_list \in [Node -> SUBSET TimerSlot]
    /\ held \in 0 .. MaxHeld
    /\ late \in 0 .. MaxLate

LEMMA UartInvType == UartInv => UartTypeOK
BY DEF UartInv, UartTypeOK, GoodUart, GoodFrame, MsgQueue

LEMMA NoFrameType == NoFrame \in GoodFrame
BY DEF NoFrame, GoodFrame, Frame, FW_UPDATE_FRAME_TYPE_DATA

LEMMA CmdFrameType ==
    ASSUME NEW id \in Nat, NEW val \in Nat
    PROVE  CmdFrame(id, val) \in GoodFrame
<1>1. NoFrame \in Frame
  BY NoFrameType DEF GoodFrame
<1>2. 1 \in 0 .. 3
  OBVIOUS
<1>3. CmdFrame(id, val) = [NoFrame EXCEPT !.Type = 1, !.Id = id, !.Val = val]
  BY DEF CmdFrame, FW_UPDATE_FRAME_TYPE_CMD
<1>4. CmdFrame(id, val) \in Frame /\ CmdFrame(id, val).Type = 1
  BY <1>1, <1>2, <1>3 DEF Frame
<1> QED
  BY <1>4 DEF GoodFrame, Frame, FW_UPDATE_FRAME_TYPE_CMD, FW_UPDATE_FRAME_TYPE_DATA

(* What the handlers do to one node's PHY and queue. *)
LEMMA PushType ==
    ASSUME NEW q \in Seq(Message), Len(q) <= MSG_QUEUE_LEN, NEW msg \in Message
    PROVE  /\ Push(q, msg) \in Seq(Message) /\ Len(Push(q, msg)) <= MSG_QUEUE_LEN
           /\ Push(q, msg) # << >>
BY DEF Push, MSG_QUEUE_LEN

LEMMA PoppedType ==
    ASSUME NEW u \in GoodUart
    PROVE  Popped(u) \in GoodUart
<1>1. u.MsgQueue \in Seq(Message) /\ Len(u.MsgQueue) <= MSG_QUEUE_LEN
  BY DEF GoodUart, Uart
<1>2. u.MsgQueue # << >> => /\ Tail(u.MsgQueue) \in Seq(Message)
                            /\ Len(Tail(u.MsgQueue)) <= MSG_QUEUE_LEN
  BY <1>1 DEF MSG_QUEUE_LEN
<1> DEFINE q == IF u.MsgQueue = << >> THEN u.MsgQueue ELSE Tail(u.MsgQueue)
<1>3. q \in Seq(Message) /\ Len(q) <= MSG_QUEUE_LEN
  BY <1>1, <1>2
<1>4. Popped(u) = [u EXCEPT !.MsgQueue = q]
  BY DEF Popped
<1> HIDE DEF q
<1> QED
  BY <1>3, <1>4 DEF GoodUart, Uart

LEMMA RxIrqType ==
    ASSUME NEW u \in GoodUart
    PROVE  /\ RxIrqHandler(u) \in GoodUart
           /\ RxIrqHandler(u).MsgQueue # << >>
<1> DEFINE msg == IF u.PHY_RxBuf[u.PHY_RxPtr].Ok
                  THEN [Type |-> "DATA", Buf |-> u.PHY_RxPtr]
                  ELSE INVALID_DATA
           q == Push(u.MsgQueue, msg)
           ptr == (u.PHY_RxPtr + 1) % PHY_RX_BUF_NUM
<1>1. u.PHY_RxPtr \in RxBuffer /\ u.MsgQueue \in Seq(Message) /\ Len(u.MsgQueue) <= MSG_QUEUE_LEN
  BY DEF GoodUart, Uart, RxBuffer
<1>2. msg \in Message
  BY <1>1 DEF Message, INVALID_DATA, RxBuffer, PHY_RX_BUF_NUM
<1>3. q \in Seq(Message) /\ Len(q) <= MSG_QUEUE_LEN /\ q # << >>
  BY <1>1, <1>2, PushType
<1>4. ptr \in RxBuffer
  BY <1>1 DEF RxBuffer, PHY_RX_BUF_NUM
<1>5. RxIrqHandler(u) = [u EXCEPT !.PHY_RxPtr = ptr, !.MsgQueue = q]
  BY DEF RxIrqHandler
<1> HIDE DEF q, ptr
<1> QED
  BY <1>3, <1>4, <1>5 DEF GoodUart, Uart, RxBuffer

LEMMA IrqType ==
    ASSUME NEW u \in GoodUart
    PROVE  /\ irq_handler(u) \in GoodUart
           /\ irq_handler(u).on = u.on
           /\ u.MsgQueue # << >> => irq_handler(u).MsgQueue # << >>
<1> DEFINE rx == IF "RX" \in u.irq THEN RxIrqHandler(u) ELSE u
           tx == IF "TX" \in u.irq THEN TxIrqHandler(rx) ELSE rx
<1>1. /\ rx \in GoodUart /\ rx.on = u.on
      /\ u.MsgQueue # << >> => rx.MsgQueue # << >>
  <2>1. RxIrqHandler(u).on = u.on
    BY DEF RxIrqHandler, GoodUart, Uart
  <2> QED
    BY <2>1, RxIrqType
<1> HIDE DEF rx
<1>2. tx \in GoodUart /\ tx.on = rx.on /\ tx.MsgQueue = rx.MsgQueue
  BY <1>1 DEF TxIrqHandler, GoodUart, Uart
<1>3. irq_handler(u) = [tx EXCEPT !.irq = {}]
  BY DEF irq_handler, rx
<1> HIDE DEF tx
<1> QED
  BY <1>1, <1>2, <1>3 DEF GoodUart, Uart

LEMMA InterruptType ==
    ASSUME NEW u \in GoodUart, NEW channel \in {"RX", "TX"}, NEW swallow \in BOOLEAN
    PROVE  /\ Interrupt(u, channel, swallow) \in GoodUart
           /\ Interrupt(u, channel, swallow).on = u.on
           /\ u.MsgQueue # << >> => Interrupt(u, channel, swallow).MsgQueue # << >>
<1> DEFINE raised == [u EXCEPT !.irq = u.irq \cup {channel}]
<1>1. raised \in GoodUart /\ raised.on = u.on /\ raised.MsgQueue = u.MsgQueue
  BY DEF GoodUart, Uart
<1>2. Interrupt(u, channel, swallow) = IF swallow THEN raised ELSE irq_handler(raised)
  BY DEF Interrupt
<1> HIDE DEF raised
<1> QED
  BY <1>1, <1>2, IrqType

LEMMA FillType ==
    ASSUME NEW u \in GoodUart, NEW f \in GoodFrame
    PROVE  /\ Fill(u, f) \in GoodUart
           /\ Fill(u, f).on = u.on
           /\ Fill(u, f).MsgQueue = u.MsgQueue
<1> DEFINE buf == [u.PHY_RxBuf EXCEPT ![u.PHY_RxPtr] = f]
<1>1. buf \in [RxBuffer -> GoodFrame] /\ buf \in [RxBuffer -> Frame]
  BY DEF GoodUart, GoodFrame
<1>2. Fill(u, f) = [u EXCEPT !.PHY_RxBuf = buf]
  BY DEF Fill
<1> HIDE DEF buf
<1> QED
  BY <1>1, <1>2 DEF GoodUart, Uart, RxBuffer

LEMMA FieldType ==
    ASSUME NEW u \in GoodUart
    PROVE  /\ [u EXCEPT !.on = TRUE] \in GoodUart
           /\ [u EXCEPT !.tx = TRUE] \in GoodUart
           /\ [u EXCEPT !.tx = FALSE] \in GoodUart
           /\ [u EXCEPT !.PHY_TxFinished = FALSE] \in GoodUart
BY DEF GoodUart, Uart

LEMMA QueueType ==
    ASSUME NEW u \in GoodUart, NEW q \in Seq(Message), Len(q) <= MSG_QUEUE_LEN
    PROVE  [u EXCEPT !.MsgQueue = q] \in GoodUart
BY DEF GoodUart, Uart

(* The frame that arrives is the sender's, or the sender's spoilt. *)
LEMMA ArrivalType ==
    ASSUME NEW f \in GoodFrame, NEW got \in Arrivals(f)
    PROVE  got \in GoodFrame
<1>1. [f EXCEPT !.Ok = FALSE] \in GoodFrame
  BY DEF GoodFrame, Frame
<1> QED
  BY <1>1 DEF Arrivals

LEMMA TransmittedType ==
    ASSUME UartInv, NEW n \in Node, Transmitted(n)
    PROVE  /\ UartInv'
           /\ UNCHANGED <<sending, rspWaitTimer, timer_list>>
           /\ \A m \in Node : uart'[m].on = uart[m].on
           /\ \A m \in Node : MsgQueue(m) # << >> => uart'[m].MsgQueue # << >>
<1> DEFINE p == Peer(n)
           quiet == [uart[n] EXCEPT !.tx = FALSE]
<1>1. PICK sw \in [Node -> BOOLEAN], got \in Arrivals(TxFrame[n]), lost \in BOOLEAN :
        /\ held' = held + Cardinality({m \in Node : sw[m]})
        /\ held' <= MaxHeld
        /\ uart' = [uart EXCEPT
                      ![n] = Interrupt(quiet, "TX", sw[n]),
                      ![p] = IF lost THEN uart[p] ELSE Interrupt(Fill(uart[p], got), "RX", sw[p])]
  BY DEF Transmitted
<1>2. /\ quiet \in GoodUart /\ quiet.on = uart[n].on /\ quiet.MsgQueue = uart[n].MsgQueue
  <2>1. uart[n] \in GoodUart
    BY DEF UartInv
  <2>2. quiet \in GoodUart
    BY <2>1, FieldType
  <2> QED
    BY <2>1, <2>2 DEF GoodUart, Uart
<1>3. /\ Interrupt(quiet, "TX", sw[n]) \in GoodUart
      /\ Interrupt(quiet, "TX", sw[n]).on = uart[n].on
      /\ uart[n].MsgQueue # << >> => Interrupt(quiet, "TX", sw[n]).MsgQueue # << >>
  <2>1. sw[n] \in BOOLEAN
    BY Zenon
  <2> HIDE DEF quiet
  <2> QED
    BY <1>2, <2>1, InterruptType, Zenon
<1> HIDE DEF quiet
<1> DEFINE filled == Fill(uart[p], got)
<1>4. p \in Node /\ p # n /\ uart[p] \in GoodUart
  BY DEF UartInv
<1>5. got \in GoodFrame
  BY ArrivalType DEF UartInv
<1>6. filled \in GoodUart /\ filled.on = uart[p].on /\ filled.MsgQueue = uart[p].MsgQueue
  BY <1>4, <1>5, FillType
<1>7. /\ Interrupt(filled, "RX", sw[p]) \in GoodUart
      /\ Interrupt(filled, "RX", sw[p]).on = uart[p].on
      /\ uart[p].MsgQueue # << >> => Interrupt(filled, "RX", sw[p]).MsgQueue # << >>
  <2>1. sw[p] \in BOOLEAN
    BY <1>4, Zenon
  <2> HIDE DEF filled, p
  <2> QED
    BY <1>4, <1>6, <2>1, InterruptType, Zenon
<1>8. held' \in 0 .. MaxHeld
  <2>1. IsFiniteSet({m \in Node : sw[m]})
    <3>1. IsFiniteSet({"master"} \cup {"slave"})
      BY FS_Singleton, FS_Union
    <3> QED
      BY <3>1, FS_Subset
  <2>2. Cardinality({m \in Node : sw[m]}) \in Nat
    BY <2>1, FS_CardinalityType
  <2> QED
    BY <1>1, <2>2, FwBoundAssumption DEF UartInv
<1>9. /\ uart' \in [Node -> GoodUart]
      /\ \A m \in Node : uart'[m].on = uart[m].on
      /\ \A m \in Node : uart[m].MsgQueue # << >> => uart'[m].MsgQueue # << >>
  <2> DEFINE a == Interrupt(quiet, "TX", sw[n])
             b == IF lost THEN uart[p] ELSE Interrupt(filled, "RX", sw[p])
  <2>1. uart' = [uart EXCEPT ![n] = a, ![p] = b]
    BY <1>1
  <2>2. a \in GoodUart /\ a.on = uart[n].on /\ (uart[n].MsgQueue # << >> => a.MsgQueue # << >>)
    BY <1>3
  <2>3. b \in GoodUart /\ b.on = uart[p].on /\ (uart[p].MsgQueue # << >> => b.MsgQueue # << >>)
    BY <1>4, <1>7
  <2> HIDE DEF a, b, p
  <2>4. \A m \in Node : m = n \/ m = p
    BY DEF p
  <2> QED
    BY <1>4, <2>1, <2>2, <2>3, <2>4 DEF UartInv
<1> QED
  BY <1>8, <1>9 DEF Transmitted, UartInv, MsgQueue
-----------------------------------------------------------------------------
(***************************************************************************)
(* The timers.  The only slot that can be busy is the one of the handle,   *)
(* and it is given back before another is taken.                           *)
(***************************************************************************)
OnlyMine == \A n \in Node : timer_list[n] \subseteq {rspWaitTimer[n]}

(* There is a first free slot if there is a free one. *)
LEMMA FirstFreeType ==
    ASSUME NEW busy \in SUBSET TimerSlot, busy # TimerSlot
    PROVE  FirstFree(busy) \in TimerSlot
<1> DEFINE free == TimerSlot \ busy
           less == OpToRel(<, Nat)
<1>1. free \subseteq Nat /\ free # {}
  BY TimerSlotAssumption
<1>2. \E s \in free : \A t \in free : <<t, s>> \notin less
  <2> HIDE DEF free, less
  <2>1. IsWellFoundedOn(less, Nat)
    BY NatLessThanWellFounded DEF less
  <2> QED
    BY <1>1, <2>1, WFMin
<1>3. ASSUME NEW s \in free, NEW t \in free, <<t, s>> \notin less
      PROVE  s <= t
  BY <1>1, <1>3 DEF OpToRel
<1>4. \E s \in free : \A t \in free : s <= t
  BY <1>2, <1>3
<1> QED
  BY <1>4 DEF FirstFree

LEMMA OnType ==
    ASSUME UartInv, OnlyMine, NEW n \in Node, On(n, Unon(n))
    PROVE  /\ rspWaitTimer' \in [Node -> TimerSlot \cup {NULL}]
           /\ timer_list' \in [Node -> SUBSET TimerSlot]
           /\ OnlyMine'
           /\ rspWaitTimer'[n] \in timer_list'[n]
           /\ \A m \in Node \ {n} : /\ rspWaitTimer'[m] = rspWaitTimer[m]
                                    /\ timer_list'[m] = timer_list[m]
<1> DEFINE first == FirstFree(Unon(n))
<1>1. Unon(n) = {}
  BY DEF OnlyMine, Unon
<1>2. first \in TimerSlot
  BY <1>1, FirstFreeType DEF On
<1>3. /\ rspWaitTimer' = [rspWaitTimer EXCEPT ![n] = first]
      /\ timer_list' = [timer_list EXCEPT ![n] = {first}]
  BY <1>1 DEF On
<1> HIDE DEF first
<1> QED
  BY <1>2, <1>3 DEF UartInv, OnlyMine

LEMMA CancelType ==
    ASSUME UartInv, OnlyMine, NEW n \in Node,
           timer_list' = [timer_list EXCEPT ![n] = Unon(n)],
           rspWaitTimer' = [rspWaitTimer EXCEPT ![n] = NULL]
    PROVE  /\ rspWaitTimer' \in [Node -> TimerSlot \cup {NULL}]
           /\ timer_list' \in [Node -> SUBSET TimerSlot]
           /\ OnlyMine'
<1>1. Unon(n) = {}
  BY DEF OnlyMine, Unon
<1> QED
  BY <1>1 DEF UartInv, OnlyMine

(* A node that cannot be stuck: it is busy, or has a message, or its timer
   will bring one. *)
Timed(n) == Running(n) => GotMsg(n) \/ rspWaitTimer[n] \in timer_list[n]

(* What a step of n does not touch. *)
PeerKept(n) ==
    /\ uart'[Peer(n)] = uart[Peer(n)]
    /\ sending'[Peer(n)] = sending[Peer(n)]
    /\ rspWaitTimer'[Peer(n)] = rspWaitTimer[Peer(n)]
    /\ timer_list'[Peer(n)] = timer_list[Peer(n)]

LEMMA PeerTimed ==
    ASSUME NEW n \in Node, PeerKept(n), Timed(Peer(n))
    PROVE  Timed(Peer(n))'
BY DEF PeerKept, Timed, Running, GotMsg, MsgQueue

LEMMA SendStep ==
    ASSUME UartInv, OnlyMine, NEW n \in Node, NEW frame \in GoodFrame,
           \/ SendAfterCancel(n, frame)
           \/ Send(n, frame) /\ UNCHANGED <<rspWaitTimer, timer_list>>
    PROVE  UartInv' /\ OnlyMine' /\ PeerKept(n) /\ Timed(n)'
<1> DEFINE u == [Popped(uart[n]) EXCEPT !.tx = TRUE]
<1>1. u \in GoodUart
  <2>1. Popped(uart[n]) \in GoodUart
    BY PoppedType DEF UartInv
  <2> QED
    BY <2>1, FieldType
<1>2. /\ uart' = [uart EXCEPT ![n] = u]
      /\ TxFrame' = [TxFrame EXCEPT ![n] = frame]
      /\ sending' = [sending EXCEPT ![n] = TRUE]
      /\ UNCHANGED <<held, late>>
  BY DEF SendAfterCancel, Send
<1>3. /\ rspWaitTimer' \in [Node -> TimerSlot \cup {NULL}]
      /\ timer_list' \in [Node -> SUBSET TimerSlot]
      /\ OnlyMine'
  <2>1. CASE SendAfterCancel(n, frame)
    BY <2>1, CancelType DEF SendAfterCancel
  <2>2. CASE UNCHANGED <<rspWaitTimer, timer_list>>
    BY <2>2 DEF UartInv, OnlyMine
  <2> QED
    BY <2>1, <2>2
<1>4. rspWaitTimer'[Peer(n)] = rspWaitTimer[Peer(n)] /\ timer_list'[Peer(n)] = timer_list[Peer(n)]
  BY DEF SendAfterCancel, UartInv
<1> HIDE DEF u
<1> QED
  BY <1>1, <1>2, <1>3, <1>4 DEF UartInv, PeerKept, Timed, Running

LEMMA RestartStep ==
    ASSUME UartInv, OnlyMine, NEW n \in Node, RestartTimer(n)
    PROVE  UartInv' /\ OnlyMine' /\ PeerKept(n) /\ Timed(n)'
<1>1. Popped(uart[n]) \in GoodUart
  BY PoppedType DEF UartInv
<1>2. /\ rspWaitTimer' \in [Node -> TimerSlot \cup {NULL}]
      /\ timer_list' \in [Node -> SUBSET TimerSlot]
      /\ OnlyMine'
      /\ rspWaitTimer'[n] \in timer_list'[n]
      /\ \A m \in Node \ {n} : /\ rspWaitTimer'[m] = rspWaitTimer[m]
                               /\ timer_list'[m] = timer_list[m]
  BY OnType DEF RestartTimer
<1> QED
  BY <1>1, <1>2 DEF RestartTimer, UartInv, PeerKept, Timed

LEMMA StopStep ==
    ASSUME UartInv, OnlyMine, NEW n \in Node, StopTimer(n) \/ PopOnly(n)
    PROVE  UartInv' /\ OnlyMine' /\ PeerKept(n)
<1>1. Popped(uart[n]) \in GoodUart
  BY PoppedType DEF UartInv
<1>2. CASE StopTimer(n)
  <2>1. /\ rspWaitTimer' \in [Node -> TimerSlot \cup {NULL}]
        /\ timer_list' \in [Node -> SUBSET TimerSlot]
        /\ OnlyMine'
    BY <1>2, CancelType DEF StopTimer
  <2> QED
    BY <1>1, <1>2, <2>1 DEF StopTimer, UartInv, PeerKept
<1>3. CASE PopOnly(n)
  BY <1>1, <1>3 DEF PopOnly, UartInv, OnlyMine, PeerKept
<1> QED
  BY <1>2, <1>3

LEMMA SentStep ==
    ASSUME UartInv, OnlyMine, NEW n \in Node, NEW wait \in BOOLEAN, Sent(n, wait)
    PROVE  UartInv' /\ OnlyMine' /\ PeerKept(n) /\ (wait => Timed(n)')
<1>1. [uart[n] EXCEPT !.PHY_TxFinished = FALSE] \in GoodUart
  BY FieldType DEF UartInv
<1>2. /\ uart' = [uart EXCEPT ![n] = [uart[n] EXCEPT !.PHY_TxFinished = FALSE]]
      /\ sending' = [sending EXCEPT ![n] = FALSE]
      /\ UNCHANGED <<TxFrame, held, late>>
  BY DEF Sent
<1>3. CASE wait
  <2>1. /\ rspWaitTimer' \in [Node -> TimerSlot \cup {NULL}]
        /\ timer_list' \in [Node -> SUBSET TimerSlot]
        /\ OnlyMine'
        /\ rspWaitTimer'[n] \in timer_list'[n]
        /\ \A m \in Node \ {n} : /\ rspWaitTimer'[m] = rspWaitTimer[m]
                                 /\ timer_list'[m] = timer_list[m]
    BY <1>3, OnType DEF Sent
  <2> QED
    BY <1>1, <1>2, <2>1 DEF UartInv, PeerKept, Timed
<1>4. CASE ~wait
  <2>1. UNCHANGED <<rspWaitTimer, timer_list>>
    BY <1>4 DEF Sent
  <2> QED
    BY <1>1, <1>2, <1>4, <2>1 DEF UartInv, OnlyMine, PeerKept
<1> QED
  BY <1>3, <1>4

(* The timer that fires leaves a message behind, if it is the queue's last
   place, and else there are messages in plenty. *)
LEMMA TimerFiresStep ==
    ASSUME UartInv, OnlyMine, NEW n \in Node, TimerFires(n)
    PROVE  UartInv' /\ OnlyMine' /\ PeerKept(n) /\ Timed(n)'
<1> DEFINE q == Push(uart[n].MsgQueue, TIMEOUT)
<1>1. q \in Seq(Message) /\ Len(q) <= MSG_QUEUE_LEN /\ q # << >>
  <2>1. TIMEOUT \in Message
    BY DEF TIMEOUT, Message, PHY_RX_BUF_NUM
  <2>2. uart[n].MsgQueue \in Seq(Message) /\ Len(uart[n].MsgQueue) <= MSG_QUEUE_LEN
    BY DEF UartInv, GoodUart, Uart
  <2> QED
    BY <2>1, <2>2, PushType
<1>2. uart' = [uart EXCEPT ![n] = [uart[n] EXCEPT !.MsgQueue = q]]
  BY DEF TimerFires
<1> HIDE DEF q
<1>3. [uart[n] EXCEPT !.MsgQueue = q] \in GoodUart
  BY <1>1, QueueType DEF UartInv
<1>4. uart' \in [Node -> GoodUart] /\ uart'[n].MsgQueue = q /\ uart'[Peer(n)] = uart[Peer(n)]
  BY <1>2, <1>3 DEF UartInv, GoodUart, Uart
<1>5. PICK s \in timer_list[n] : timer_list' = [timer_list EXCEPT ![n] = timer_list[n] \ {s}]
  BY DEF TimerFires
<1>6. late' \in 0 .. MaxLate
  BY FwBoundAssumption DEF TimerFires, UartInv
<1>7. UNCHANGED <<TxFrame, sending, rspWaitTimer, held>>
  BY DEF TimerFires
<1> QED
  BY <1>1, <1>4, <1>5, <1>6, <1>7 DEF UartInv, OnlyMine, PeerKept, Timed, GotMsg, MsgQueue

LEMMA UartOffType == UartOff \in GoodUart
BY NoFrameType DEF UartOff, GoodUart, Uart, RxBuffer, PHY_RX_BUF_NUM, MSG_QUEUE_LEN, GoodFrame

LEMMA ResetStepUart ==
    ASSUME UartInv, OnlyMine, NEW n \in Node, UartReset(n)
    PROVE  UartInv' /\ OnlyMine' /\ PeerKept(n)
BY UartOffType, NoFrameType DEF UartReset, UartInv, OnlyMine, PeerKept

LEMMA PhyInitStep ==
    ASSUME UartInv, OnlyMine, NEW n \in Node, FW_UPDATE_PHY_Init(n)
    PROVE  UartInv' /\ OnlyMine' /\ PeerKept(n)
<1>1. [uart[n] EXCEPT !.on = TRUE] \in GoodUart
  BY FieldType DEF UartInv
<1> QED
  BY <1>1 DEF FW_UPDATE_PHY_Init, UartInv, OnlyMine, PeerKept
-----------------------------------------------------------------------------
(* The master. *)
USE DEF FW_UPDATE_CMD_ID_START_REQ, FW_UPDATE_CMD_ID_START_RSP, FW_UPDATE_CMD_ID_END_REQ,
        FW_UPDATE_CMD_ID_END_RSP, FW_UPDATE_CMD_ID_VERSION_REQ, FW_UPDATE_CMD_ID_VERSION_RSP

LEMMA BinType ==
    ASSUME MasterTypeOK
    PROVE  /\ MaxBlockNum(MasterCtrl.Bin) \in Nat
           /\ Size[MasterCtrl.Bin] \in Nat
           /\ DataFrame \in GoodFrame
<1>1. MasterCtrl.Bin \in Image /\ MasterCtrl.BlockNum + 1 \in Nat
  BY ImageAssumption DEF MasterTypeOK
<1> DEFINE num == MasterCtrl.BlockNum + 1
<1>2. Block(MasterCtrl.Bin, num) \in BlockOf
  BY <1>1 DEF Block, BlockOf
<1>3. NoFrame \in Frame /\ 2 \in 0 .. 3
  BY NoFrameType DEF GoodFrame
<1>4. DataFrame = [NoFrame EXCEPT !.Type = 2, !.Id = num, !.Data = Block(MasterCtrl.Bin, num)]
  BY DEF DataFrame, FW_UPDATE_FRAME_TYPE_DATA
<1> HIDE DEF num
<1>5. num \in Nat
  BY <1>1 DEF num
<1>6. DataFrame \in Frame /\ DataFrame.Data \in BlockOf
  BY <1>2, <1>3, <1>4, <1>5 DEF Frame
<1> QED
  BY <1>1, <1>6, MaxBlockNumType, ImageAssumption DEF GoodFrame

LEMMA MasterSendBlockType ==
    ASSUME MasterTypeOK, MasterSendBlock
    PROVE  MasterTypeOK'
<1> DEFINE last == MasterCtrl.BlockNum + 1 >= MaxBlockNum(MasterCtrl.Bin)
           finish == MasterCtrl.FinishFlag \/ last
<1>1. MasterCtrl' = [MasterCtrl EXCEPT !.State = "DATA_ACK_WAIT", !.RetryTimes = 0,
                                       !.BlockNum = MasterCtrl.BlockNum + 1, !.FinishFlag = finish]
  BY DEF MasterSendBlock
<1>2. MasterCtrl.BlockNum + 1 \in Nat /\ 0 \in 0 .. FW_UPDATE_RETRY_MAX
  BY DEF MasterTypeOK, FW_UPDATE_RETRY_MAX
<1>3. finish \in BOOLEAN
  BY Zenon DEF MasterTypeOK
<1> HIDE DEF finish
<1> QED
  BY <1>1, <1>2, <1>3 DEF MasterTypeOK, MasterState

LEMMA MasterMoveType ==
    ASSUME MasterTypeOK, NEW state \in MasterState,
           \/ MasterCtrl' = [MasterCtrl EXCEPT !.State = state]
           \/ MasterCtrl' = [MasterCtrl EXCEPT !.State = state, !.RetryTimes = 0]
    PROVE  MasterTypeOK' /\ MasterCtrl'.State = state
<1>1. 0 \in 0 .. FW_UPDATE_RETRY_MAX
  BY DEF FW_UPDATE_RETRY_MAX
<1> QED
  BY <1>1 DEF MasterTypeOK

LEMMA MasterResetType ==
    ASSUME UartInv, OnlyMine, MasterReset
    PROVE  /\ MasterTypeOK' /\ UartInv' /\ OnlyMine' /\ PeerKept("master")
           /\ MasterCtrl'.State = "APP"
<1>1. UartInv' /\ OnlyMine' /\ PeerKept("master")
  BY ResetStepUart DEF MasterReset
<1>2. MasterTypeOK' /\ MasterCtrl'.State = "APP"
  BY DEF MasterReset, MasterBoot, MasterTypeOK, MasterState, FW_UPDATE_RETRY_MAX
<1> QED
  BY <1>1, <1>2

(* Whatever the master does, it does not end up waiting untimed. *)
MasterDone ==
    /\ MasterTypeOK' /\ UartInv' /\ OnlyMine' /\ PeerKept("master")
    /\ MasterWaits' => Timed("master")'

LEMMA MasterLoopType ==
    ASSUME MasterTypeOK, UartInv, OnlyMine, MasterLoop
    PROVE  MasterDone
<1> DEFINE mst == "master"
<1>0. mst \in Node /\ TxFrame[mst] \in GoodFrame
  BY DEF UartInv
<1>1. CASE MasterIdle
  <2>1. CmdFrame(FW_UPDATE_CMD_ID_VERSION_REQ, 0) \in GoodFrame
    BY CmdFrameType
  <2>2. UartInv' /\ OnlyMine' /\ PeerKept(mst) /\ Timed(mst)'
    BY <1>0, <1>1, <2>1, SendStep DEF MasterIdle
  <2> QED
    BY <1>1, <2>2, MasterMoveType DEF MasterIdle, MasterState, MasterDone
<1>2. CASE MasterVersionRsp
  <2>1. CmdFrame(FW_UPDATE_CMD_ID_START_REQ, MaxBlockNum(MasterCtrl.Bin)) \in GoodFrame
    BY CmdFrameType, BinType
  <2>2. CASE RxFrame(mst).Val < Version[MasterCtrl.Bin]
    <3>1. UartInv' /\ OnlyMine' /\ PeerKept(mst) /\ Timed(mst)'
      BY <1>0, <1>2, <2>1, <2>2, SendStep DEF MasterVersionRsp
    <3> QED
      BY <1>2, <2>2, <3>1, MasterMoveType DEF MasterVersionRsp, MasterState, MasterDone
  <2>3. CASE ~(RxFrame(mst).Val < Version[MasterCtrl.Bin])
    <3>1. UartInv' /\ OnlyMine' /\ PeerKept(mst)
      BY <1>0, <1>2, <2>3, StopStep DEF MasterVersionRsp
    <3>2. MasterTypeOK' /\ MasterCtrl'.State = "ERROR"
      BY <1>2, <2>3, MasterMoveType DEF MasterVersionRsp, MasterState
    <3> QED
      BY <3>1, <3>2 DEF MasterWaits, MasterDone
  <2> QED
    BY <2>2, <2>3
<1>3. CASE MasterStartRsp \/ MasterDataAck
  <2>1. UartInv' /\ OnlyMine' /\ PeerKept(mst) /\ Timed(mst)'
    BY <1>0, <1>3, BinType, SendStep DEF MasterStartRsp, MasterDataAck, MasterSendBlock
  <2> QED
    BY <1>3, <2>1, MasterSendBlockType DEF MasterStartRsp, MasterDataAck, MasterDone
<1>4. CASE MasterLastAck
  <2>1. CmdFrame(FW_UPDATE_CMD_ID_END_REQ, Size[MasterCtrl.Bin]) \in GoodFrame
    BY CmdFrameType, BinType
  <2>2. UartInv' /\ OnlyMine' /\ PeerKept(mst) /\ Timed(mst)'
    BY <1>0, <1>4, <2>1, SendStep DEF MasterLastAck
  <2> QED
    BY <1>4, <2>2, MasterMoveType DEF MasterLastAck, MasterState, MasterDone
<1>5. CASE MasterEndRsp
  <2>1. UartInv' /\ OnlyMine' /\ PeerKept(mst)
    BY <1>0, <1>5, StopStep DEF MasterEndRsp
  <2>2. MasterTypeOK' /\ MasterCtrl'.State = "END"
    BY <1>5, MasterMoveType DEF MasterEndRsp, MasterState
  <2> QED
    BY <2>1, <2>2 DEF MasterWaits, MasterDone
<1>6. CASE MasterRetry
  <2>1. CASE MasterCtrl.RetryTimes = FW_UPDATE_RETRY_MAX
    <3>1. UartInv' /\ OnlyMine' /\ PeerKept(mst)
      BY <1>0, <1>6, <2>1, StopStep DEF MasterRetry
    <3>2. MasterTypeOK' /\ MasterCtrl'.State = "ERROR"
      BY <1>6, <2>1, MasterMoveType DEF MasterRetry, MasterState
    <3> QED
      BY <3>1, <3>2 DEF MasterWaits, MasterDone
  <2>2. CASE MasterCtrl.RetryTimes # FW_UPDATE_RETRY_MAX
    <3>1. UartInv' /\ OnlyMine' /\ PeerKept(mst) /\ Timed(mst)'
      BY <1>0, <1>6, <2>2, SendStep DEF MasterRetry, SendAgain
    <3>2. MasterTypeOK'
      BY <1>6, <2>2 DEF MasterRetry, MasterTypeOK, FW_UPDATE_RETRY_MAX
    <3> QED
      BY <3>1, <3>2 DEF MasterDone
  <2> QED
    BY <2>1, <2>2
<1>7. CASE MasterSent
  <2>1. UartInv' /\ OnlyMine' /\ PeerKept(mst) /\ Timed(mst)'
    BY <1>0, <1>7, SentStep DEF MasterSent
  <2> QED
    BY <1>7, <2>1 DEF MasterSent, MasterTypeOK, MasterDone
<1>8. CASE MasterSleep
  BY <1>8, MasterResetType DEF MasterSleep, MasterWaits, MasterDone
<1> QED
  BY <1>1, <1>2, <1>3, <1>4, <1>5, <1>6, <1>7, <1>8 DEF MasterLoop
-----------------------------------------------------------------------------
(* The slave. *)
SlaveType == [State : SlaveState, FlashAddr : Bank, FwVersion : Nat, MaxBlockNum : Nat,
              BlockNum : Nat, TotalBinSize : Int, RetryTimes : 0 .. FW_UPDATE_RETRY_MAX,
              PktCRC : Seq(CellContent)]

USE DEF SlaveType

(* The frame of the message at the head of the queue. *)
LEMMA RxType ==
    ASSUME UartInv, NEW n \in Node, GotData(n)
    PROVE  RxFrame(n) \in GoodFrame
<1>1. uart[n].MsgQueue \in Seq(Message) /\ uart[n].MsgQueue # << >>
  BY DEF UartInv, GoodUart, Uart, GotData, GotMsg, MsgQueue
<1>2. Msg(n).Buf \in RxBuffer
  <2>1. Head(uart[n].MsgQueue) \in Message
    BY <1>1
  <2> QED
    BY <2>1 DEF Msg, MsgQueue, Message, RxBuffer
<1>3. uart[n].PHY_RxBuf \in [RxBuffer -> GoodFrame]
  BY DEF UartInv, GoodUart
<1> QED
  BY <1>2, <1>3 DEF RxFrame

(* The block in a DATA frame, and its length. *)
LEMMA RxBlockType ==
    ASSUME UartInv, NEW num, SlaveGotBlock(num)
    PROVE  /\ RxFrame("slave").Data \in BlockOf
           /\ BlkLen(RxFrame("slave").Data) \in Int
<1>1. RxFrame("slave").Data \in BlockOf
  BY RxType DEF SlaveGotBlock, GoodFrame
<1> DEFINE blk == RxFrame("slave").Data
<1>2. blk.im \in Image /\ blk.idx \in Nat
  BY <1>1 DEF BlockOf
<1> QED
  BY <1>1, <1>2, BlockBytesType DEF BlkLen

LEMMA AckFrameType ==
    ASSUME NEW num \in Nat
    PROVE  AckFrame(num) \in GoodFrame
<1>1. NoFrame \in Frame /\ 3 \in 0 .. 3
  BY NoFrameType DEF GoodFrame
<1>2. AckFrame(num) = [NoFrame EXCEPT !.Type = 3, !.Id = num]
  BY DEF AckFrame, FW_UPDATE_FRAME_TYPE_ACK
<1>3. AckFrame(num) \in Frame /\ AckFrame(num).Type = 3
  BY <1>1, <1>2 DEF Frame
<1> QED
  BY <1>3 DEF GoodFrame, FW_UPDATE_FRAME_TYPE_DATA

LEMMA WriteBlockType ==
    ASSUME NEW bank \in BankContent, NEW blk \in BlockOf
    PROVE  /\ WriteBlock(bank, blk) \in BankContent
           /\ WriteBlock(bank, blk).flag = bank.flag
<1> DEFINE at == SlaveCtrl.TotalBinSize
           new(i) == IF (i - 1) * BlockLen <= at /\ at < i * BlockLen
                     THEN Program(bank.cell[i], IF at = (i - 1) * BlockLen THEN blk ELSE Garbage)
                     ELSE bank.cell[i]
<1>1. \A i \in 1 .. MaxBlock : bank.cell[i] \in CellContent
  BY DEF BankContent
<1>2. Garbage \in CellContent /\ blk \in CellContent
  BY DEF CellContent
<1>3. ASSUME NEW i \in 1 .. MaxBlock
      PROVE  new(i) \in CellContent
  BY <1>1, <1>2 DEF Program
<1>4. WriteBlock(bank, blk) = [bank EXCEPT !.cell = [i \in 1 .. MaxBlock |-> new(i)]]
  BY DEF WriteBlock
<1> HIDE DEF new
<1> QED
  BY <1>3, <1>4 DEF BankContent

LEMMA SlaveMoveType ==
    ASSUME SlaveTypeOK, NEW state \in SlaveState,
           \/ SlaveCtrl' = [SlaveCtrl EXCEPT !.State = state]
           \/ SlaveCtrl' = [SlaveCtrl EXCEPT !.State = state, !.RetryTimes = 0]
    PROVE  SlaveTypeOK' /\ SlaveCtrl'.State = state
<1>1. 0 \in 0 .. FW_UPDATE_RETRY_MAX
  BY DEF FW_UPDATE_RETRY_MAX
<1> QED
  BY <1>1 DEF SlaveTypeOK

LEMMA SlaveBootType == SlaveBoot \in SlaveType
<1>1. /\ << >> \in Seq(CellContent)
      /\ 0 \in 0 .. FW_UPDATE_RETRY_MAX /\ 0 \in Bank /\ "APP" \in SlaveState
  BY DEF FW_UPDATE_RETRY_MAX, Bank, SlaveState
<1> QED
  BY <1>1 DEF SlaveBoot

SlaveDone ==
    /\ SlaveTypeOK' /\ FlashTypeOK' /\ UartInv' /\ OnlyMine' /\ PeerKept("slave")
    /\ SlaveWaits' => Timed("slave")'

LEMMA SlaveResetType ==
    ASSUME UartInv, OnlyMine, SlaveReset
    PROVE  /\ SlaveTypeOK' /\ UartInv' /\ OnlyMine' /\ PeerKept("slave")
           /\ SlaveCtrl'.State = "APP"
<1>1. UartInv' /\ OnlyMine' /\ PeerKept("slave")
  BY ResetStepUart DEF SlaveReset
<1>2. SlaveTypeOK' /\ SlaveCtrl'.State = "APP"
  BY SlaveBootType DEF SlaveReset, SlaveTypeOK, SlaveBoot
<1> QED
  BY <1>1, <1>2

LEMMA SlaveLoopType ==
    ASSUME SlaveTypeOK, FlashTypeOK, UartInv, OnlyMine, SlaveLoop
    PROVE  SlaveDone
<1> DEFINE slv == "slave"
<1>0. /\ slv \in Node /\ TxFrame[slv] \in GoodFrame
      /\ SlaveCtrl.FlashAddr \in Bank /\ Other(SlaveCtrl.FlashAddr) \in Bank
  BY DEF UartInv, SlaveTypeOK, Bank, Other
<1>1. CASE SlaveIdle
  <2>1. UartInv' /\ OnlyMine' /\ PeerKept(slv) /\ Timed(slv)'
    BY <1>0, <1>1, RestartStep DEF SlaveIdle
  <2> QED
    BY <1>1, <2>1, SlaveMoveType DEF SlaveIdle, SlaveState, FlashTypeOK, SlaveDone
<1>2. CASE SlaveVersionReq
  <2>1. CmdFrame(FW_UPDATE_CMD_ID_VERSION_RSP, SlaveCtrl.FwVersion) \in GoodFrame
    BY CmdFrameType DEF SlaveTypeOK
  <2>2. UartInv' /\ OnlyMine' /\ PeerKept(slv) /\ Timed(slv)'
    BY <1>0, <1>2, <2>1, SendStep DEF SlaveVersionReq
  <2> QED
    BY <1>2, <2>2, SlaveMoveType DEF SlaveVersionReq, SlaveState, FlashTypeOK, SlaveDone
<1>3. CASE SlaveRepeat
  <2>1. UartInv' /\ OnlyMine' /\ PeerKept(slv) /\ Timed(slv)'
    BY <1>0, <1>3, SendStep DEF SlaveRepeat
  <2>2. UNCHANGED flash /\ SlaveTypeOK'
    BY <1>3 DEF SlaveRepeat, SlaveTypeOK, FW_UPDATE_RETRY_MAX
  <2> QED
    BY <2>1, <2>2 DEF FlashTypeOK, SlaveDone
<1>4. CASE SlaveStartReq
  <2>1. CmdFrame(FW_UPDATE_CMD_ID_START_RSP, 0) \in GoodFrame
    BY CmdFrameType
  <2>2. UartInv' /\ OnlyMine' /\ PeerKept(slv) /\ Timed(slv)'
    BY <1>0, <1>4, <2>1, SendStep DEF SlaveStartReq
  <2>3. RxFrame(slv).Val \in Nat /\ 0 \in 0 .. FW_UPDATE_RETRY_MAX
    BY <1>0, <1>4, RxType DEF SlaveStartReq, SlaveGotCmd, GoodFrame, Frame, FW_UPDATE_RETRY_MAX
  <2>4. SlaveTypeOK'
    BY <1>4, <2>3 DEF SlaveStartReq, SlaveTypeOK, SlaveState
  <2> QED
    BY <1>4, <2>2, <2>4 DEF SlaveStartReq, FlashTypeOK, SlaveDone
<1>5. CASE SlaveBlock
  <2> DEFINE num == SlaveCtrl.BlockNum + 1
             blk == RxFrame("slave").Data
             next == IF SlaveCtrl.MaxBlockNum = num THEN "END_READY" ELSE SlaveCtrl.State
             size == SlaveCtrl.TotalBinSize + BlkLen(blk)
             crc == Append(SlaveCtrl.PktCRC, blk)
  <2>1. blk \in BlockOf /\ BlkLen(blk) \in Int /\ num \in Nat
    BY <1>5, RxBlockType DEF SlaveBlock, SlaveTypeOK
  <2>2. AckFrame(num) \in GoodFrame
    BY <2>1, AckFrameType
  <2>3. UartInv' /\ OnlyMine' /\ PeerKept(slv) /\ Timed(slv)'
    BY <1>0, <1>5, <2>2, SendStep DEF SlaveBlock
  <2>4. FlashTypeOK'
    BY <1>0, <1>5, <2>1, WriteBlockType DEF SlaveBlock, FlashTypeOK
  <2>5. /\ next \in SlaveState /\ size \in Int /\ crc \in Seq(CellContent)
        /\ 0 \in 0 .. FW_UPDATE_RETRY_MAX
    BY <2>1 DEF SlaveTypeOK, SlaveState, FW_UPDATE_RETRY_MAX, CellContent
  <2>6. SlaveCtrl' = [SlaveCtrl EXCEPT !.State = next, !.RetryTimes = 0, !.BlockNum = num,
                                       !.TotalBinSize = size, !.PktCRC = crc]
    BY <1>5 DEF SlaveBlock
  <2>7. SlaveTypeOK'
    <3> HIDE DEF next, size, crc, num
    <3> QED
      BY <2>1, <2>5, <2>6 DEF SlaveTypeOK
  <2> QED
    BY <2>3, <2>4, <2>7 DEF SlaveDone
<1>6. CASE SlaveEndReq
  <2>1. CmdFrame(FW_UPDATE_CMD_ID_END_RSP, 0) \in GoodFrame
    BY CmdFrameType
  <2>2. CASE SlaveCtrl.TotalBinSize # RxFrame(slv).Val
    <3>1. UartInv' /\ OnlyMine' /\ PeerKept(slv)
      BY <1>0, <1>6, <2>2, StopStep DEF SlaveEndReq
    <3>2. SlaveTypeOK' /\ SlaveCtrl'.State = "ERROR" /\ UNCHANGED flash
      BY <1>6, <2>2, SlaveMoveType DEF SlaveEndReq, SlaveState
    <3> QED
      BY <3>1, <3>2 DEF FlashTypeOK, SlaveWaits, SlaveDone
  <2>3. CASE SlaveCtrl.TotalBinSize = RxFrame(slv).Val
    <3>1. UartInv' /\ OnlyMine' /\ PeerKept(slv)
      BY <1>0, <1>6, <2>1, <2>3, SendStep DEF SlaveEndReq
    <3>2. SlaveTypeOK' /\ SlaveCtrl'.State = "END" /\ UNCHANGED flash
      BY <1>6, <2>3, SlaveMoveType DEF SlaveEndReq, SlaveState
    <3> QED
      BY <3>1, <3>2 DEF FlashTypeOK, SlaveWaits, SlaveDone
  <2> QED
    BY <2>2, <2>3
<1>7. CASE SlaveRetry
  <2>1. CASE SlaveCtrl.RetryTimes = FW_UPDATE_RETRY_MAX
    <3>1. UartInv' /\ OnlyMine' /\ PeerKept(slv)
      BY <1>0, <1>7, <2>1, StopStep DEF SlaveRetry
    <3>2. SlaveTypeOK' /\ SlaveCtrl'.State = "ERROR" /\ UNCHANGED flash
      BY <1>7, <2>1, SlaveMoveType DEF SlaveRetry, SlaveState
    <3> QED
      BY <3>1, <3>2 DEF FlashTypeOK, SlaveWaits, SlaveDone
  <2>2. CASE SlaveCtrl.RetryTimes # FW_UPDATE_RETRY_MAX
    <3>1. UartInv' /\ OnlyMine' /\ PeerKept(slv) /\ Timed(slv)'
      BY <1>0, <1>7, <2>2, RestartStep DEF SlaveRetry
    <3>2. SlaveTypeOK' /\ UNCHANGED flash
      BY <1>7, <2>2 DEF SlaveRetry, SlaveTypeOK, FW_UPDATE_RETRY_MAX
    <3> QED
      BY <3>1, <3>2 DEF FlashTypeOK, SlaveDone
  <2> QED
    BY <2>1, <2>2
<1>8. CASE SlaveSent
  <2> DEFINE wait == ~SlaveIn("END")
  <2>1. wait \in BOOLEAN /\ Sent(slv, wait)
    BY <1>8 DEF SlaveSent
  <2> HIDE DEF wait
  <2>2. UartInv' /\ OnlyMine' /\ PeerKept(slv) /\ (wait => Timed(slv)')
    BY <1>0, <2>1, SentStep
  <2>3. UNCHANGED <<SlaveCtrl, flash>>
    BY <1>8 DEF SlaveSent
  <2>4. SlaveWaits' => wait
    BY <2>3 DEF SlaveWaits, wait, SlaveIn
  <2> QED
    BY <2>2, <2>3, <2>4 DEF SlaveTypeOK, FlashTypeOK, SlaveDone
<1>9. CASE SlaveVerify
  <2>1. UartInv' /\ OnlyMine' /\ PeerKept(slv)
    BY <1>0, <1>9, StopStep DEF SlaveVerify
  <2>2. FlashTypeOK'
    BY <1>0, <1>9, FlagType DEF SlaveVerify, FlashTypeOK
  <2>3. SlaveTypeOK' /\ SlaveCtrl'.State \in {"FLAG_SET", "ERROR"}
    BY <1>9, SlaveMoveType DEF SlaveVerify, SlaveState
  <2> QED
    BY <2>1, <2>2, <2>3 DEF SlaveWaits, SlaveDone
<1>10. CASE SlaveClearFlag
  <2>1. FlashTypeOK'
    BY <1>0, <1>10, FlagType DEF SlaveClearFlag, FlashTypeOK
  <2>2. UartInv' /\ OnlyMine' /\ PeerKept(slv)
    BY <1>10 DEF SlaveClearFlag, uartVars, UartInv, OnlyMine, PeerKept
  <2>3. SlaveTypeOK' /\ SlaveCtrl'.State = "FLAG_CLEARED"
    BY <1>10, SlaveMoveType DEF SlaveClearFlag, SlaveState
  <2> QED
    BY <2>1, <2>2, <2>3 DEF SlaveWaits, SlaveDone
<1>11. CASE SlaveReboot
  BY <1>11, SlaveResetType DEF SlaveReboot, FlashTypeOK, SlaveWaits, SlaveDone
<1>12. CASE SlaveError
  <2>1. FlashTypeOK'
    BY <1>0, <1>12, EraseType DEF SlaveError, FlashTypeOK
  <2> QED
    BY <1>12, <2>1, SlaveResetType DEF SlaveError, SlaveWaits, SlaveDone
<1> QED
  BY <1>1, <1>2, <1>3, <1>4, <1>5, <1>6, <1>7, <1>8, <1>9, <1>10, <1>11, <1>12 DEF SlaveLoop
-----------------------------------------------------------------------------
(* Types, timers and waits, of both nodes at once. *)
TypeInv ==
    /\ MasterTypeOK /\ SlaveTypeOK /\ FlashTypeOK /\ UartInv
    /\ pressed \in [Node -> 0 .. MaxPress]
    /\ delivered \subseteq Image \X (0 .. MaxPress)

TimerInv ==
    /\ OnlyMine
    /\ MasterWaits => Timed("master")
    /\ SlaveWaits => Timed("slave")

LEMMA InitInv == Init => TypeInv /\ TimerInv
<1> SUFFICES ASSUME Init PROVE TypeInv /\ TimerInv
  OBVIOUS
<1>1. MasterTypeOK /\ ~MasterWaits
  BY DEF Init, MasterInit, MasterBoot, MasterTypeOK, MasterState, FW_UPDATE_RETRY_MAX, MasterWaits
<1>2. SlaveTypeOK /\ ~SlaveWaits
  BY SlaveBootType DEF Init, SlaveInit, SlaveBoot, SlaveTypeOK, SlaveWaits
<1>3. UartInv /\ OnlyMine
  BY UartOffType, NoFrameType, FwBoundAssumption DEF Init, UartInit, UartInv, OnlyMine
<1>4. FlashTypeOK
  <2>1. PICK im \in FactoryImage,
             left \in {BlankBank} \cup {Factory("cleared", last) : last \in Image} :
               flash = [b \in Bank |-> IF b = 0 THEN Factory("set", im) ELSE left]
    BY DEF Init, FlashInit
  <2>2. ASSUME NEW img \in Image, NEW flag \in {"blank", "set", "cleared"}
        PROVE  Factory(flag, img) \in BankContent
    BY DEF Factory, BankContent, CellContent, Block, BlockOf
  <2>3. BlankBank \in BankContent
    BY DEF BlankBank, BankContent, CellContent
  <2>4. Factory("set", im) \in BankContent /\ left \in BankContent
    BY <2>2, <2>3, FactoryAssumption
  <2> QED
    BY <2>1, <2>4 DEF FlashTypeOK, Bank
<1>5. pressed \in [Node -> 0 .. MaxPress] /\ delivered \subseteq Image \X (0 .. MaxPress)
  BY FwPressAssumption DEF Init
<1> QED
  BY <1>1, <1>2, <1>3, <1>4, <1>5 DEF TypeInv, TimerInv

(* A step of the master leaves the slave's timer and queue as they are. *)
LEMMA MasterPart ==
    ASSUME TypeInv, TimerInv, MasterDone, UNCHANGED <<SlaveCtrl, flash, delivered>>,
           pressed' \in [Node -> 0 .. MaxPress]
    PROVE  TypeInv' /\ TimerInv'
<1>1. SlaveWaits' => Timed("slave")'
  BY PeerTimed DEF MasterDone, TimerInv, SlaveWaits
<1> QED
  BY <1>1 DEF MasterDone, TypeInv, TimerInv, SlaveTypeOK, FlashTypeOK

LEMMA SlavePart ==
    ASSUME TypeInv, TimerInv, SlaveDone, UNCHANGED MasterCtrl,
           pressed' \in [Node -> 0 .. MaxPress],
           delivered' \subseteq Image \X (0 .. MaxPress)
    PROVE  TypeInv' /\ TimerInv'
<1>1. MasterWaits' => Timed("master")'
  BY PeerTimed DEF SlaveDone, TimerInv, MasterWaits
<1> QED
  BY <1>1 DEF SlaveDone, TypeInv, TimerInv, MasterTypeOK

LEMMA PressType ==
    ASSUME TypeInv, NEW n \in Node, Press(n)
    PROVE  pressed' \in [Node -> 0 .. MaxPress]
BY FwPressAssumption DEF TypeInv, Press

LEMMA SlaveFailsInErase ==
    ASSUME TypeInv, TimerInv, SlavePowerLossInErase
    PROVE  SlaveDone
<1>1. PICK bank \in Bank :
        \E torn \in TornErases(flash[bank]) : flash' = [flash EXCEPT ![bank] = torn]
  BY DEF SlavePowerLossInErase
<1>2. FlashTypeOK'
  BY <1>1, EraseType DEF TypeInv, FlashTypeOK
<1> QED
  BY <1>2, SlaveResetType DEF SlavePowerLossInErase, SlaveDone, SlaveWaits, TypeInv, TimerInv

LEMMA NextInv == TypeInv /\ TimerInv /\ [Next]_vars => TypeInv' /\ TimerInv'
<1> SUFFICES ASSUME TypeInv, TimerInv, [Next]_vars PROVE TypeInv' /\ TimerInv'
  OBVIOUS
<1>1. CASE PressMaster
  <2>1. CASE FW_UPDATE_MasterInit
    <3>1. UartInv' /\ OnlyMine' /\ PeerKept("master")
      BY <2>1, PhyInitStep DEF FW_UPDATE_MasterInit, TypeInv, TimerInv
    <3>2. MasterTypeOK' /\ MasterCtrl'.State = "IDLE"
      BY <2>1, MasterMoveType DEF FW_UPDATE_MasterInit, MasterState, TypeInv
    <3>3. MasterDone
      BY <3>1, <3>2 DEF MasterDone, MasterWaits
    <3> QED
      BY <1>1, <3>3, MasterPart, PressType DEF PressMaster
  <2>2. CASE MasterLowBattery
    <3>1. UartInv' /\ OnlyMine' /\ PeerKept("master")
      BY <2>2 DEF MasterLowBattery, uartVars, UartInv, OnlyMine, PeerKept, TypeInv, TimerInv
    <3>2. MasterTypeOK' /\ MasterCtrl'.State = "LOW_BATT"
      BY <2>2, MasterMoveType DEF MasterLowBattery, MasterState, TypeInv
    <3>3. MasterDone
      BY <3>1, <3>2 DEF MasterDone, MasterWaits
    <3> QED
      BY <1>1, <3>3, MasterPart, PressType DEF PressMaster
  <2> QED
    BY <1>1, <2>1, <2>2 DEF PressMaster
<1>2. CASE MasterStep
  BY <1>2, MasterLoopType, MasterPart DEF MasterStep, TypeInv, TimerInv
<1>3. CASE MasterFails
  <2>1. MasterDone
    BY <1>3, MasterResetType DEF MasterFails, MasterPowerLoss, MasterDone, MasterWaits,
       TypeInv, TimerInv
  <2> QED
    BY <1>3, <2>1, MasterPart DEF MasterFails, TypeInv
<1>4. CASE PressSlave
  <2>1. CASE FW_UPDATE_SlaveInit
    <3>1. UartInv' /\ OnlyMine' /\ PeerKept("slave")
      BY <2>1, PhyInitStep DEF FW_UPDATE_SlaveInit, TypeInv, TimerInv
    <3>2. PICK im \in Image :
            SlaveCtrl' = [SlaveBoot EXCEPT !.State = "IDLE", !.FlashAddr = Other(BootBank),
                                           !.FwVersion = Version[im]]
      BY <2>1 DEF FW_UPDATE_SlaveInit
    <3>3. SlaveTypeOK' /\ SlaveCtrl'.State = "IDLE"
      <4>1. Version[im] \in Nat /\ "IDLE" \in SlaveState
        BY ImageAssumption DEF SlaveState
      <4> QED
        BY <3>2, <4>1, BankType, SlaveBootType DEF SlaveTypeOK
    <3>4. FlashTypeOK'
      BY <2>1, BankType, EraseType DEF FW_UPDATE_SlaveInit, TypeInv, FlashTypeOK
    <3>5. SlaveDone
      BY <3>1, <3>3, <3>4 DEF SlaveDone, SlaveWaits
    <3> QED
      BY <1>4, <3>5, SlavePart, PressType DEF PressSlave, TypeInv
  <2>2. CASE SlaveLowBattery
    <3>1. UartInv' /\ OnlyMine' /\ PeerKept("slave")
      BY <2>2 DEF SlaveLowBattery, uartVars, UartInv, OnlyMine, PeerKept, TypeInv, TimerInv
    <3>2. SlaveTypeOK' /\ SlaveCtrl'.State = "LOW_BATT" /\ FlashTypeOK'
      BY <2>2, SlaveMoveType DEF SlaveLowBattery, SlaveState, TypeInv, FlashTypeOK
    <3>3. SlaveDone
      BY <3>1, <3>2 DEF SlaveDone, SlaveWaits
    <3> QED
      BY <1>4, <3>3, SlavePart, PressType DEF PressSlave, TypeInv
  <2> QED
    BY <1>4, <2>1, <2>2 DEF PressSlave
<1>5. CASE SlaveStep
  <2>1. SlaveDone
    BY <1>5, SlaveLoopType DEF SlaveStep, TypeInv, TimerInv
  <2>2. delivered' \subseteq Image \X (0 .. MaxPress)
    BY <1>5 DEF SlaveStep, TypeInv, Complete
  <2> QED
    BY <1>5, <2>1, <2>2, SlavePart DEF SlaveStep, TypeInv
<1>6. CASE SlaveFails
  <2>1. SlaveDone
    <3>1. CASE SlavePowerLoss
      BY <3>1, SlaveResetType DEF SlavePowerLoss, SlaveDone, SlaveWaits, TypeInv, TimerInv, FlashTypeOK
    <3> QED
      BY <1>6, <3>1, SlaveFailsInErase DEF SlaveFails
  <2>2. pressed' \in [Node -> 0 .. MaxPress]
    BY <1>6, PressType DEF SlaveFails, TypeInv
  <2> QED
    BY <1>6, <2>1, <2>2, SlavePart DEF SlaveFails, TypeInv
<1>7. CASE \E n \in Node : UartStep(n)
  <2>1. PICK n \in Node : UartStep(n)
    BY <1>7
  <2>2. /\ UartInv'
        /\ UNCHANGED <<sending, rspWaitTimer, timer_list>>
        /\ \A m \in Node : uart'[m].on = uart[m].on
        /\ \A m \in Node : MsgQueue(m) # << >> => uart'[m].MsgQueue # << >>
    BY <2>1, TransmittedType DEF UartStep, TypeInv
  <2>3. UNCHANGED <<MasterCtrl, SlaveCtrl, flash, pressed, delivered>>
    BY <2>1 DEF UartStep
  <2>4. \A m \in Node : Timed(m) => Timed(m)'
    BY <2>2 DEF Timed, Running, GotMsg, MsgQueue
  <2>5. OnlyMine'
    BY <2>2 DEF OnlyMine, TimerInv
  <2> QED
    BY <2>2, <2>3, <2>4, <2>5 DEF TypeInv, TimerInv, MasterTypeOK, SlaveTypeOK, FlashTypeOK,
       MasterWaits, SlaveWaits
<1>8. CASE \E n \in Node : TimerStep(n)
  <2>1. PICK n \in Node : TimerStep(n)
    BY <1>8
  <2>2. UartInv' /\ OnlyMine' /\ PeerKept(n) /\ Timed(n)'
    BY <2>1, TimerFiresStep DEF TimerStep, TypeInv, TimerInv
  <2>3. UNCHANGED <<MasterCtrl, SlaveCtrl, flash, pressed, delivered>>
    BY <2>1 DEF TimerStep
  <2>4. \A m \in Node : Timed(m) => Timed(m)'
    BY <2>2, PeerTimed
  <2> QED
    BY <2>2, <2>3, <2>4 DEF TypeInv, TimerInv, MasterTypeOK, SlaveTypeOK, FlashTypeOK,
       MasterWaits, SlaveWaits
<1>9. CASE UNCHANGED vars
  BY <1>9 DEF vars, uartVars, TypeInv, TimerInv, OnlyMine, Timed, Running, GotMsg, MsgQueue,
     MasterTypeOK, SlaveTypeOK, FlashTypeOK, UartInv, MasterWaits, SlaveWaits
<1> QED
  BY <1>1, <1>2, <1>3, <1>4, <1>5, <1>6, <1>7, <1>8, <1>9 DEF Next

LEMMA Invariant == Spec => [](TypeInv /\ TimerInv)
<1>1. Init => TypeInv /\ TimerInv
  BY InitInv
<1>2. (TypeInv /\ TimerInv) /\ [Next]_vars => (TypeInv /\ TimerInv)'
  BY NextInv
<1> QED
  BY <1>1, <1>2, PTL DEF Spec

(* The nodes, the flash, the PHYs, queues and timers keep their types. *)
THEOREM FwTypeCorrect == Spec => []TypeOK
<1>1. TypeInv => TypeOK
  BY UartInvType DEF TypeInv, TypeOK, FlashTypeOK
<1> QED
  BY <1>1, Invariant, PTL

(* A node never has two timers, so ev_on_timer always finds a free slot. *)
THEOREM NeverTwoTimers == Spec => []OneTimer
<1>1. TimerInv => OneTimer
  <2> SUFFICES ASSUME TimerInv, NEW n \in Node PROVE Cardinality(timer_list[n]) <= 1
    BY DEF OneTimer
  <2>1. timer_list[n] \subseteq {rspWaitTimer[n]}
    BY DEF TimerInv, OnlyMine
  <2>2. IsFiniteSet({rspWaitTimer[n]}) /\ Cardinality({rspWaitTimer[n]}) = 1
    BY FS_Singleton
  <2>3. Cardinality(timer_list[n]) <= Cardinality({rspWaitTimer[n]})
    BY <2>1, <2>2, FS_Subset
  <2> QED
    BY <2>2, <2>3
<1> QED
  BY <1>1, Invariant, PTL

(* No node waits for a message that neither its queue nor its timer brings. *)
THEOREM NeverWaitsUntimed == Spec => []WaitIsTimed
<1>1. TimerInv => WaitIsTimed
  BY DEF TimerInv, WaitIsTimed, Timed
<1> QED
  BY <1>1, Invariant, PTL
-----------------------------------------------------------------------------
(***************************************************************************)
(* The firmware installed.  While an update is under way the slave writes to *)
(* the bank that does not boot, and that bank's flag is blank; only when   *)
(* all of an image is verified to be there is its flag set, and only then  *)
(* is the other flag cleared.                                              *)
(***************************************************************************)
USE DEF FlashTypeOK

Updating == SlaveCtrl.State \in {"IDLE", "FW_VERSION_READY", "START_READY", "DATA_READY",
                                 "END_READY", "END", "ERROR"}

BootInv ==
    /\ BootSafe
    /\ Updating => /\ SlaveCtrl.FlashAddr = Other(BootBank)
                   /\ Target.flag = "blank"
    /\ SlaveIn("END") => Complete \subseteq Delivered
    /\ SlaveIn("FLAG_SET") =>
         /\ Target.flag = "set"
         /\ flash[0].flag = "set"
         /\ \E im \in Delivered \cap Image : Sealed[im] /\ Holds(Target.cell, im)

LEMMA OneComplete ==
    ASSUME NEW im1 \in Complete, NEW im2 \in Complete
    PROVE  im1 = im2
BY OneBlocks DEF Complete

(* The check of the END state: the three CRCs agree only if what is in flash is
   a whole image, the one received, with its own CRC in its trailer. *)
LEMMA VerifiedImage ==
    ASSUME SlaveTypeOK, Verified
    PROVE  \E im \in Complete : Sealed[im] /\ Holds(Target.cell, im)
<1> DEFINE blk == Target.cell[Written]
<1>1. SlaveCtrl.PktCRC # BadCRC
  BY SentinelAssumption DEF SlaveTypeOK
<1>2. /\ FwCRC = [i \in 1 .. Written |-> Target.cell[i]]
      /\ FwCRC = SlaveCtrl.PktCRC
      /\ TrailerCRC(blk) = FwCRC
      /\ Written \in Nat
  BY <1>1 DEF Verified, FwCRC
<1>3. /\ blk \in BlockOf
      /\ Sealed[blk.im]
      /\ TrailerCRC(blk) = Blocks(blk.im)
  BY <1>1, <1>2 DEF TrailerCRC
<1>4. blk.im \in Image
  BY <1>3 DEF BlockOf
<1>5. Blocks(blk.im) = [i \in 1 .. Written |-> Target.cell[i]]
  BY <1>2, <1>3
<1>6. 1 .. MaxBlockNum(blk.im) = 1 .. Written
  BY <1>5 DEF Blocks
<1>7. \A i \in 1 .. MaxBlockNum(blk.im) : Target.cell[i] = Block(blk.im, i)
  BY <1>5, <1>6 DEF Blocks
<1> QED
  BY <1>2, <1>3, <1>4, <1>7 DEF Complete, Holds

(* What a step has to show: the running firmware is not written to, and what
   boots changes as AtomicUpdate says. *)
AtomicStep ==
    \/ UNCHANGED <<Installed, Delivered>>
    \/ \E im \in Image : Update!Receive(im) \/ Update!Install(im)

LEMMA KeptSafe ==
    ASSUME BootSafe, BootKept
    PROVE  BootSafe' /\ CellsKept /\ UNCHANGED Installed
BY DEF BootSafe, BootKept, CellsKept, Installed

LEMMA KeptAtomic ==
    ASSUME BootSafe, BootKept, UNCHANGED delivered
    PROVE  BootSafe' /\ CellsKept /\ AtomicStep
BY KeptSafe DEF AtomicStep, Delivered

(* Steps that change neither the flash nor SlaveCtrl. *)
LEMMA OthersStep ==
    ASSUME BootInv, UNCHANGED <<SlaveCtrl, flash, delivered>>
    PROVE  BootInv' /\ CellsKept /\ AtomicStep
<1>1. BootKept
  BY DEF BootKept, BootBank
<1>2. Complete' = Complete /\ Delivered' = Delivered /\ Target' = Target
      /\ BootBank' = BootBank
  BY DEF Complete, Delivered, Target, BootBank
<1>3. BootSafe' /\ CellsKept /\ AtomicStep
  BY <1>1, KeptAtomic DEF BootInv
<1> QED
  BY <1>2, <1>3 DEF BootInv, Updating, SlaveIn

(* Steps after which the slave is in main()'s first loop again. *)
LEMMA ResetStep ==
    ASSUME BootInv, BootKept, SlaveReset, UNCHANGED delivered
    PROVE  BootInv' /\ CellsKept /\ AtomicStep
<1>1. SlaveCtrl'.State = "APP"
  BY DEF SlaveReset, SlaveBoot
<1>2. BootSafe' /\ CellsKept /\ AtomicStep
  BY KeptAtomic DEF BootInv
<1> QED
  BY <1>1, <1>2 DEF BootInv, Updating, SlaveIn

(* Power fails within an erasure. *)
LEMMA EraseFailsStep ==
    ASSUME TypeInv, BootInv, SlavePowerLossInErase, UNCHANGED delivered
    PROVE  BootInv' /\ CellsKept /\ AtomicStep
<1>1. PICK bank \in Bank :
        /\ \/ SlaveIn("ERROR") /\ bank = SlaveCtrl.FlashAddr
           \/ SlaveIn("APP") /\ bank = Other(BootBank)
        /\ \E torn \in TornErases(flash[bank]) : flash' = [flash EXCEPT ![bank] = torn]
  BY DEF SlavePowerLossInErase
<1>2. bank = Other(BootBank)
  BY <1>1 DEF BootInv, Updating, SlaveIn
<1>3. PICK torn \in TornErases(flash[bank]) : flash' = [flash EXCEPT ![bank] = torn]
  BY <1>1
<1>4. torn.flag = "set" => flash[bank].flag = "set"
  BY <1>3, EraseFlag
<1>5. BootKept
  BY <1>2, <1>3, <1>4, OtherBankKept DEF TypeInv
<1> QED
  BY <1>5, ResetStep DEF SlavePowerLossInErase

LEMMA InitStep ==
    ASSUME TypeInv, BootInv, FW_UPDATE_SlaveInit, UNCHANGED delivered
    PROVE  BootInv' /\ CellsKept /\ AtomicStep
<1>1. /\ flash' = [flash EXCEPT ![Other(BootBank)] = Erase(flash[Other(BootBank)])]
      /\ SlaveCtrl'.State = "IDLE" /\ SlaveCtrl'.FlashAddr = Other(BootBank)
  BY DEF FW_UPDATE_SlaveInit, SlaveBoot
<1>2. BootKept
  BY <1>1, EraseFlag, OtherBankKept DEF TypeInv
<1>3. BootSafe' /\ CellsKept /\ AtomicStep
  BY <1>2, KeptAtomic DEF BootInv
<1>4. SlaveCtrl'.FlashAddr = Other(BootBank)' /\ Target'.flag = "blank"
  BY <1>1, <1>2, EraseFlag, BankType DEF BootKept, Other, Target, TypeInv
<1> QED
  BY <1>1, <1>3, <1>4 DEF BootInv, SlaveIn

(* The END state: verification, and the flag of the bank written to. *)
LEMMA VerifyStep ==
    ASSUME TypeInv, BootInv, SlaveVerify, UNCHANGED delivered
    PROVE  BootInv' /\ CellsKept /\ AtomicStep
<1> DEFINE t == SlaveCtrl.FlashAddr
<1>0. /\ t \in Bank /\ t = Other(BootBank) /\ flash[t].flag = "blank"
      /\ Complete \subseteq Delivered
      /\ flash \in [Bank -> BankContent]
  BY DEF SlaveVerify, BootInv, Updating, SlaveIn, Target, TypeInv, SlaveTypeOK
<1>1. CASE Verified
  <2>1. /\ flash' = [flash EXCEPT ![t] = SetFlag(flash[t])]
        /\ SlaveCtrl'.State = "FLAG_SET" /\ SlaveCtrl'.FlashAddr = t
    BY <1>1 DEF SlaveVerify, TypeInv, SlaveTypeOK
  <2>2. PICK im \in Complete : Sealed[im] /\ Holds(flash[t].cell, im)
    BY <1>1, VerifiedImage DEF TypeInv, Target
  <2>3. im \in Image /\ im \in Delivered
    BY <1>0 DEF Complete
  <2>4. /\ flash'[t].flag = "set" /\ flash'[t].cell = flash[t].cell
        /\ flash'[BootBank] = flash[BootBank]
    <3>1. flash[t] \in BankContent /\ flash[t].flag = "blank"
      BY <1>0
    <3>2. SetFlag(flash[t]).flag = "set" /\ SetFlag(flash[t]).cell = flash[t].cell
      BY <3>1 DEF SetFlag, BankContent
    <3>3. BootBank # t /\ BootBank \in Bank
      BY <1>0, BankType DEF Other, Bank
    <3> QED
      BY <1>0, <2>1, <3>2, <3>3
  <2>5. Bootable(flash'[t])
    BY <2>2, <2>3, <2>4 DEF Bootable
  <2>6. Delivered' = Delivered
    BY DEF Delivered
  <2>7. flash'[0].flag = "set"
    BY <1>0, <2>4, BankType DEF BootInv, BootSafe, Bootable, BootBank, Other, Bank
  <2>8. BootBank' = 0
    BY <2>7 DEF BootBank
  <2>9. CASE t = 0
    <3>1. BootSafe'
      BY <2>5, <2>8, <2>9 DEF BootSafe
    <3>2. Installed' = im
      BY <2>2, <2>3, <2>4, <2>8, <2>9, ImageInHeld DEF Installed
    <3>3. AtomicStep
      BY <2>2, <2>3, <2>6, <3>2 DEF AtomicStep, Update!Install
    <3> QED
      BY <2>1, <2>2, <2>3, <2>4, <2>6, <2>7, <3>1, <3>3
      DEF BootInv, Updating, SlaveIn, Target, CellsKept
  <2>10. CASE t = 1
    <3>1. BootKept
      BY <1>0, <2>4, <2>8, <2>10, BankType DEF BootKept, Other
    <3>2. BootSafe' /\ CellsKept /\ AtomicStep
      BY <3>1, KeptAtomic DEF BootInv
    <3> QED
      BY <2>1, <2>2, <2>3, <2>4, <2>6, <2>7, <3>2 DEF BootInv, Updating, SlaveIn, Target
  <2> QED
    BY <1>0, <2>9, <2>10 DEF Bank
<1>2. CASE ~Verified
  <2>1. UNCHANGED flash /\ SlaveCtrl'.State = "ERROR" /\ SlaveCtrl'.FlashAddr = t
    BY <1>2 DEF SlaveVerify, TypeInv, SlaveTypeOK
  <2>2. BootKept
    BY <2>1 DEF BootKept, BootBank
  <2>3. BootSafe' /\ CellsKept /\ AtomicStep
    BY <2>2, KeptAtomic DEF BootInv
  <2> QED
    BY <1>0, <2>1, <2>2, <2>3 DEF BootInv, Updating, SlaveIn, Target, BootKept, Other
<1> QED
  BY <1>1, <1>2

(* Then the flag of the bank that ran is cleared. *)
LEMMA ClearFlagStep ==
    ASSUME TypeInv, BootInv, SlaveClearFlag, UNCHANGED delivered
    PROVE  BootInv' /\ CellsKept /\ AtomicStep
<1> DEFINE t == SlaveCtrl.FlashAddr
<1>0. /\ t \in Bank /\ flash[t].flag = "set" /\ flash[0].flag = "set"
      /\ flash \in [Bank -> BankContent]
  BY DEF SlaveClearFlag, BootInv, SlaveIn, Target, TypeInv, SlaveTypeOK
<1>1. /\ flash' = [flash EXCEPT ![Other(t)] = ClearFlag(flash[Other(t)])]
      /\ SlaveCtrl'.State = "FLAG_CLEARED"
  BY DEF SlaveClearFlag, TypeInv, SlaveTypeOK
<1>2. PICK im \in Delivered \cap Image : Sealed[im] /\ Holds(flash[t].cell, im)
  BY DEF SlaveClearFlag, BootInv, SlaveIn, Target
<1>3. flash'[t] = flash[t] /\ Bootable(flash[t])
  BY <1>0, <1>1, <1>2 DEF Other, Bank, Bootable
<1>4. flash'[Other(t)].cell = flash[Other(t)].cell /\ flash'[Other(t)].flag = "cleared"
  BY <1>0, <1>1 DEF Other, Bank, ClearFlag, BankContent
<1>5. BootBank' = t
  BY <1>0, <1>3, <1>4 DEF BootBank, Bank, Other
<1>6. BootSafe'
  BY <1>3, <1>5 DEF BootSafe
<1>7. CellsKept
  BY <1>0, <1>3, <1>4, BankType DEF CellsKept, Bank, Other, BootBank
<1>8. Installed' = im
  BY <1>2, <1>3, <1>5, ImageInHeld DEF Installed
<1>9. AtomicStep
  BY <1>2, <1>8 DEF AtomicStep, Update!Install, Delivered
<1> QED
  BY <1>1, <1>6, <1>7, <1>9 DEF BootInv, Updating, SlaveIn

(* The steps of a session that do not touch the flash, nor verify. *)
LEMMA SessionStep ==
    ASSUME TypeInv, BootInv, UNCHANGED flash, Updating,
           SlaveCtrl'.FlashAddr = SlaveCtrl.FlashAddr,
           SlaveCtrl'.State \in {"FW_VERSION_READY", "START_READY", "DATA_READY", "END_READY", "ERROR"},
           UNCHANGED delivered
    PROVE  BootInv' /\ CellsKept /\ AtomicStep
<1>1. BootKept
  BY DEF BootKept, BootBank
<1>2. BootSafe' /\ CellsKept /\ AtomicStep
  BY <1>1, KeptAtomic DEF BootInv
<1>3. Target' = Target /\ Other(BootBank)' = Other(BootBank)
  BY <1>1 DEF Target, BootKept, Other
<1> QED
  BY <1>2, <1>3 DEF BootInv, Updating, SlaveIn

(* A block is written to the bank that does not boot. *)
LEMMA BlockStep ==
    ASSUME TypeInv, BootInv, SlaveBlock, UNCHANGED delivered
    PROVE  BootInv' /\ CellsKept /\ AtomicStep
<1> DEFINE t == SlaveCtrl.FlashAddr
<1>0. /\ t = Other(BootBank) /\ t \in Bank /\ flash[t].flag = "blank"
      /\ flash[t] \in BankContent
  BY DEF SlaveBlock, BootInv, Updating, SlaveIn, Target, TypeInv, SlaveTypeOK
<1> DEFINE blk == RxFrame("slave").Data
<1>1. /\ flash' = [flash EXCEPT ![t] = WriteBlock(flash[t], blk)]
      /\ SlaveCtrl'.State \in {"DATA_READY", "END_READY"}
      /\ SlaveCtrl'.FlashAddr = t
  BY DEF SlaveBlock, SlaveIn, TypeInv, SlaveTypeOK
<1>2. WriteBlock(flash[t], blk).flag = "blank"
  <2>1. blk \in BlockOf
    BY RxBlockType DEF SlaveBlock, TypeInv
  <2> QED
    BY <1>0, <2>1, WriteBlockType
<1>3. BootKept
  BY <1>0, <1>1, <1>2, OtherBankKept DEF TypeInv
<1>4. BootSafe' /\ CellsKept /\ AtomicStep
  BY <1>3, KeptAtomic DEF BootInv
<1>5. Target'.flag = "blank" /\ SlaveCtrl'.FlashAddr = Other(BootBank)'
  BY <1>0, <1>1, <1>2, <1>3 DEF Target, BootKept, Other, TypeInv
<1> QED
  BY <1>1, <1>4, <1>5 DEF BootInv, Updating, SlaveIn

(* The END request: from here on the image is known to be received whole. *)
LEMMA EndReqStep ==
    ASSUME TypeInv, BootInv, SlaveEndReq, SlaveStep
    PROVE  BootInv' /\ CellsKept /\ AtomicStep
<1>0. /\ UNCHANGED flash
      /\ SlaveIn("END_READY") /\ Updating
      /\ SlaveCtrl'.State \in {"END", "ERROR"}
      /\ SlaveCtrl'.FlashAddr = SlaveCtrl.FlashAddr
      /\ SlaveCtrl'.PktCRC = SlaveCtrl.PktCRC
  BY DEF SlaveEndReq, SlaveIn, Updating, TypeInv, SlaveTypeOK
<1>1. CASE SlaveCtrl'.State = "END"
  <2>1. delivered' = delivered \cup {<<im, pressed["master"]>> : im \in Complete}
    BY <1>0, <1>1 DEF SlaveStep
  <2>2. Delivered' = Delivered \cup Complete
    <3> DEFINE new == {<<im, pressed["master"]>> : im \in Complete}
    <3>1. {d[1] : d \in new} = Complete
      <4>1. ASSUME NEW d \in new PROVE d[1] \in Complete
        OBVIOUS
      <4>2. ASSUME NEW im \in Complete PROVE \E d \in new : d[1] = im
        <5>1. <<im, pressed["master"]>> \in new /\ <<im, pressed["master"]>>[1] = im
          OBVIOUS
        <5> QED
          BY <5>1
      <4> QED
        BY <4>1, <4>2
    <3>2. Delivered' = {d[1] : d \in delivered \cup new}
      BY <2>1 DEF Delivered
    <3> HIDE DEF new
    <3> QED
      BY <3>1, <3>2 DEF Delivered
  <2>3. Complete' = Complete
    BY <1>0 DEF Complete
  <2>4. BootKept
    BY <1>0 DEF BootKept, BootBank
  <2>5. BootSafe' /\ CellsKept /\ UNCHANGED Installed
    BY <2>4, KeptSafe DEF BootInv
  <2>6. AtomicStep
    <3>1. CASE Complete = {}
      BY <2>2, <2>5, <3>1 DEF AtomicStep
    <3>2. CASE Complete # {}
      <4>1. PICK im \in Complete : TRUE
        BY <3>2
      <4>2. im \in Image /\ Complete = {im}
        BY <4>1, OneComplete DEF Complete
      <4>3. Update!Receive(im)
        BY <2>2, <2>5, <4>2 DEF Update!Receive
      <4> QED
        BY <4>2, <4>3 DEF AtomicStep
    <3> QED
      BY <3>1, <3>2
  <2>7. Target' = Target /\ Other(BootBank)' = Other(BootBank)
    BY <1>0, <2>4 DEF Target, BootKept, Other
  <2> QED
    BY <1>0, <1>1, <2>2, <2>3, <2>5, <2>6, <2>7 DEF BootInv, Updating, SlaveIn
<1>2. CASE SlaveCtrl'.State = "ERROR"
  <2>1. UNCHANGED delivered
    BY <1>2 DEF SlaveStep
  <2> QED
    BY <1>0, <1>2, <2>1, SessionStep
<1> QED
  BY <1>0, <1>1, <1>2

LEMMA SlaveBootStep ==
    ASSUME TypeInv, BootInv, SlaveStep
    PROVE  BootInv' /\ CellsKept /\ AtomicStep
<1>0. (SlaveIn("END_READY") /\ SlaveCtrl'.State = "END") \/ UNCHANGED delivered
  BY DEF SlaveStep
<1>1. CASE SlaveIdle \/ SlaveVersionReq \/ SlaveRepeat \/ SlaveStartReq \/ SlaveRetry
  <2>1. /\ UNCHANGED flash /\ Updating
        /\ SlaveCtrl'.FlashAddr = SlaveCtrl.FlashAddr
        /\ SlaveCtrl'.State \in {"FW_VERSION_READY", "START_READY", "DATA_READY", "END_READY", "ERROR"}
    BY <1>1 DEF SlaveIdle, SlaveVersionReq, SlaveRepeat, SlaveStartReq, SlaveRetry, SlaveWaits,
                SlaveIn, Updating, TypeInv, SlaveTypeOK
  <2> QED
    BY <1>0, <2>1, SessionStep
<1>2. CASE SlaveBlock
  BY <1>0, <1>2, BlockStep DEF SlaveBlock, SlaveIn
<1>3. CASE SlaveEndReq
  BY <1>3, EndReqStep
<1>4. CASE SlaveVerify
  BY <1>0, <1>4, VerifyStep DEF SlaveVerify, SlaveIn
<1>5. CASE SlaveClearFlag
  BY <1>0, <1>5, ClearFlagStep DEF SlaveClearFlag, SlaveIn
<1>6. CASE SlaveReboot
  <2>1. BootKept /\ UNCHANGED delivered
    BY <1>0, <1>6 DEF SlaveReboot, SlaveIn, BootKept, BootBank
  <2> QED
    BY <1>6, <2>1, ResetStep DEF SlaveReboot
<1>7. CASE SlaveError
  <2>1. SlaveCtrl.FlashAddr = Other(BootBank)
    BY <1>7 DEF SlaveError, SlaveIn, BootInv, Updating
  <2>2. BootKept
    BY <1>7, <2>1, EraseFlag, OtherBankKept DEF SlaveError, TypeInv
  <2> QED
    BY <1>0, <1>7, <2>2, ResetStep DEF SlaveError, SlaveIn
<1>8. CASE SlaveSent
  <2>1. UNCHANGED <<SlaveCtrl, flash, delivered>>
    BY <1>0, <1>8 DEF SlaveSent, SlaveIn
  <2> QED
    BY <2>1, OthersStep
<1> QED
  BY <1>1, <1>2, <1>3, <1>4, <1>5, <1>6, <1>7, <1>8 DEF SlaveStep, SlaveLoop

LEMMA InitBoot == Init => BootInv
<1> SUFFICES ASSUME Init PROVE BootInv
  OBVIOUS
<1>1. PICK im \in Image : flash[0] = Factory("set", im)
  BY FactoryAssumption DEF Init, FlashInit, Bank
<1>2. Holds(flash[0].cell, im) /\ flash[0].flag = "set"
  BY <1>1, FlashAssumption, MaxBlockNumType DEF Holds, Factory
<1>3. BootSafe
  BY <1>2 DEF BootSafe, Bootable, BootBank
<1>4. SlaveCtrl.State = "APP"
  BY DEF Init, SlaveInit, SlaveBoot
<1> QED
  BY <1>3, <1>4 DEF BootInv, Updating, SlaveIn

LEMMA NextBoot == TypeInv /\ BootInv /\ [Next]_vars => BootInv' /\ CellsKept /\ AtomicStep
<1> SUFFICES ASSUME TypeInv, BootInv, [Next]_vars PROVE BootInv' /\ CellsKept /\ AtomicStep
  OBVIOUS
<1>1. CASE PressMaster \/ MasterStep \/ MasterFails \/ UNCHANGED vars
  BY <1>1, OthersStep DEF PressMaster, MasterStep, MasterFails, vars
<1>2. CASE PressSlave
  <2>1. CASE SlaveLowBattery
    <3>1. /\ SlaveCtrl'.State = "LOW_BATT" /\ UNCHANGED delivered
          /\ BootKept
      BY <1>2, <2>1 DEF PressSlave, SlaveLowBattery, BootKept, BootBank, TypeInv, SlaveTypeOK
    <3>2. BootSafe' /\ CellsKept /\ AtomicStep
      BY <3>1, KeptAtomic DEF BootInv
    <3> QED
      BY <3>1, <3>2 DEF BootInv, Updating, SlaveIn
  <2> QED
    BY <1>2, <2>1, InitStep, EraseFailsStep DEF PressSlave
<1>3. CASE SlaveStep
  BY <1>3, SlaveBootStep
<1>4. CASE SlaveFails
  <2>1. CASE SlavePowerLoss
    <3>1. BootKept /\ UNCHANGED delivered
      BY <1>4, <2>1 DEF SlaveFails, SlavePowerLoss, BootKept, BootBank
    <3> QED
      BY <2>1, <3>1, ResetStep DEF SlavePowerLoss
  <2> QED
    BY <1>4, <2>1, EraseFailsStep DEF SlaveFails
<1>5. CASE \E n \in Node : UartStep(n) \/ TimerStep(n)
  BY <1>5, OthersStep DEF UartStep, TimerStep
<1> QED
  BY <1>1, <1>2, <1>3, <1>4, <1>5 DEF Next

LEMMA BootInvariant == Spec => [](TypeInv /\ BootInv)
<1>1. TypeInv /\ BootInv /\ [Next]_vars => BootInv'
  BY NextBoot
<1> QED
  BY <1>1, InitBoot, Invariant, PTL DEF Spec

(* Wherever the power fails, the bank that boots holds a whole image. *)
THEOREM FwAlwaysBootable == Spec => []BootSafe
<1>1. BootInv => BootSafe
  BY DEF BootInv
<1> QED
  BY <1>1, BootInvariant, PTL

(* The update implements AtomicUpdate: the firmware that boots changes in one
   step, to an image received from beginning to end with its CRC in its
   trailer. *)
THEOREM FwImplementsAtomicUpdate == Spec => UpdateIsAtomic
<1>1. Init => Update!Init
  <2> SUFFICES ASSUME Init PROVE Update!Init
    OBVIOUS
  <2>1. \E im \in Image : Holds(flash[BootBank].cell, im)
    BY InitBoot DEF BootInv, BootSafe, Bootable
  <2>2. Installed \in Image
    BY <2>1, ImageInHeld DEF Installed
  <2>3. Delivered = {}
    BY DEF Init, Delivered
  <2> QED
    BY <2>2, <2>3 DEF Update!Init
<1>2. TypeInv /\ BootInv /\ [Next]_vars => [Update!Next]_<<Installed, Delivered>>
  BY NextBoot DEF AtomicStep, Update!Next
<1> QED
  BY <1>1, <1>2, BootInvariant, PTL DEF Spec, UpdateIsAtomic, Update!Spec
-----------------------------------------------------------------------------
(***************************************************************************)
(* The line.  What a node may still read is what its peer is sending and   *)
(* what waits in its queue and for its interrupt; no step adds to it but a *)
(* call of the peer that sends, and that adds the peer's TxFrame only.     *)
(***************************************************************************)
USE DEF FW_UPDATE_FRAME_TYPE_CMD, FW_UPDATE_FRAME_TYPE_DATA, FW_UPDATE_FRAME_TYPE_ACK

(* The receive buffers of messages that are not popped yet, and of an
   interrupt that is not served yet. *)
Queued(u) == {u.MsgQueue[i].Buf : i \in {j \in 1 .. Len(u.MsgQueue) : u.MsgQueue[j].Type = "DATA"}}

Unread(u) == Queued(u) \cup (IF "RX" \in u.irq THEN {u.PHY_RxPtr} ELSE {})

Heard(u) == {u.PHY_RxBuf[b] : b \in Unread(u)}

(* What n may still read, unless it is spoilt: the frames it has not read yet,
   and the one that its peer is sending. *)
Coming(n) ==
    {f \in Heard(uart[n]) \cup (IF uart[Peer(n)].tx THEN {TxFrame[Peer(n)]} ELSE {}) : f.Ok}

LEMMA QueuedIn ==
    ASSUME NEW u, NEW b
    PROVE  b \in Queued(u) <=>
             \E i \in 1 .. Len(u.MsgQueue) : u.MsgQueue[i].Type = "DATA" /\ u.MsgQueue[i].Buf = b
BY DEF Queued

LEMMA PoppedHears ==
    ASSUME NEW u \in GoodUart
    PROVE  /\ Heard(Popped(u)) \subseteq Heard(u)
           /\ Unread(Popped(u)) \subseteq Unread(u)
           /\ Popped(u).tx = u.tx /\ Popped(u).on = u.on
<1> DEFINE v == Popped(u)
           q == IF u.MsgQueue = << >> THEN u.MsgQueue ELSE Tail(u.MsgQueue)
<1>1. u.MsgQueue \in Seq(Message)
  BY DEF GoodUart, Uart
<1>2. v = [u EXCEPT !.MsgQueue = q]
  BY DEF Popped
<1> HIDE DEF q
<1>3. /\ v.MsgQueue = q /\ v.irq = u.irq /\ v.PHY_RxPtr = u.PHY_RxPtr /\ v.PHY_RxBuf = u.PHY_RxBuf
      /\ v.tx = u.tx /\ v.on = u.on
  BY <1>2 DEF GoodUart, Uart
<1>4. ASSUME NEW i \in 1 .. Len(q)
      PROVE  \E j \in 1 .. Len(u.MsgQueue) : q[i] = u.MsgQueue[j]
  <2>1. CASE u.MsgQueue = << >>
    BY <2>1 DEF q
  <2>2. CASE u.MsgQueue # << >>
    <3>1. Len(q) = Len(u.MsgQueue) - 1 /\ q[i] = u.MsgQueue[i + 1]
      BY <1>1, <1>4, <2>2 DEF q
    <3>2. i + 1 \in 1 .. Len(u.MsgQueue)
      BY <1>1, <3>1
    <3> QED
      BY <3>1, <3>2
  <2> QED
    BY <2>1, <2>2
<1> HIDE DEF v
<1>5. Queued(v) \subseteq Queued(u)
  BY <1>3, <1>4, QueuedIn
<1> QED
  BY <1>3, <1>5 DEF Unread, Heard, v

LEMMA PushHears ==
    ASSUME NEW u \in GoodUart, NEW msg \in Message, NEW v \in GoodUart,
           v.MsgQueue = Push(u.MsgQueue, msg)
    PROVE  Queued(v) \subseteq Queued(u) \cup (IF msg.Type = "DATA" THEN {msg.Buf} ELSE {})
<1>1. u.MsgQueue \in Seq(Message)
  BY DEF GoodUart, Uart
<1>2. ASSUME NEW i \in 1 .. Len(v.MsgQueue)
      PROVE  v.MsgQueue[i] = msg \/ \E j \in 1 .. Len(u.MsgQueue) : v.MsgQueue[i] = u.MsgQueue[j]
  <2>1. CASE Len(u.MsgQueue) < MSG_QUEUE_LEN
    <3>1. v.MsgQueue = Append(u.MsgQueue, msg)
      BY <2>1 DEF Push
    <3> QED
      BY <1>1, <1>2, <3>1
  <2>2. CASE ~(Len(u.MsgQueue) < MSG_QUEUE_LEN)
    BY <1>2, <2>2 DEF Push
  <2> QED
    BY <2>1, <2>2
<1> QED
  BY <1>2, QueuedIn

LEMMA IrqHears ==
    ASSUME NEW u \in GoodUart
    PROVE  /\ Unread(irq_handler(u)) \subseteq Unread(u)
           /\ irq_handler(u).PHY_RxBuf = u.PHY_RxBuf
           /\ irq_handler(u).tx = u.tx
<1> DEFINE msg == IF u.PHY_RxBuf[u.PHY_RxPtr].Ok
                  THEN [Type |-> "DATA", Buf |-> u.PHY_RxPtr]
                  ELSE INVALID_DATA
           rx == IF "RX" \in u.irq THEN RxIrqHandler(u) ELSE u
           tx == IF "TX" \in u.irq THEN TxIrqHandler(rx) ELSE rx
           v == irq_handler(u)
<1>1. u.PHY_RxPtr \in RxBuffer
  BY DEF GoodUart, Uart, RxBuffer
<1>2. msg \in Message /\ (msg.Type = "DATA" => msg.Buf = u.PHY_RxPtr)
  BY <1>1 DEF Message, INVALID_DATA, RxBuffer, PHY_RX_BUF_NUM
<1>3. "RX" \in u.irq => RxIrqHandler(u).MsgQueue = Push(u.MsgQueue, msg)
  BY DEF RxIrqHandler, GoodUart, Uart
<1> HIDE DEF msg
<1>4. /\ rx \in GoodUart
      /\ Queued(rx) \subseteq Unread(u)
      /\ rx.PHY_RxBuf = u.PHY_RxBuf /\ rx.tx = u.tx
  <2>1. CASE "RX" \in u.irq
    <3>1. RxIrqHandler(u) \in GoodUart
      BY RxIrqType
    <3>2. Queued(RxIrqHandler(u)) \subseteq Queued(u) \cup (IF msg.Type = "DATA" THEN {msg.Buf} ELSE {})
      BY <1>2, <1>3, <2>1, <3>1, PushHears
    <3>3. RxIrqHandler(u).PHY_RxBuf = u.PHY_RxBuf /\ RxIrqHandler(u).tx = u.tx
      BY DEF RxIrqHandler, GoodUart, Uart
    <3> QED
      BY <1>2, <2>1, <3>1, <3>2, <3>3 DEF Unread
  <2>2. CASE "RX" \notin u.irq
    BY <2>2 DEF Unread
  <2> QED
    BY <2>1, <2>2
<1> HIDE DEF rx
<1>5. /\ tx \in GoodUart /\ tx.MsgQueue = rx.MsgQueue
      /\ tx.PHY_RxBuf = rx.PHY_RxBuf /\ tx.tx = rx.tx
  BY <1>4 DEF TxIrqHandler, GoodUart, Uart
<1>6. v = [tx EXCEPT !.irq = {}]
  BY DEF irq_handler, rx
<1> HIDE DEF tx, v
<1>7. /\ v.MsgQueue = rx.MsgQueue /\ v.irq = {} /\ v.PHY_RxBuf = u.PHY_RxBuf /\ v.tx = u.tx
  BY <1>4, <1>5, <1>6 DEF GoodUart, Uart
<1>8. Unread(v) \subseteq Unread(u)
  BY <1>4, <1>7 DEF Unread, Queued
<1> QED
  BY <1>7, <1>8 DEF v

LEMMA InterruptHears ==
    ASSUME NEW u \in GoodUart, NEW channel \in {"RX", "TX"}, NEW swallow \in BOOLEAN
    PROVE  LET v == Interrupt(u, channel, swallow) IN
           /\ Unread(v) \subseteq Unread(u) \cup (IF channel = "RX" THEN {u.PHY_RxPtr} ELSE {})
           /\ v.PHY_RxBuf = u.PHY_RxBuf
           /\ v.tx = u.tx
<1> DEFINE raised == [u EXCEPT !.irq = u.irq \cup {channel}]
<1>1. raised \in GoodUart
  BY DEF GoodUart, Uart
<1>2. /\ raised.MsgQueue = u.MsgQueue /\ raised.PHY_RxBuf = u.PHY_RxBuf /\ raised.tx = u.tx
      /\ raised.PHY_RxPtr = u.PHY_RxPtr /\ raised.irq = u.irq \cup {channel}
  BY DEF GoodUart, Uart
<1>3. Unread(raised) \subseteq Unread(u) \cup (IF channel = "RX" THEN {u.PHY_RxPtr} ELSE {})
  BY <1>2 DEF Unread, Queued
<1>4. Interrupt(u, channel, swallow) = IF swallow THEN raised ELSE irq_handler(raised)
  BY DEF Interrupt
<1> HIDE DEF raised
<1> QED
  BY <1>1, <1>2, <1>3, <1>4, IrqHears

LEMMA FillHears ==
    ASSUME NEW u \in GoodUart, NEW f \in GoodFrame, NEW swallow \in BOOLEAN
    PROVE  LET v == Interrupt(Fill(u, f), "RX", swallow) IN
           Heard(v) \subseteq Heard(u) \cup {f} /\ v.tx = u.tx
<1> DEFINE w == Fill(u, f)
           v == Interrupt(w, "RX", swallow)
           buf == [u.PHY_RxBuf EXCEPT ![u.PHY_RxPtr] = f]
<1>1. w \in GoodUart
  BY FillType
<1>2. w = [u EXCEPT !.PHY_RxBuf = buf]
  BY DEF Fill
<1> HIDE DEF buf, w
<1>3. /\ w.MsgQueue = u.MsgQueue /\ w.PHY_RxBuf = buf /\ w.tx = u.tx
      /\ w.PHY_RxPtr = u.PHY_RxPtr /\ w.irq = u.irq
  BY <1>2 DEF GoodUart, Uart
<1>4. Unread(w) = Unread(u)
  BY <1>3 DEF Unread, Queued
<1>5. /\ Unread(v) \subseteq Unread(u) \cup {u.PHY_RxPtr} /\ v.PHY_RxBuf = buf /\ v.tx = u.tx
  BY <1>1, <1>3, <1>4, InterruptHears
<1>6. ASSUME NEW b \in Unread(u) \cup {u.PHY_RxPtr}
      PROVE  buf[b] = f \/ (b \in Unread(u) /\ buf[b] = u.PHY_RxBuf[b])
  <2>1. u.PHY_RxBuf \in [RxBuffer -> GoodFrame] /\ u.PHY_RxPtr \in RxBuffer
    BY DEF GoodUart, Uart, RxBuffer
  <2>2. CASE b = u.PHY_RxPtr
    BY <2>1, <2>2 DEF buf
  <2>3. CASE b # u.PHY_RxPtr
    BY <2>1, <2>3, <1>6 DEF buf
  <2> QED
    BY <2>2, <2>3
<1> HIDE DEF v
<1>7. Heard(v) \subseteq Heard(u) \cup {f}
  BY <1>5, <1>6 DEF Heard
<1> QED
  BY <1>5, <1>7 DEF v, w

(* Nothing comes to a node that did not come to it before. *)
NothingNew == \A m \in Node : Coming(m)' \subseteq Coming(m)

(* The step of n puts one frame on the line. *)
Says(n, frame) ==
    /\ Coming(n)' \subseteq Coming(n)
    /\ Coming(Peer(n))' \subseteq Coming(Peer(n)) \cup {frame}
    /\ TxFrame'[n] = frame
    /\ TxFrame'[Peer(n)] = TxFrame[Peer(n)]
    /\ UNCHANGED uart[Peer(n)].tx

(* A node transmits only while it spins for it, and one that is off has
   received nothing. *)
LineInv == \A n \in Node : /\ uart[n].tx => sending[n]
                           /\ ~uart[n].on => Unread(uart[n]) = {} /\ ~sending[n]

LEMMA ComingIn ==
    ASSUME NEW n \in Node, NEW f
    PROVE  f \in Coming(n) <=> /\ f.Ok
                               /\ f \in Heard(uart[n]) \/ (uart[Peer(n)].tx /\ f = TxFrame[Peer(n)])
BY DEF Coming

LEMMA ComingTo ==
    ASSUME NEW n \in Node,
           Heard(uart'[n]) \subseteq Heard(uart[n]),
           uart'[Peer(n)].tx => uart[Peer(n)].tx /\ TxFrame'[Peer(n)] = TxFrame[Peer(n)]
    PROVE  Coming(n)' \subseteq Coming(n)
BY DEF Coming

LEMMA SendHears ==
    ASSUME UartInv, LineInv, NEW n \in Node, NEW frame, Running(n), Send(n, frame)
    PROVE  Says(n, frame) /\ LineInv'
<1> DEFINE p == Popped(uart[n])
           u == [p EXCEPT !.tx = TRUE]
<1>1. p \in GoodUart /\ Heard(p) \subseteq Heard(uart[n]) /\ p.on = uart[n].on
  BY PoppedType, PoppedHears DEF UartInv
<1>2. uart' = [uart EXCEPT ![n] = u] /\ TxFrame' = [TxFrame EXCEPT ![n] = frame]
      /\ sending' = [sending EXCEPT ![n] = TRUE]
  BY DEF Send
<1> HIDE DEF p
<1>3. /\ u.tx /\ u.MsgQueue = p.MsgQueue /\ u.irq = p.irq
      /\ u.PHY_RxPtr = p.PHY_RxPtr /\ u.PHY_RxBuf = p.PHY_RxBuf /\ u.on = p.on
  BY <1>1 DEF GoodUart, Uart
<1> HIDE DEF u
<1>4. Heard(u) \subseteq Heard(uart[n])
  <2>1. Heard(u) = Heard(p)
    BY <1>3 DEF Heard, Unread, Queued
  <2> QED
    BY <2>1, <1>1
<1>5. /\ uart'[n] = u /\ uart'[Peer(n)] = uart[Peer(n)]
      /\ TxFrame'[n] = frame /\ TxFrame'[Peer(n)] = TxFrame[Peer(n)]
      /\ sending'[n] /\ sending'[Peer(n)] = sending[Peer(n)]
  BY <1>2 DEF UartInv
<1>6. Coming(n)' \subseteq Coming(n)
  BY <1>4, <1>5, ComingTo
<1>7. Coming(Peer(n))' \subseteq Coming(Peer(n)) \cup {frame}
  BY <1>5 DEF Coming
<1>8. LineInv'
  BY <1>1, <1>3, <1>5 DEF LineInv, Running
<1> QED
  BY <1>5, <1>6, <1>7, <1>8 DEF Says

(* Steps of n that only pop. *)
LEMMA PopHears ==
    ASSUME UartInv, LineInv, NEW n \in Node, Running(n),
           uart' = [uart EXCEPT ![n] = Popped(@)], UNCHANGED <<TxFrame, sending>>
    PROVE  NothingNew /\ LineInv'
<1> DEFINE u == Popped(uart[n])
<1>1. /\ Heard(u) \subseteq Heard(uart[n])
      /\ u.tx = uart[n].tx /\ u.on = uart[n].on
  BY PoppedHears DEF UartInv
<1>2. uart' = [uart EXCEPT ![n] = u]
  OBVIOUS
<1> HIDE DEF u
<1>3. uart'[n] = u /\ uart'[Peer(n)] = uart[Peer(n)]
  BY <1>2 DEF UartInv
<1>4. Coming(n)' \subseteq Coming(n)
  BY <1>1, <1>3, ComingTo
<1>5. Coming(Peer(n))' \subseteq Coming(Peer(n))
  BY <1>1, <1>3 DEF Coming
<1>6. LineInv'
  BY <1>1, <1>3 DEF LineInv, Running
<1> QED
  BY <1>4, <1>5, <1>6 DEF NothingNew

LEMMA SentHears ==
    ASSUME UartInv, LineInv, NEW n \in Node, NEW wait, Sent(n, wait), ~uart[n].tx
    PROVE  NothingNew /\ LineInv'
<1> DEFINE u == [uart[n] EXCEPT !.PHY_TxFinished = FALSE]
<1>1. /\ u.tx = uart[n].tx /\ u.on = uart[n].on /\ u.MsgQueue = uart[n].MsgQueue /\ u.irq = uart[n].irq
      /\ u.PHY_RxPtr = uart[n].PHY_RxPtr /\ u.PHY_RxBuf = uart[n].PHY_RxBuf
  BY DEF UartInv, GoodUart, Uart
<1>2. /\ uart' = [uart EXCEPT ![n] = u] /\ sending' = [sending EXCEPT ![n] = FALSE]
      /\ TxFrame' = TxFrame
  BY DEF Sent
<1> HIDE DEF u
<1>3. /\ uart'[n] = u /\ uart'[Peer(n)] = uart[Peer(n)]
      /\ ~sending'[n] /\ sending'[Peer(n)] = sending[Peer(n)]
  BY <1>2 DEF UartInv
<1>4. Heard(u) = Heard(uart[n]) /\ Unread(u) = Unread(uart[n])
  BY <1>1 DEF Heard, Unread, Queued
<1>5. Coming(n)' \subseteq Coming(n) /\ Coming(Peer(n))' \subseteq Coming(Peer(n))
  BY <1>1, <1>2, <1>3, <1>4 DEF Coming
<1>6. LineInv'
  BY <1>1, <1>3, <1>4 DEF LineInv
<1> QED
  BY <1>5, <1>6 DEF NothingNew

LEMMA TimerHears ==
    ASSUME UartInv, LineInv, NEW n \in Node, TimerFires(n)
    PROVE  NothingNew /\ LineInv'
<1> DEFINE u == [uart[n] EXCEPT !.MsgQueue = Push(uart[n].MsgQueue, TIMEOUT)]
<1>1. TIMEOUT \in Message /\ TIMEOUT.Type # "DATA"
  BY DEF TIMEOUT, Message, PHY_RX_BUF_NUM
<1>2. uart[n] \in GoodUart /\ u \in GoodUart
  <2>1. uart[n].MsgQueue \in Seq(Message) /\ Len(uart[n].MsgQueue) <= MSG_QUEUE_LEN
    BY DEF UartInv, GoodUart, Uart
  <2> QED
    BY <1>1, <2>1, PushType, QueueType DEF UartInv
<1>3. /\ u.tx = uart[n].tx /\ u.on = uart[n].on /\ u.MsgQueue = Push(uart[n].MsgQueue, TIMEOUT)
      /\ u.irq = uart[n].irq
      /\ u.PHY_RxPtr = uart[n].PHY_RxPtr /\ u.PHY_RxBuf = uart[n].PHY_RxBuf
  BY <1>2 DEF GoodUart, Uart
<1>4. uart' = [uart EXCEPT ![n] = u] /\ UNCHANGED <<TxFrame, sending>>
  BY DEF TimerFires
<1> HIDE DEF u
<1>5. Queued(u) \subseteq Queued(uart[n])
  BY <1>1, <1>2, <1>3, PushHears
<1>6. Heard(u) \subseteq Heard(uart[n])
  BY <1>3, <1>5 DEF Heard, Unread
<1>7. uart'[n] = u /\ uart'[Peer(n)] = uart[Peer(n)]
  BY <1>4 DEF UartInv
<1>8. Coming(n)' \subseteq Coming(n) /\ Coming(Peer(n))' \subseteq Coming(Peer(n))
  BY <1>3, <1>4, <1>6, <1>7 DEF Coming
<1>9. LineInv'
  BY <1>3, <1>4, <1>7 DEF LineInv, TimerFires, Running
<1> QED
  BY <1>8, <1>9 DEF NothingNew

LEMMA ResetHears ==
    ASSUME UartInv, LineInv, NEW n \in Node, UartReset(n)
    PROVE  /\ NothingNew /\ LineInv'
           /\ TxFrame'[Peer(n)] = TxFrame[Peer(n)]
           /\ ~uart'[n].on /\ ~sending'[n]
           /\ uart'[Peer(n)] = uart[Peer(n)] /\ sending'[Peer(n)] = sending[Peer(n)]
<1>1. /\ uart'[n] = UartOff /\ uart'[Peer(n)] = uart[Peer(n)]
      /\ ~sending'[n] /\ sending'[Peer(n)] = sending[Peer(n)]
      /\ TxFrame'[Peer(n)] = TxFrame[Peer(n)]
  BY DEF UartReset, UartInv
<1>2. Unread(UartOff) = {} /\ Heard(UartOff) = {} /\ ~UartOff.tx /\ ~UartOff.on
  BY DEF UartOff, Unread, Heard, Queued
<1>3. Coming(n)' \subseteq Coming(n) /\ Coming(Peer(n))' \subseteq Coming(Peer(n))
  BY <1>1, <1>2 DEF Coming
<1>4. LineInv'
  BY <1>1, <1>2 DEF LineInv
<1> QED
  BY <1>1, <1>2, <1>3, <1>4 DEF NothingNew

LEMMA PhyInitHears ==
    ASSUME UartInv, LineInv, NEW n \in Node, FW_UPDATE_PHY_Init(n), ~uart[n].on
    PROVE  /\ NothingNew /\ LineInv'
           /\ uart'[n].on /\ uart'[Peer(n)] = uart[Peer(n)]
           /\ \A f \in Coming(n)' : uart[Peer(n)].tx /\ f = TxFrame[Peer(n)]
<1> DEFINE u == [uart[n] EXCEPT !.on = TRUE]
<1>1. /\ u.tx = uart[n].tx /\ u.on /\ u.MsgQueue = uart[n].MsgQueue /\ u.irq = uart[n].irq
      /\ u.PHY_RxPtr = uart[n].PHY_RxPtr /\ u.PHY_RxBuf = uart[n].PHY_RxBuf
  BY DEF UartInv, GoodUart, Uart
<1>2. uart' = [uart EXCEPT ![n] = u] /\ UNCHANGED <<TxFrame, sending>>
  BY DEF FW_UPDATE_PHY_Init
<1> HIDE DEF u
<1>3. uart'[n] = u /\ uart'[Peer(n)] = uart[Peer(n)]
  BY <1>2 DEF UartInv
<1>4. Heard(u) = Heard(uart[n]) /\ Unread(u) = Unread(uart[n])
  BY <1>1 DEF Heard, Unread, Queued
<1>5. Heard(uart[n]) = {}
  BY DEF LineInv, Heard
<1>6. Coming(n)' \subseteq Coming(n) /\ Coming(Peer(n))' \subseteq Coming(Peer(n))
  BY <1>1, <1>2, <1>3, <1>4 DEF Coming
<1>7. LineInv'
  BY <1>1, <1>2, <1>3, <1>4 DEF LineInv
<1>8. \A f \in Coming(n)' : uart[Peer(n)].tx /\ f = TxFrame[Peer(n)]
  BY <1>2, <1>3, <1>4, <1>5 DEF Coming
<1> QED
  BY <1>1, <1>3, <1>6, <1>7, <1>8 DEF NothingNew

(* What has gone out is what came in before, or it is lost or spoilt. *)
LEMMA TransmittedHears ==
    ASSUME UartInv, LineInv, NEW n \in Node, Transmitted(n)
    PROVE  /\ NothingNew /\ LineInv'
           /\ UNCHANGED <<TxFrame, sending>> /\ \A m \in Node : uart'[m].on = uart[m].on
<1> DEFINE p == Peer(n)
           quiet == [uart[n] EXCEPT !.tx = FALSE]
<1>1. PICK sw \in [Node -> BOOLEAN], got \in Arrivals(TxFrame[n]), lost \in BOOLEAN :
        /\ ~uart[p].on => lost
        /\ uart' = [uart EXCEPT
                      ![n] = Interrupt(quiet, "TX", sw[n]),
                      ![p] = IF lost THEN uart[p] ELSE Interrupt(Fill(uart[p], got), "RX", sw[p])]
  BY DEF Transmitted
<1>2. /\ uart[n].tx /\ UNCHANGED <<TxFrame, sending>>
      /\ \A m \in Node : uart'[m].on = uart[m].on
  BY TransmittedType DEF Transmitted
<1>3. got \in GoodFrame /\ (got.Ok => got = TxFrame[n])
  <2>1. TxFrame[n] \in GoodFrame
    BY DEF UartInv
  <2>2. [TxFrame[n] EXCEPT !.Ok = FALSE].Ok = FALSE
    BY <2>1 DEF GoodFrame, Frame
  <2> QED
    BY <2>1, <2>2, ArrivalType DEF Arrivals
<1>4. /\ quiet \in GoodUart /\ ~quiet.tx
      /\ quiet.MsgQueue = uart[n].MsgQueue /\ quiet.irq = uart[n].irq
      /\ quiet.PHY_RxPtr = uart[n].PHY_RxPtr /\ quiet.PHY_RxBuf = uart[n].PHY_RxBuf
  BY DEF UartInv, GoodUart, Uart
<1> HIDE DEF quiet
<1>5. sw[n] \in BOOLEAN /\ sw[p] \in BOOLEAN
  <2>1. p \in Node
    OBVIOUS
  <2> HIDE DEF p
  <2> QED
    BY <2>1, Zenon
<1> DEFINE a == Interrupt(quiet, "TX", sw[n])
           b == IF lost THEN uart[p] ELSE Interrupt(Fill(uart[p], got), "RX", sw[p])
<1>6. Unread(a) \subseteq Unread(uart[n]) /\ Heard(a) \subseteq Heard(uart[n]) /\ ~a.tx
  <2>1. Unread(quiet) = Unread(uart[n])
    BY <1>4 DEF Unread, Queued
  <2>2. /\ Unread(a) \subseteq Unread(quiet) \cup (IF "TX" = "RX" THEN {quiet.PHY_RxPtr} ELSE {})
        /\ a.PHY_RxBuf = quiet.PHY_RxBuf /\ a.tx = quiet.tx
    BY <1>4, <1>5, InterruptHears
  <2> HIDE DEF a
  <2>3. Unread(a) \subseteq Unread(uart[n])
    BY <2>1, <2>2
  <2> QED
    BY <1>4, <2>2, <2>3 DEF Heard
<1>7. /\ Heard(b) \subseteq Heard(uart[p]) \cup {got} /\ b.tx = uart[p].tx
      /\ ~uart[p].on => b = uart[p]
  <2>1. uart[p] \in GoodUart
    BY DEF UartInv
  <2> QED
    BY <1>1, <1>3, <1>5, <2>1, FillHears
<1>8. uart'[n] = a /\ uart'[p] = b
  <2>1. uart' = [uart EXCEPT ![n] = a, ![p] = b]
    BY <1>1
  <2> HIDE DEF a, b
  <2> QED
    BY <2>1 DEF UartInv
<1> HIDE DEF a, b
<1>9. Coming(n)' \subseteq Coming(n)
  BY <1>2, <1>6, <1>7, <1>8, ComingTo
<1>10. Coming(p)' \subseteq Coming(p)
  <2>1. Peer(p) = n
    OBVIOUS
  <2> QED
    BY <1>2, <1>3, <1>6, <1>7, <1>8, <2>1 DEF Coming
<1>11. LineInv'
  BY <1>2, <1>6, <1>7, <1>8 DEF LineInv
<1> QED
  BY <1>2, <1>9, <1>10, <1>11 DEF NothingNew

(* A message that is read shows a frame that came, if the buffers are intact. *)
LEMMA ReadsComing ==
    ASSUME UartInv, BuffersIntact, NEW n \in Node, GotData(n)
    PROVE  RxFrame(n) \in Coming(n) /\ RxFrame(n) \in GoodFrame
<1>1. uart[n].MsgQueue \in Seq(Message) /\ uart[n].MsgQueue # << >>
  BY DEF UartInv, GoodUart, Uart, GotData, GotMsg, MsgQueue
<1>2. 1 \in 1 .. Len(uart[n].MsgQueue) /\ Msg(n) = uart[n].MsgQueue[1]
  BY <1>1 DEF Msg, MsgQueue
<1>3. Msg(n).Buf \in Unread(uart[n])
  BY <1>2, QueuedIn DEF Unread, GotData
<1>4. RxFrame(n).Ok
  BY <1>2 DEF BuffersIntact, RxFrame, GotData, MsgQueue
<1>5. RxFrame(n) \in Heard(uart[n])
  BY <1>3 DEF Heard, RxFrame
<1> QED
  BY <1>4, <1>5, RxType DEF Coming
-----------------------------------------------------------------------------
(***************************************************************************)
(* The protocol.  SyncInv says how far the two sides may be apart and what *)
(* frames may then be on the line; the lemmas keep it over one change of a *)
(* side, whoever makes it.                                                 *)
(***************************************************************************)

Bin == MasterCtrl.Bin

IsData(f) == f.Type = FW_UPDATE_FRAME_TYPE_DATA
IsAck(f) == f.Type = FW_UPDATE_FRAME_TYPE_ACK

MasterOn == MasterCtrl.State \notin {"APP", "LOW_BATT"}
SlaveOn == SlaveCtrl.State \notin {"APP", "LOW_BATT"}

(* The slave may still send or take something. *)
SlaveTalks == SlaveCtrl.State \in {"IDLE", "FW_VERSION_READY", "START_READY", "DATA_READY",
                                   "END_READY", "END"}

(* The slave has not been asked to start. *)
SlaveOpens == SlaveCtrl.State \in {"IDLE", "FW_VERSION_READY", "START_READY"}

(* What the master has asked since its button was pressed. *)
Asked(f) ==
    \/ IsCmd(f, FW_UPDATE_CMD_ID_VERSION_REQ)
    \/ /\ IsCmd(f, FW_UPDATE_CMD_ID_START_REQ) /\ f.Val = MaxBlockNum(Bin)
       /\ MasterCtrl.State \notin {"IDLE", "FW_VER_WAIT"}
    \/ IsData(f) /\ f.Data = Block(Bin, f.Id) /\ f.Id \in 1 .. MasterCtrl.BlockNum
    \/ /\ IsCmd(f, FW_UPDATE_CMD_ID_END_REQ)
       /\ MasterCtrl.State \in {"END_RSP_WAIT", "END", "ERROR"}
       /\ MasterCtrl.BlockNum = MaxBlockNum(Bin)

(* What the slave has answered since its button was pressed. *)
Answered(f) ==
    \/ IsCmd(f, FW_UPDATE_CMD_ID_VERSION_RSP) /\ SlaveCtrl.State \notin {"IDLE", "FW_VERSION_READY"}
    \/ IsCmd(f, FW_UPDATE_CMD_ID_START_RSP) /\ ~SlaveOpens
    \/ IsAck(f) /\ f.Id \in 1 .. SlaveCtrl.BlockNum
    \/ IsCmd(f, FW_UPDATE_CMD_ID_END_RSP) /\ SlaveIn("END")

(* The places of the two in the session, and what each would send again. *)
MasterPlace ==
    /\ MasterCtrl.State \in {"APP", "IDLE", "FW_VER_WAIT", "START_RSP_WAIT"} =>
         MasterCtrl.BlockNum = 0 /\ ~MasterCtrl.FinishFlag
    /\ MasterIn("DATA_ACK_WAIT") =>
         /\ 1 <= MasterCtrl.BlockNum /\ MasterCtrl.BlockNum <= MaxBlockNum(Bin)
         /\ MasterCtrl.FinishFlag <=> MasterCtrl.BlockNum = MaxBlockNum(Bin)
    /\ MasterIn("END_RSP_WAIT") => MasterCtrl.BlockNum = MaxBlockNum(Bin)

Asks(f) ==
    /\ MasterIn("FW_VER_WAIT") => IsCmd(f, FW_UPDATE_CMD_ID_VERSION_REQ)
    /\ MasterIn("START_RSP_WAIT") =>
         IsCmd(f, FW_UPDATE_CMD_ID_START_REQ) /\ f.Val = MaxBlockNum(Bin)
    /\ MasterIn("DATA_ACK_WAIT") =>
         IsData(f) /\ f.Data = Block(Bin, f.Id) /\ f.Id = MasterCtrl.BlockNum
    /\ MasterIn("END_RSP_WAIT") => IsCmd(f, FW_UPDATE_CMD_ID_END_REQ)

SlavePlace ==
    /\ Len(SlaveCtrl.PktCRC) = SlaveCtrl.BlockNum
    /\ SlaveOpens => SlaveCtrl.BlockNum = 0
    /\ SlaveIn("END_READY") => /\ SlaveCtrl.BlockNum # 0
                               /\ SlaveCtrl.BlockNum = SlaveCtrl.MaxBlockNum

Tells(f) ==
    /\ SlaveIn("START_READY") => IsCmd(f, FW_UPDATE_CMD_ID_VERSION_RSP)
    /\ SlaveCtrl.State \in {"DATA_READY", "END_READY"} =>
         \/ IsCmd(f, FW_UPDATE_CMD_ID_START_RSP)
         \/ IsAck(f) /\ f.Id \in 1 .. SlaveCtrl.BlockNum
    /\ SlaveIn("END") => IsCmd(f, FW_UPDATE_CMD_ID_END_RSP)

Requests == MasterOn => \A f \in Coming("slave") : Asked(f)

Replies == SlaveTalks => \A f \in Coming("master") : Answered(f)

SentBy(im) == \A i \in DOMAIN SlaveCtrl.PktCRC : SlaveCtrl.PktCRC[i] = Block(im, i)

(* A master that has been started again cannot go on: the slave is past the
   question for its version. *)
MasterStranded ==
    /\ MasterCtrl.State \in {"IDLE", "FW_VER_WAIT", "ERROR"} /\ MasterCtrl.BlockNum = 0
    /\ ~SlaveOpens
    /\ \A f \in Coming("master") : ~IsCmd(f, FW_UPDATE_CMD_ID_VERSION_RSP)

(* And a slave that has been: the master asks for the version no more. *)
SlaveStranded ==
    /\ SlaveCtrl.State \in {"IDLE", "FW_VERSION_READY"}
    /\ MasterCtrl.State \notin {"IDLE", "FW_VER_WAIT"}
    /\ \A f \in Coming("slave") : ~IsCmd(f, FW_UPDATE_CMD_ID_VERSION_REQ)

(* The master is where the slave is, or one step ahead. *)
Together ==
    /\ SentBy(Bin)
    /\ SlaveCtrl.BlockNum <= MasterCtrl.BlockNum
    /\ SlaveCtrl.State \in {"IDLE", "FW_VERSION_READY"} =>
         MasterCtrl.State \in {"IDLE", "FW_VER_WAIT", "ERROR"}
    /\ SlaveIn("START_READY") =>
         MasterCtrl.State \in {"IDLE", "FW_VER_WAIT", "START_RSP_WAIT", "ERROR"}
    /\ SlaveCtrl.State \in {"DATA_READY", "END_READY"} =>
         /\ SlaveCtrl.MaxBlockNum = MaxBlockNum(Bin)
         /\ MasterCtrl.State \in {"START_RSP_WAIT", "DATA_ACK_WAIT", "END_RSP_WAIT", "ERROR"}
         /\ MasterIn("DATA_ACK_WAIT") => MasterCtrl.BlockNum - 1 <= SlaveCtrl.BlockNum
         /\ MasterIn("END_RSP_WAIT") => SlaveCtrl.BlockNum = MasterCtrl.BlockNum
    /\ SlaveIn("END") => MasterCtrl.State \in {"END_RSP_WAIT", "END", "ERROR"}

InStep == MasterOn /\ SlaveTalks => MasterStranded \/ SlaveStranded \/ Together

(* The blocks received, and those to come, are of one image. *)
OneSender ==
    SlaveTalks =>
        \E im \in Image : SentBy(im) /\ \A f \in Coming("slave") : IsData(f) => f.Data = Block(im, f.Id)

(* The last answer tells the truth to a master that waits for it. *)
Told == <<Bin, pressed["master"]>> \in delivered

EndTold ==
    (\E f \in Coming("master") : IsCmd(f, FW_UPDATE_CMD_ID_END_RSP)) =>
        \/ Told
        \/ /\ MasterCtrl.State \in {"APP", "LOW_BATT", "IDLE", "FW_VER_WAIT", "ERROR"}
           /\ \A f \in Coming("master") : ~IsCmd(f, FW_UPDATE_CMD_ID_VERSION_RSP)

PowerInv ==
    /\ uart["master"].on <=> MasterOn
    /\ uart["slave"].on <=> SlaveOn
    /\ sending["master"] => MasterWaits
    /\ sending["slave"] => SlaveCtrl.State \in {"START_READY", "DATA_READY", "END_READY", "END"}

MasterSync == MasterPlace /\ Asks(TxFrame["master"]) /\ Requests

SlaveSync == SlavePlace /\ Tells(TxFrame["slave"]) /\ Replies

ImageSync == OneSender /\ PrefixReceived /\ EndTold /\ EndMeansDelivered

SyncInv == MasterSync /\ SlaveSync /\ InStep /\ ImageSync

MasterKept == UNCHANGED MasterCtrl /\ UNCHANGED TxFrame["master"]
SlaveKept == UNCHANGED SlaveCtrl /\ UNCHANGED TxFrame["slave"]
DeliveredKept == UNCHANGED pressed["master"] /\ UNCHANGED delivered
-----------------------------------------------------------------------------
LEMMA CmdFields ==
    ASSUME NEW id, NEW val
    PROVE  LET f == CmdFrame(id, val) IN
           /\ \A other : IsCmd(f, other) <=> id = other
           /\ f.Val = val /\ ~IsData(f) /\ ~IsAck(f)
BY DEF CmdFrame, NoFrame, IsCmd, IsData, IsAck

LEMMA AllBlocks ==
    ASSUME NEW im, NEW S, NEW q \in Seq(S), DOMAIN q = 1 .. MaxBlockNum(im),
           \A i \in 1 .. MaxBlockNum(im) : q[i] = Block(im, i)
    PROVE  q = Blocks(im)
<1>1. q = [i \in DOMAIN q |-> q[i]]
  <2>1. q \in [1 .. Len(q) -> S]
    OBVIOUS
  <2> QED
    BY <2>1
<1> QED
  BY <1>1 DEF Blocks

LEMMA BinIsImage == ASSUME TypeInv PROVE Bin \in Image
BY ImageAssumption DEF TypeInv, MasterTypeOK, Bin

LEMMA MasterSideKept ==
    ASSUME MasterSync, MasterKept, Coming("slave")' \subseteq Coming("slave")
    PROVE  MasterSync'
BY DEF MasterSync, MasterKept, MasterPlace, Asks, Requests, Asked, MasterOn, Bin, MasterIn

LEMMA SlaveSideKept ==
    ASSUME SlaveSync, SlaveKept, Coming("master")' \subseteq Coming("master")
    PROVE  SlaveSync'
BY DEF SlaveSync, SlaveKept, SlavePlace, Tells, Replies, Answered, SlaveTalks, SlaveOpens, SlaveIn

LEMMA QuietSync ==
    ASSUME SyncInv, MasterKept, SlaveKept, DeliveredKept, NothingNew
    PROVE  SyncInv'
<1>1. Coming("slave")' \subseteq Coming("slave") /\ Coming("master")' \subseteq Coming("master")
  BY DEF NothingNew
<1>2. MasterSync' /\ SlaveSync'
  BY <1>1, MasterSideKept, SlaveSideKept DEF SyncInv
<1>3. InStep'
  BY <1>1 DEF SyncInv, MasterKept, SlaveKept, InStep, MasterOn, SlaveTalks, SlaveOpens,
     MasterStranded, SlaveStranded, Together, SentBy, Bin, MasterIn, SlaveIn
<1>4. OneSender'
  BY <1>1 DEF SyncInv, ImageSync, SlaveKept, OneSender, SlaveTalks, SentBy
<1>5. PrefixReceived' /\ EndMeansDelivered'
  BY DEF SyncInv, ImageSync, SlaveKept, MasterKept, DeliveredKept, PrefixReceived,
     EndMeansDelivered, MasterIn
<1>6. EndTold'
  BY <1>1 DEF SyncInv, ImageSync, MasterKept, DeliveredKept, EndTold, Told, Bin
<1> QED
  BY <1>2, <1>3, <1>4, <1>5, <1>6 DEF SyncInv, ImageSync
-----------------------------------------------------------------------------
(* A step of the master that sends a frame. *)
LEMMA MasterSaysSync ==
    ASSUME TypeInv, SyncInv, NEW frame, Says("master", frame), UNCHANGED SlaveCtrl, DeliveredKept,
           MasterOn, MasterCtrl'.Bin = Bin, ~MasterIn("END")',
           MasterPlace', Asks(frame)', Asked(frame)', \A f : Asked(f) => Asked(f)',
           InStep',
           IsData(frame) /\ SlaveTalks => SentBy(Bin) /\ frame.Data = Block(Bin, frame.Id),
           ~MasterIn("ERROR"),
           MasterIn("FW_VER_WAIT") /\ ~MasterIn("FW_VER_WAIT")' =>
             \E f \in Coming("master") : IsCmd(f, FW_UPDATE_CMD_ID_VERSION_RSP),
           MasterIn("IDLE") => MasterIn("FW_VER_WAIT")'
    PROVE  SyncInv'
<1>1. /\ Coming("slave")' \subseteq Coming("slave") \cup {frame}
      /\ Coming("master")' \subseteq Coming("master")
      /\ TxFrame'["master"] = frame /\ TxFrame'["slave"] = TxFrame["slave"]
  BY DEF Says
<1>2. MasterSync'
  <2>1. Requests'
    BY <1>1 DEF SyncInv, MasterSync, Requests
  <2> QED
    BY <1>1, <2>1 DEF MasterSync
<1>3. SlaveSync'
  BY <1>1, SlaveSideKept DEF SyncInv, SlaveKept
<1>4. OneSender'
  <2> SUFFICES ASSUME SlaveTalks
               PROVE  \E im \in Image : SentBy(im) /\ \A f \in Coming("slave") \cup {frame} :
                                          IsData(f) => f.Data = Block(im, f.Id)
    BY <1>1 DEF OneSender, SlaveTalks, SentBy
  <2>1. PICK im \in Image : SentBy(im) /\ \A f \in Coming("slave") :
                                          IsData(f) => f.Data = Block(im, f.Id)
    BY DEF SyncInv, ImageSync, OneSender
  <2>2. CASE ~IsData(frame)
    BY <2>1, <2>2
  <2>3. CASE IsData(frame)
    <3>1. SentBy(Bin) /\ frame.Data = Block(Bin, frame.Id)
      BY <2>3
    <3>2. \A f \in Coming("slave") : IsData(f) => f.Data = Block(Bin, f.Id)
      BY DEF SyncInv, MasterSync, Requests, Asked, IsCmd, IsData
    <3> QED
      BY <3>1, <3>2, BinIsImage
  <2> QED
    BY <2>2, <2>3
<1>5. EndTold'
  <2>1. Told' <=> Told
    BY DEF Told, DeliveredKept, Bin
  <2>2. ASSUME ~Told, NEW f \in Coming("master"), IsCmd(f, FW_UPDATE_CMD_ID_END_RSP)
        PROVE  /\ MasterCtrl'.State = "FW_VER_WAIT"
               /\ \A g \in Coming("master") : ~IsCmd(g, FW_UPDATE_CMD_ID_VERSION_RSP)
    BY <2>2 DEF SyncInv, ImageSync, EndTold, MasterIn, MasterOn
  <2> QED
    BY <1>1, <2>1, <2>2 DEF EndTold
<1>6. PrefixReceived' /\ EndMeansDelivered'
  BY DEF SyncInv, ImageSync, PrefixReceived, EndMeansDelivered, MasterIn
<1> QED
  BY <1>2, <1>3, <1>4, <1>5, <1>6 DEF SyncInv, ImageSync

LEMMA MasterIdleSync ==
    ASSUME TypeInv, SyncInv, MasterIn("IDLE"),
           Says("master", CmdFrame(FW_UPDATE_CMD_ID_VERSION_REQ, 0)),
           MasterCtrl' = [MasterCtrl EXCEPT !.State = "FW_VER_WAIT"],
           UNCHANGED SlaveCtrl, DeliveredKept
    PROVE  SyncInv'
<1> DEFINE frame == CmdFrame(FW_UPDATE_CMD_ID_VERSION_REQ, 0)
<1>1. IsCmd(frame, FW_UPDATE_CMD_ID_VERSION_REQ) /\ ~IsData(frame)
  BY CmdFields
<1> HIDE DEF frame
<1>2. /\ MasterCtrl'.State = "FW_VER_WAIT" /\ MasterCtrl'.Bin = Bin
      /\ MasterCtrl'.BlockNum = MasterCtrl.BlockNum /\ MasterCtrl'.FinishFlag = MasterCtrl.FinishFlag
  BY DEF TypeInv, MasterTypeOK, Bin
<1>3. MasterPlace' /\ Asks(frame)' /\ Asked(frame)' /\ \A f : Asked(f) => Asked(f)'
  BY <1>1, <1>2 DEF SyncInv, MasterSync, MasterPlace, Asks, Asked, MasterIn, Bin
<1>4. InStep'
  BY <1>2 DEF Says, SyncInv, InStep, MasterOn, MasterIn, SlaveTalks, SlaveOpens,
     MasterStranded, SlaveStranded, Together, SentBy, Bin, SlaveIn
<1> QED
  BY <1>1, <1>2, <1>3, <1>4, MasterSaysSync DEF MasterIn, MasterOn, frame

(* The master hears the version: the slave has it sent, and is not stranded. *)
LEMMA VersionHeard ==
    ASSUME SyncInv, MasterIn("FW_VER_WAIT"), SlaveTalks,
           NEW f \in Coming("master"), IsCmd(f, FW_UPDATE_CMD_ID_VERSION_RSP)
    PROVE  SlaveIn("START_READY") /\ Together
<1>1. Answered(f)
  BY DEF SyncInv, SlaveSync, Replies
<1>2. SlaveCtrl.State \notin {"IDLE", "FW_VERSION_READY"}
  BY <1>1 DEF Answered, IsCmd, IsAck
<1>3. Together
  BY <1>2 DEF SyncInv, InStep, MasterOn, MasterIn, MasterStranded, SlaveStranded
<1> QED
  BY <1>2, <1>3 DEF Together, SlaveTalks, SlaveIn, MasterIn

LEMMA MasterVersionSync ==
    ASSUME TypeInv, SyncInv, MasterIn("FW_VER_WAIT"),
           NEW f \in Coming("master"), IsCmd(f, FW_UPDATE_CMD_ID_VERSION_RSP),
           NEW frame, frame = CmdFrame(FW_UPDATE_CMD_ID_START_REQ, MaxBlockNum(Bin)),
           Says("master", frame),
           MasterCtrl' = [MasterCtrl EXCEPT !.State = "START_RSP_WAIT", !.RetryTimes = 0],
           UNCHANGED SlaveCtrl, DeliveredKept
    PROVE  SyncInv'
<1>1. IsCmd(frame, FW_UPDATE_CMD_ID_START_REQ) /\ ~IsData(frame) /\ frame.Val = MaxBlockNum(Bin)
  BY CmdFields
<1>2. /\ MasterCtrl'.State = "START_RSP_WAIT" /\ MasterCtrl'.Bin = Bin
      /\ MasterCtrl'.BlockNum = MasterCtrl.BlockNum /\ MasterCtrl'.FinishFlag = MasterCtrl.FinishFlag
  BY DEF TypeInv, MasterTypeOK, Bin
<1>3. MasterPlace' /\ Asks(frame)' /\ Asked(frame)' /\ \A g : Asked(g) => Asked(g)'
  <2>1. MasterPlace'
    BY <1>2 DEF SyncInv, MasterSync, MasterPlace, MasterIn
  <2>2. Bin' = Bin
    BY <1>2 DEF Bin
  <2>3. Asks(frame)' /\ Asked(frame)'
    BY <1>1, <1>2, <2>2 DEF Asks, Asked, MasterIn
  <2>4. \A g : Asked(g) => Asked(g)'
    BY <1>2, <2>2 DEF Asked, MasterIn
  <2> QED
    BY <2>1, <2>3, <2>4
<1>4. InStep'
  <2>1. SlaveTalks => SlaveIn("START_READY") /\ Together
    BY VersionHeard
  <2> QED
    BY <1>2, <2>1 DEF InStep, MasterOn, MasterIn, SlaveTalks, SlaveIn, Together, SentBy, Bin
<1> QED
  BY <1>1, <1>2, <1>3, <1>4, MasterSaysSync DEF MasterIn, MasterOn

(* The master hears what it awaited to send the next block. *)
LEMMA StartHeard ==
    ASSUME TypeInv, SyncInv, MasterIn("START_RSP_WAIT"), SlaveTalks,
           NEW f \in Coming("master"), IsCmd(f, FW_UPDATE_CMD_ID_START_RSP)
    PROVE  /\ SlaveCtrl.State \in {"DATA_READY", "END_READY"} /\ Together
           /\ MasterCtrl.BlockNum <= SlaveCtrl.BlockNum
<1>1. Answered(f)
  BY DEF SyncInv, SlaveSync, Replies
<1>2. ~SlaveOpens
  BY <1>1 DEF Answered, IsCmd, IsAck, SlaveOpens, SlaveIn
<1>3. Together
  BY <1>2 DEF SyncInv, InStep, MasterOn, MasterIn, MasterStranded, SlaveStranded, SlaveOpens
<1>4. MasterCtrl.BlockNum <= SlaveCtrl.BlockNum
  BY <1>3 DEF SyncInv, MasterSync, MasterPlace, MasterIn, TypeInv, SlaveTypeOK
<1> QED
  BY <1>2, <1>3, <1>4 DEF Together, SlaveTalks, SlaveIn, MasterIn, SlaveOpens

LEMMA AckHeard ==
    ASSUME TypeInv, SyncInv, MasterIn("DATA_ACK_WAIT"), SlaveTalks,
           NEW f \in Coming("master"), IsAck(f), f.Id = MasterCtrl.BlockNum
    PROVE  /\ SlaveCtrl.State \in {"DATA_READY", "END_READY"} /\ Together
           /\ MasterCtrl.BlockNum <= SlaveCtrl.BlockNum
<1>1. Answered(f)
  BY DEF SyncInv, SlaveSync, Replies
<1>2. 1 <= MasterCtrl.BlockNum /\ MasterCtrl.BlockNum <= SlaveCtrl.BlockNum
  BY <1>1 DEF Answered, IsCmd, IsAck
<1>3. ~SlaveOpens
  BY <1>2 DEF SyncInv, SlaveSync, SlavePlace, TypeInv, MasterTypeOK
<1>4. Together
  BY <1>3 DEF SyncInv, InStep, MasterOn, MasterIn, MasterStranded, SlaveStranded, SlaveOpens
<1> QED
  BY <1>2, <1>3, <1>4 DEF Together, SlaveTalks, SlaveIn, MasterIn, SlaveOpens

LEMMA DataFields ==
    LET num == MasterCtrl.BlockNum + 1 IN
    /\ IsData(DataFrame) /\ DataFrame.Id = num /\ DataFrame.Data = Block(Bin, num)
    /\ \A id : ~IsCmd(DataFrame, id)
BY DEF DataFrame, NoFrame, IsData, IsCmd, Bin

LEMMA MasterBlockSync ==
    ASSUME TypeInv, SyncInv, MasterCtrl.State \in {"START_RSP_WAIT", "DATA_ACK_WAIT"},
           ~MasterCtrl.FinishFlag,
           SlaveTalks => /\ SlaveCtrl.State \in {"DATA_READY", "END_READY"} /\ Together
                         /\ MasterCtrl.BlockNum <= SlaveCtrl.BlockNum,
           NEW frame, frame = DataFrame, Says("master", frame),
           MasterCtrl' = [MasterCtrl EXCEPT
                        !.State = "DATA_ACK_WAIT",
                        !.RetryTimes = 0,
                        !.BlockNum = @ + 1,
                        !.FinishFlag = @ \/ MasterCtrl.BlockNum + 1 >= MaxBlockNum(MasterCtrl.Bin)],
           UNCHANGED SlaveCtrl, DeliveredKept
    PROVE  SyncInv'
<1> DEFINE num == MasterCtrl.BlockNum + 1
           max == MaxBlockNum(Bin)
           last == MasterCtrl.FinishFlag \/ num >= MaxBlockNum(MasterCtrl.Bin)
<1>1. /\ IsData(frame) /\ frame.Id = num /\ frame.Data = Block(Bin, frame.Id)
      /\ \A id : ~IsCmd(frame, id)
  BY DataFields
<1>2. /\ MasterCtrl'.State = "DATA_ACK_WAIT" /\ MasterCtrl'.Bin = Bin
      /\ MasterCtrl'.BlockNum = num /\ MasterCtrl'.FinishFlag = last
  <2> HIDE DEF num, last
  <2>1. MasterCtrl' = [MasterCtrl EXCEPT !.State = "DATA_ACK_WAIT", !.RetryTimes = 0,
                                         !.BlockNum = num, !.FinishFlag = last]
    BY DEF num, last
  <2> QED
    BY <2>1 DEF TypeInv, MasterTypeOK, Bin
<1>3. MasterCtrl.BlockNum \in Nat /\ max \in Nat \ {0}
  BY BinIsImage, MaxBlockNumPositive DEF TypeInv, MasterTypeOK
<1>4. Bin' = Bin
  BY <1>2 DEF Bin
<1>5. MasterPlace'
  <2>1. 1 <= num /\ num <= max
    BY <1>3 DEF SyncInv, MasterSync, MasterPlace, MasterIn
  <2>2. last <=> num = max
    BY <1>3, <2>1 DEF Bin
  <2> HIDE DEF num, last, max
  <2>3. MaxBlockNum(Bin)' = max
    BY <1>4 DEF max
  <2> QED
    BY <1>2, <2>1, <2>2, <2>3 DEF MasterPlace, MasterIn
<1>6. Asks(frame)' /\ Asked(frame)'
  BY <1>1, <1>2, <1>3, <1>4 DEF Asks, Asked, MasterIn
<1>7. \A g : Asked(g) => Asked(g)'
  <2> SUFFICES ASSUME NEW g, Asked(g) PROVE Asked(g)'
    OBVIOUS
  <2>1. CASE IsData(g) /\ g.Data = Block(Bin, g.Id) /\ g.Id \in 1 .. MasterCtrl.BlockNum
    <3>1. g.Id \in 1 .. num
      BY <1>3, <2>1
    <3> HIDE DEF num
    <3> QED
      BY <1>2, <1>4, <2>1, <3>1 DEF Asked
  <2>2. CASE ~(IsData(g) /\ g.Data = Block(Bin, g.Id) /\ g.Id \in 1 .. MasterCtrl.BlockNum)
    BY <1>2, <1>4, <2>2 DEF Asked
  <2> QED
    BY <2>1, <2>2
<1>8. InStep'
  <2>1. SlaveTalks => Together'
    BY <1>2, <1>3, <1>4 DEF Together, SentBy, SlaveIn, MasterIn, TypeInv, SlaveTypeOK
  <2> QED
    BY <2>1 DEF InStep, SlaveTalks
<1>9. SlaveTalks => SentBy(Bin)
  BY DEF Together
<1> HIDE DEF num, last
<1> QED
  BY <1>1, <1>2, <1>5, <1>6, <1>7, <1>8, <1>9, MasterSaysSync DEF MasterIn, MasterOn

LEMMA MasterLastSync ==
    ASSUME TypeInv, SyncInv, MasterIn("DATA_ACK_WAIT"), MasterCtrl.FinishFlag,
           SlaveTalks => /\ SlaveCtrl.State \in {"DATA_READY", "END_READY"} /\ Together
                         /\ MasterCtrl.BlockNum <= SlaveCtrl.BlockNum,
           NEW frame, frame = CmdFrame(FW_UPDATE_CMD_ID_END_REQ, Size[Bin]), Says("master", frame),
           MasterCtrl' = [MasterCtrl EXCEPT !.State = "END_RSP_WAIT", !.RetryTimes = 0],
           UNCHANGED SlaveCtrl, DeliveredKept
    PROVE  SyncInv'
<1>1. IsCmd(frame, FW_UPDATE_CMD_ID_END_REQ) /\ ~IsData(frame)
  BY CmdFields
<1>2. /\ MasterCtrl'.State = "END_RSP_WAIT" /\ MasterCtrl'.Bin = Bin
      /\ MasterCtrl'.BlockNum = MasterCtrl.BlockNum /\ MasterCtrl'.FinishFlag = MasterCtrl.FinishFlag
  BY DEF TypeInv, MasterTypeOK, Bin
<1>3. MasterCtrl.BlockNum = MaxBlockNum(Bin) /\ Bin' = Bin
  BY <1>2 DEF SyncInv, MasterSync, MasterPlace, Bin
<1>4. MasterPlace'
  BY <1>2, <1>3 DEF MasterPlace, MasterIn
<1>5. Asks(frame)' /\ Asked(frame)'
  BY <1>1, <1>2, <1>3 DEF Asks, Asked, MasterIn
<1>6. \A g : Asked(g) => Asked(g)'
  BY <1>2, <1>3 DEF Asked, MasterIn
<1>7. InStep'
  <2>1. SlaveTalks => Together'
    BY <1>2, <1>3 DEF Together, SentBy, SlaveIn, MasterIn, TypeInv, SlaveTypeOK, MasterTypeOK
  <2> QED
    BY <2>1 DEF InStep, SlaveTalks
<1> QED
  BY <1>1, <1>2, <1>4, <1>5, <1>6, <1>7, MasterSaysSync DEF MasterIn, MasterOn

(* The frame is sent again. *)
LEMMA MasterAgainSync ==
    ASSUME TypeInv, SyncInv, MasterWaits,
           NEW frame, frame = TxFrame["master"], Says("master", frame),
           MasterCtrl' = [MasterCtrl EXCEPT !.RetryTimes = @ + 1],
           UNCHANGED SlaveCtrl, DeliveredKept
    PROVE  SyncInv'
<1>1. /\ MasterCtrl'.State = MasterCtrl.State /\ MasterCtrl'.Bin = Bin
      /\ MasterCtrl'.BlockNum = MasterCtrl.BlockNum /\ MasterCtrl'.FinishFlag = MasterCtrl.FinishFlag
      /\ Bin' = Bin
  BY DEF TypeInv, MasterTypeOK, Bin
<1>2. MasterPlace' /\ Asks(frame)'
  BY <1>1 DEF SyncInv, MasterSync, MasterPlace, Asks, MasterIn
<1>3. \A g : Asked(g) => Asked(g)'
  BY <1>1 DEF Asked
<1>4. Asked(frame)'
  <2>1. Asked(frame)
    BY DEF SyncInv, MasterSync, MasterPlace, Asks, Asked, MasterIn, MasterWaits, TypeInv, MasterTypeOK
  <2> QED
    BY <2>1, <1>3
<1>5. InStep'
  <2>1. IsCmd(frame, FW_UPDATE_CMD_ID_VERSION_REQ) => MasterIn("FW_VER_WAIT")
    BY DEF SyncInv, MasterSync, Asks, MasterIn, MasterWaits, IsCmd, IsData
  <2>2. SlaveStranded => SlaveStranded'
    BY <1>1, <2>1 DEF SlaveStranded, Says, MasterIn
  <2>3. MasterStranded => MasterStranded'
    BY <1>1 DEF MasterStranded, Says, SlaveOpens
  <2>4. Together => Together'
    BY <1>1 DEF Together, SentBy, SlaveIn, MasterIn
  <2> QED
    BY <1>1, <2>2, <2>3, <2>4 DEF SyncInv, InStep, MasterOn, SlaveTalks
<1>6. IsData(frame) /\ SlaveTalks => SentBy(Bin) /\ frame.Data = Block(Bin, frame.Id)
  <2> SUFFICES ASSUME IsData(frame), SlaveTalks
               PROVE  SentBy(Bin) /\ frame.Data = Block(Bin, frame.Id)
    OBVIOUS
  <2>1. MasterIn("DATA_ACK_WAIT") /\ frame.Data = Block(Bin, frame.Id)
    BY DEF SyncInv, MasterSync, Asks, MasterIn, MasterWaits, IsCmd, IsData
  <2>2. CASE SlaveStranded
    BY <2>1, <2>2 DEF SlaveStranded, SyncInv, SlaveSync, SlavePlace, SlaveOpens, SentBy,
       TypeInv, SlaveTypeOK
  <2>3. CASE Together
    BY <2>1, <2>3 DEF Together
  <2> QED
    BY <2>1, <2>2, <2>3 DEF SyncInv, InStep, MasterStranded, MasterIn, MasterOn
<1> QED
  BY <1>1, <1>2, <1>3, <1>4, <1>5, <1>6, MasterSaysSync DEF MasterIn, MasterOn, MasterWaits

(* The master gives up, or is done. *)
LEMMA MasterErrorSync ==
    ASSUME TypeInv, SyncInv, MasterWaits, NothingNew, UNCHANGED TxFrame,
           \/ MasterCtrl' = [MasterCtrl EXCEPT !.State = "ERROR"]
           \/ MasterCtrl' = [MasterCtrl EXCEPT !.State = "ERROR", !.RetryTimes = 0],
           UNCHANGED SlaveCtrl, DeliveredKept
    PROVE  SyncInv'
<1>1. /\ MasterCtrl'.State = "ERROR" /\ MasterCtrl'.Bin = Bin
      /\ MasterCtrl'.BlockNum = MasterCtrl.BlockNum /\ Bin' = Bin
  BY DEF TypeInv, MasterTypeOK, Bin
<1>2. Coming("slave")' \subseteq Coming("slave") /\ Coming("master")' \subseteq Coming("master")
  BY DEF NothingNew
<1>3. MasterSync'
  <2>1. \A g : Asked(g) => Asked(g)'
    BY <1>1 DEF Asked
  <2> QED
    BY <1>1, <1>2, <2>1 DEF SyncInv, MasterSync, MasterPlace, Asks, Requests, MasterIn, MasterWaits,
       MasterOn
<1>4. SlaveSync'
  BY <1>2, SlaveSideKept DEF SyncInv, SlaveKept
<1>5. InStep'
  <2>1. SlaveStranded => SlaveStranded'
    BY <1>1, <1>2 DEF SlaveStranded
  <2>2. MasterStranded => MasterStranded'
    BY <1>1, <1>2 DEF MasterStranded, SlaveOpens
  <2>3. Together => Together'
    BY <1>1 DEF Together, SentBy, SlaveIn, MasterIn
  <2> QED
    BY <1>1, <2>1, <2>2, <2>3 DEF SyncInv, InStep, MasterOn, SlaveTalks, MasterWaits
<1>6. OneSender' /\ PrefixReceived'
  BY <1>2 DEF SyncInv, ImageSync, OneSender, SlaveTalks, SentBy, PrefixReceived
<1>7. EndTold'
  BY <1>1, <1>2 DEF SyncInv, ImageSync, EndTold, Told, DeliveredKept
<1>8. EndMeansDelivered'
  BY <1>1 DEF EndMeansDelivered, MasterIn
<1> QED
  BY <1>3, <1>4, <1>5, <1>6, <1>7, <1>8 DEF SyncInv, ImageSync

LEMMA MasterEndSync ==
    ASSUME TypeInv, SyncInv, MasterIn("END_RSP_WAIT"), NothingNew, UNCHANGED TxFrame,
           NEW f \in Coming("master"), IsCmd(f, FW_UPDATE_CMD_ID_END_RSP),
           MasterCtrl' = [MasterCtrl EXCEPT !.State = "END", !.RetryTimes = 0],
           UNCHANGED SlaveCtrl, DeliveredKept
    PROVE  SyncInv'
<1>1. /\ MasterCtrl'.State = "END" /\ MasterCtrl'.Bin = Bin
      /\ MasterCtrl'.BlockNum = MasterCtrl.BlockNum /\ Bin' = Bin
  BY DEF TypeInv, MasterTypeOK, Bin
<1>2. Coming("slave")' \subseteq Coming("slave") /\ Coming("master")' \subseteq Coming("master")
  BY DEF NothingNew
<1>3. MasterSync'
  <2>1. \A g : Asked(g) => Asked(g)'
    BY <1>1 DEF Asked, MasterIn
  <2> QED
    BY <1>1, <1>2, <2>1 DEF SyncInv, MasterSync, MasterPlace, Asks, Requests, MasterIn, MasterOn
<1>4. SlaveSync'
  BY <1>2, SlaveSideKept DEF SyncInv, SlaveKept
<1>5. Told /\ Told'
  BY <1>1 DEF SyncInv, ImageSync, EndTold, Told, MasterIn, DeliveredKept
<1>6. InStep'
  <2>1. SlaveTalks => SlaveIn("END")
    BY DEF SyncInv, SlaveSync, Replies, Answered, IsCmd, IsAck
  <2>2. SlaveTalks => Together
    BY <2>1 DEF SyncInv, InStep, MasterOn, MasterIn, MasterStranded, SlaveStranded, SlaveIn
  <2>3. SlaveTalks => Together'
    BY <1>1, <2>1, <2>2 DEF Together, SentBy, SlaveIn, MasterIn
  <2> QED
    BY <2>3 DEF InStep, SlaveTalks
<1>7. OneSender' /\ PrefixReceived'
  BY <1>2 DEF SyncInv, ImageSync, OneSender, SlaveTalks, SentBy, PrefixReceived
<1>8. EndTold' /\ EndMeansDelivered'
  BY <1>5 DEF EndTold, EndMeansDelivered, Told, Bin
<1> QED
  BY <1>3, <1>4, <1>6, <1>7, <1>8 DEF SyncInv, ImageSync

(* Nothing has come to a node that is off, but what its peer sends. *)
LEMMA OffComing ==
    ASSUME LineInv, NEW n \in Node, ~uart[n].on, NEW f \in Coming(n)
    PROVE  f = TxFrame[Peer(n)] /\ uart[Peer(n)].tx
BY DEF LineInv, Coming, Heard

(* The master is off after this step, or before it. *)
LEMMA MasterOffSync ==
    ASSUME TypeInv, SyncInv, NothingNew, TxFrame'["slave"] = TxFrame["slave"],
           \/ \E bin \in MasterImage : MasterCtrl' = MasterBoot(bin)
           \/ MasterIn("APP") /\ MasterCtrl' = [MasterCtrl EXCEPT !.State = "LOW_BATT"],
           \A f \in Coming("master")' : f = TxFrame["slave"],
           UNCHANGED SlaveCtrl, UNCHANGED delivered
    PROVE  SyncInv'
<1>1. /\ MasterCtrl'.State \in {"APP", "LOW_BATT"}
      /\ MasterCtrl'.State = "APP" => MasterCtrl'.BlockNum = 0 /\ ~MasterCtrl'.FinishFlag
  BY DEF TypeInv, MasterTypeOK, MasterBoot
<1>2. Coming("slave")' \subseteq Coming("slave") /\ Coming("master")' \subseteq Coming("master")
  BY DEF NothingNew
<1>3. MasterSync'
  BY <1>1 DEF MasterSync, MasterPlace, Asks, Requests, MasterIn, MasterOn
<1>4. SlaveSync'
  BY <1>2, SlaveSideKept DEF SyncInv, SlaveKept
<1>5. InStep' /\ EndMeansDelivered'
  BY <1>1 DEF InStep, MasterOn, EndMeansDelivered, MasterIn
<1>6. OneSender' /\ PrefixReceived'
  BY <1>2 DEF SyncInv, ImageSync, OneSender, SlaveTalks, SentBy, PrefixReceived
<1>7. EndTold'
  BY <1>1 DEF EndTold, IsCmd
<1> QED
  BY <1>3, <1>4, <1>5, <1>6, <1>7 DEF SyncInv, ImageSync

(* The master is switched on. *)
LEMMA MasterOnSync ==
    ASSUME TypeInv, SyncInv, MasterIn("APP"), NothingNew, UNCHANGED TxFrame,
           MasterCtrl' = [MasterCtrl EXCEPT !.State = "IDLE"],
           \A f \in Coming("master")' : f = TxFrame["slave"],
           Coming("slave") = {},
           UNCHANGED SlaveCtrl, UNCHANGED delivered
    PROVE  SyncInv'
<1>1. /\ MasterCtrl'.State = "IDLE" /\ Bin' = Bin
      /\ MasterCtrl'.BlockNum = MasterCtrl.BlockNum /\ MasterCtrl'.FinishFlag = MasterCtrl.FinishFlag
  BY DEF TypeInv, MasterTypeOK, Bin
<1>2. Coming("slave")' = {} /\ Coming("master")' \subseteq Coming("master")
  BY DEF NothingNew
<1>3. MasterSync'
  BY <1>1, <1>2 DEF SyncInv, MasterSync, MasterPlace, Asks, Requests, MasterIn
<1>4. SlaveSync'
  BY <1>2, SlaveSideKept DEF SyncInv, SlaveKept
<1>5. InStep'
  <2>1. MasterCtrl'.BlockNum = 0
    BY <1>1 DEF SyncInv, MasterSync, MasterPlace, MasterIn
  <2>2. CASE SlaveOpens
    <3>1. SlaveCtrl.BlockNum = 0 /\ DOMAIN SlaveCtrl.PktCRC = {}
      BY <2>2 DEF SyncInv, SlaveSync, SlavePlace, TypeInv, SlaveTypeOK
    <3>2. Together'
      BY <1>1, <2>1, <2>2, <3>1 DEF Together, SentBy, SlaveOpens, SlaveIn
    <3> QED
      BY <3>2 DEF InStep
  <2>3. CASE SlaveTalks /\ ~SlaveOpens
    <3>1. ~IsCmd(TxFrame["slave"], FW_UPDATE_CMD_ID_VERSION_RSP)
      BY <2>3 DEF SyncInv, SlaveSync, Tells, SlaveTalks, SlaveOpens, SlaveIn, IsCmd, IsAck
    <3>2. MasterStranded'
      BY <1>1, <2>1, <2>3, <3>1 DEF MasterStranded, SlaveOpens
    <3> QED
      BY <3>2 DEF InStep
  <2> QED
    BY <2>2, <2>3 DEF InStep, SlaveTalks
<1>6. OneSender' /\ PrefixReceived'
  BY <1>2 DEF SyncInv, ImageSync, OneSender, SlaveTalks, SentBy, PrefixReceived
<1>7. EndTold'
  BY <1>1 DEF EndTold, IsCmd
<1>8. EndMeansDelivered'
  BY <1>1 DEF EndMeansDelivered, MasterIn
<1> QED
  BY <1>3, <1>4, <1>5, <1>6, <1>7, <1>8 DEF SyncInv, ImageSync
-----------------------------------------------------------------------------
(* A step of the slave that sends a frame, other than the last answer. *)
LEMMA SlaveSaysSync ==
    ASSUME TypeInv, SyncInv, NEW frame, Says("slave", frame), UNCHANGED MasterCtrl, DeliveredKept,
           SlaveTalks, ~SlaveIn("END"), SlaveTalks', ~IsCmd(frame, FW_UPDATE_CMD_ID_END_RSP),
           SlavePlace', Tells(frame)', Answered(frame)', \A f : Answered(f) => Answered(f)',
           InStep', OneSender'
    PROVE  SyncInv'
<1>1. /\ Coming("master")' \subseteq Coming("master") \cup {frame}
      /\ Coming("slave")' \subseteq Coming("slave")
      /\ TxFrame'["slave"] = frame /\ TxFrame'["master"] = TxFrame["master"]
  BY DEF Says
<1>2. SlaveSync'
  <2>1. Replies'
    BY <1>1 DEF SyncInv, SlaveSync, Replies
  <2> QED
    BY <1>1, <2>1 DEF SlaveSync
<1>3. MasterSync'
  BY <1>1, MasterSideKept DEF SyncInv, MasterKept
<1>4. EndTold'
  <2>1. ASSUME NEW f \in Coming("master"), IsCmd(f, FW_UPDATE_CMD_ID_END_RSP)
        PROVE  FALSE
    BY <2>1 DEF SyncInv, SlaveSync, Replies, Answered, IsCmd, IsAck
  <2> QED
    BY <1>1, <2>1 DEF EndTold
<1>5. PrefixReceived'
  BY DEF OneSender, PrefixReceived, SentBy
<1>6. EndMeansDelivered'
  BY DEF SyncInv, ImageSync, EndMeansDelivered, DeliveredKept, MasterIn
<1> QED
  BY <1>2, <1>3, <1>4, <1>5, <1>6 DEF SyncInv, ImageSync

LEMMA SlaveVersionSync ==
    ASSUME TypeInv, SyncInv, SlaveIn("FW_VERSION_READY"),
           NEW f \in Coming("slave"), IsCmd(f, FW_UPDATE_CMD_ID_VERSION_REQ),
           NEW frame, IsCmd(frame, FW_UPDATE_CMD_ID_VERSION_RSP), Says("slave", frame),
           SlaveCtrl' = [SlaveCtrl EXCEPT !.State = "START_READY", !.RetryTimes = 0],
           UNCHANGED MasterCtrl, DeliveredKept
    PROVE  SyncInv'
<1>1. /\ SlaveCtrl'.State = "START_READY" /\ SlaveCtrl'.BlockNum = SlaveCtrl.BlockNum
      /\ SlaveCtrl'.PktCRC = SlaveCtrl.PktCRC
  BY DEF TypeInv, SlaveTypeOK
<1>2. SlavePlace' /\ Tells(frame)' /\ Answered(frame)' /\ \A g : Answered(g) => Answered(g)'
  BY <1>1 DEF SyncInv, SlaveSync, SlavePlace, Tells, Answered, SlaveOpens, SlaveIn
<1>3. InStep'
  <2>1. MasterOn => Together
    BY DEF SyncInv, InStep, SlaveTalks, SlaveIn, MasterStranded, SlaveStranded, SlaveOpens
  <2>2. MasterOn => Together'
    BY <1>1, <2>1 DEF Together, SentBy, SlaveIn, MasterIn, Bin
  <2> QED
    BY <2>2 DEF InStep, MasterOn
<1>4. OneSender'
  BY <1>1 DEF SyncInv, ImageSync, OneSender, SlaveTalks, SlaveIn, SentBy, Says
<1> QED
  BY <1>1, <1>2, <1>3, <1>4, SlaveSaysSync DEF SlaveTalks, SlaveIn, IsCmd

(* The answer is sent again. *)
LEMMA SlaveAgainSync ==
    ASSUME TypeInv, SyncInv, SlaveCtrl.State \in {"START_READY", "DATA_READY", "END_READY"},
           NEW frame, frame = TxFrame["slave"], Says("slave", frame),
           SlaveCtrl' = [SlaveCtrl EXCEPT !.RetryTimes = 0],
           UNCHANGED MasterCtrl, DeliveredKept
    PROVE  SyncInv'
<1>1. /\ SlaveCtrl'.State = SlaveCtrl.State /\ SlaveCtrl'.BlockNum = SlaveCtrl.BlockNum
      /\ SlaveCtrl'.PktCRC = SlaveCtrl.PktCRC /\ SlaveCtrl'.MaxBlockNum = SlaveCtrl.MaxBlockNum
  BY DEF TypeInv, SlaveTypeOK
<1>2. Tells(frame) /\ Answered(frame)
  BY DEF SyncInv, SlaveSync, Tells, Answered, SlaveOpens, SlaveIn
<1>3. SlavePlace' /\ Tells(frame)' /\ Answered(frame)' /\ \A g : Answered(g) => Answered(g)'
  BY <1>1, <1>2 DEF SyncInv, SlaveSync, SlavePlace, Tells, Answered, SlaveOpens, SlaveIn
<1>4. InStep'
  <2>1. ~SlaveOpens => ~IsCmd(frame, FW_UPDATE_CMD_ID_VERSION_RSP)
    BY <1>2 DEF Tells, SlaveOpens, SlaveIn, IsCmd, IsAck
  <2>2. MasterStranded => MasterStranded'
    BY <1>1, <2>1 DEF MasterStranded, Says, SlaveOpens
  <2>3. Together => Together'
    BY <1>1 DEF Together, SentBy, SlaveIn, MasterIn, Bin
  <2> QED
    BY <1>1, <2>2, <2>3 DEF SyncInv, InStep, MasterOn, SlaveTalks, SlaveStranded
<1>5. OneSender'
  BY <1>1 DEF SyncInv, ImageSync, OneSender, SlaveTalks, SentBy, Says
<1>6. ~IsCmd(frame, FW_UPDATE_CMD_ID_END_RSP)
  BY <1>2 DEF Tells, SlaveIn, IsCmd, IsAck
<1> QED
  BY <1>1, <1>3, <1>4, <1>5, <1>6, SlaveSaysSync DEF SlaveTalks, SlaveIn

LEMMA SlaveStartSync ==
    ASSUME TypeInv, SyncInv, SlaveIn("START_READY"),
           NEW f \in Coming("slave"), IsCmd(f, FW_UPDATE_CMD_ID_START_REQ),
           NEW frame, IsCmd(frame, FW_UPDATE_CMD_ID_START_RSP), Says("slave", frame),
           SlaveCtrl' = [SlaveCtrl EXCEPT !.State = "DATA_READY", !.RetryTimes = 0,
                                          !.MaxBlockNum = f.Val],
           UNCHANGED MasterCtrl, DeliveredKept
    PROVE  SyncInv'
<1>1. /\ SlaveCtrl'.State = "DATA_READY" /\ SlaveCtrl'.BlockNum = SlaveCtrl.BlockNum
      /\ SlaveCtrl'.PktCRC = SlaveCtrl.PktCRC /\ SlaveCtrl'.MaxBlockNum = f.Val
  BY DEF TypeInv, SlaveTypeOK
<1>2. SlavePlace' /\ Tells(frame)' /\ Answered(frame)' /\ \A g : Answered(g) => Answered(g)'
  BY <1>1 DEF SyncInv, SlaveSync, SlavePlace, Tells, Answered, SlaveOpens, SlaveIn
<1>3. InStep'
  <2> SUFFICES ASSUME MasterOn PROVE Together'
    BY DEF InStep, MasterOn
  <2>1. f.Val = MaxBlockNum(Bin) /\ MasterCtrl.State \notin {"IDLE", "FW_VER_WAIT"}
    BY DEF SyncInv, MasterSync, Requests, Asked, IsCmd, IsData
  <2>2. Together
    BY DEF SyncInv, InStep, SlaveTalks, SlaveIn, MasterStranded, SlaveStranded, SlaveOpens
  <2>3. SlaveCtrl.BlockNum = 0
    BY DEF SyncInv, SlaveSync, SlavePlace, SlaveOpens, SlaveIn
  <2> QED
    BY <1>1, <2>1, <2>2, <2>3 DEF Together, SentBy, SlaveIn, MasterIn, Bin
<1>4. OneSender'
  BY <1>1 DEF SyncInv, ImageSync, OneSender, SlaveTalks, SlaveIn, SentBy, Says
<1> QED
  BY <1>1, <1>2, <1>3, <1>4, SlaveSaysSync DEF SlaveTalks, SlaveIn, IsCmd

LEMMA SlaveBlockSync ==
    ASSUME TypeInv, SyncInv, SlaveIn("DATA_READY"),
           NEW num, num = SlaveCtrl.BlockNum + 1,
           NEW f \in Coming("slave"), IsData(f), f.Id = num, f.Data \in CellContent,
           NEW frame, IsAck(frame), frame.Id = num, Says("slave", frame),
           SlaveCtrl'.State = IF SlaveCtrl.MaxBlockNum = num THEN "END_READY" ELSE "DATA_READY",
           SlaveCtrl'.BlockNum = num, SlaveCtrl'.MaxBlockNum = SlaveCtrl.MaxBlockNum,
           SlaveCtrl'.PktCRC = Append(SlaveCtrl.PktCRC, f.Data),
           UNCHANGED MasterCtrl, DeliveredKept
    PROVE  SyncInv'
<1>1. /\ SlaveCtrl.BlockNum \in Nat /\ num \in Nat \ {0} /\ SlaveCtrl.PktCRC \in Seq(CellContent)
      /\ Len(SlaveCtrl.PktCRC) = SlaveCtrl.BlockNum
  BY DEF TypeInv, SlaveTypeOK, SyncInv, SlaveSync, SlavePlace
<1>2. ASSUME NEW im, SentBy(im), f.Data = Block(im, num) PROVE SentBy(im)'
  <2>1. Len(Append(SlaveCtrl.PktCRC, f.Data)) = num
    BY <1>1
  <2>2. \A i \in 1 .. num : Append(SlaveCtrl.PktCRC, f.Data)[i] = Block(im, i)
    BY <1>1, <1>2 DEF SentBy
  <2> QED
    BY <1>1, <2>1, <2>2 DEF SentBy
<1>3. SlavePlace'
  BY <1>1 DEF SlavePlace, SlaveOpens, SlaveIn
<1>4. Tells(frame)' /\ Answered(frame)'
  BY <1>1 DEF Tells, Answered, SlaveIn
<1>5. \A g : Answered(g) => Answered(g)'
  BY <1>1 DEF Answered, SlaveOpens, SlaveIn
<1>6. InStep'
  <2> SUFFICES ASSUME MasterOn PROVE Together'
    BY DEF InStep, MasterOn
  <2>1. f.Data = Block(Bin, num) /\ num <= MasterCtrl.BlockNum
    BY <1>1 DEF SyncInv, MasterSync, Requests, Asked, IsCmd, IsData, TypeInv, MasterTypeOK
  <2>2. Together
    BY <1>1, <2>1 DEF SyncInv, InStep, SlaveTalks, SlaveIn, MasterStranded, SlaveStranded,
       TypeInv, MasterTypeOK
  <2>3. SentBy(Bin)'
    BY <1>2, <2>1, <2>2 DEF Together, SentBy, Bin
  <2>4. MasterCtrl.State \in {"DATA_ACK_WAIT", "ERROR"}
    BY <1>1, <2>1, <2>2 DEF Together, SlaveIn, MasterIn, SyncInv, MasterSync, MasterPlace,
       TypeInv, MasterTypeOK
  <2>5. SlaveCtrl.MaxBlockNum = MaxBlockNum(Bin)
    BY <2>2 DEF Together, SlaveIn
  <2>6. MasterIn("DATA_ACK_WAIT") => MasterCtrl.BlockNum - 1 <= num
    BY <1>1, <2>2 DEF Together, SlaveIn, TypeInv, MasterTypeOK
  <2> QED
    BY <2>1, <2>3, <2>4, <2>5, <2>6 DEF Together, SlaveIn, MasterIn, Bin
<1>7. OneSender'
  <2>1. PICK im \in Image : SentBy(im) /\ \A g \in Coming("slave") :
                                          IsData(g) => g.Data = Block(im, g.Id)
    BY DEF SyncInv, ImageSync, OneSender, SlaveTalks, SlaveIn
  <2>2. SentBy(im)'
    BY <1>2, <2>1
  <2> QED
    BY <2>1, <2>2 DEF OneSender, Says
<1>8. ~IsCmd(frame, FW_UPDATE_CMD_ID_END_RSP)
  BY DEF IsCmd, IsAck
<1> QED
  BY <1>3, <1>4, <1>5, <1>6, <1>7, <1>8, SlaveSaysSync DEF SlaveTalks, SlaveIn

(* The last answer: the slave has had every block of the master's image. *)
LEMMA SlaveEndSync ==
    ASSUME TypeInv, SyncInv, SlaveIn("END_READY"),
           NEW f \in Coming("slave"), IsCmd(f, FW_UPDATE_CMD_ID_END_REQ),
           NEW frame, IsCmd(frame, FW_UPDATE_CMD_ID_END_RSP), Says("slave", frame),
           ~MasterOn => Coming("master") = {},
           SlaveCtrl' = [SlaveCtrl EXCEPT !.State = "END", !.RetryTimes = 0],
           UNCHANGED MasterCtrl, UNCHANGED pressed,
           delivered' = delivered \cup {<<im, pressed["master"]>> : im \in Complete}
    PROVE  SyncInv'
<1>1. /\ SlaveCtrl'.State = "END" /\ SlaveCtrl'.BlockNum = SlaveCtrl.BlockNum
      /\ SlaveCtrl'.PktCRC = SlaveCtrl.PktCRC
  BY DEF TypeInv, SlaveTypeOK
<1>2. /\ Coming("master")' \subseteq Coming("master") \cup {frame}
      /\ Coming("slave")' \subseteq Coming("slave")
      /\ TxFrame'["slave"] = frame /\ TxFrame'["master"] = TxFrame["master"]
  BY DEF Says
<1>3. MasterSync'
  BY <1>2, MasterSideKept DEF SyncInv, MasterKept
<1>4. SlaveSync'
  <2>1. SlavePlace' /\ Tells(frame)' /\ Answered(frame)' /\ \A g : Answered(g) => Answered(g)'
    BY <1>1 DEF SyncInv, SlaveSync, SlavePlace, Tells, Answered, SlaveOpens, SlaveIn
  <2>2. Replies'
    BY <1>2, <2>1 DEF SyncInv, SlaveSync, Replies, SlaveTalks, SlaveIn
  <2> QED
    BY <1>2, <2>1, <2>2 DEF SlaveSync
<1>5. ASSUME MasterOn
      PROVE  /\ MasterCtrl.State \in {"END_RSP_WAIT", "END", "ERROR"} /\ Together
             /\ SlaveCtrl.BlockNum = MaxBlockNum(Bin)
  <2>1. /\ MasterCtrl.State \in {"END_RSP_WAIT", "END", "ERROR"}
        /\ MasterCtrl.BlockNum = MaxBlockNum(Bin)
    BY <1>5 DEF SyncInv, MasterSync, Requests, Asked, IsCmd, IsData
  <2>2. MaxBlockNum(Bin) # 0
    BY BinIsImage, MaxBlockNumPositive
  <2>3. Together
    BY <1>5, <2>1, <2>2 DEF SyncInv, InStep, SlaveTalks, SlaveIn, MasterStranded, SlaveStranded
  <2>4. SlaveCtrl.BlockNum = MaxBlockNum(Bin)
    BY <2>3 DEF Together, SyncInv, SlaveSync, SlavePlace, SlaveIn
  <2> QED
    BY <2>1, <2>3, <2>4
<1>6. ASSUME MasterOn PROVE Told'
  <2>1. SlaveCtrl.PktCRC = Blocks(Bin)
    <3>1. /\ SlaveCtrl.PktCRC \in Seq(CellContent)
          /\ DOMAIN SlaveCtrl.PktCRC = 1 .. MaxBlockNum(Bin)
      BY <1>5, <1>6 DEF TypeInv, SlaveTypeOK, SyncInv, SlaveSync, SlavePlace
    <3>2. \A i \in 1 .. MaxBlockNum(Bin) : SlaveCtrl.PktCRC[i] = Block(Bin, i)
      BY <1>5, <1>6, <3>1 DEF Together, SentBy
    <3> QED
      BY <3>1, <3>2, AllBlocks
  <2>2. Bin \in Complete
    BY <2>1, BinIsImage DEF Complete
  <2> QED
    BY <2>2 DEF Told, Bin
<1>7. InStep'
  BY <1>1, <1>5 DEF InStep, Together, MasterOn, SentBy, SlaveIn, MasterIn, Bin
<1>8. OneSender'
  BY <1>1, <1>2 DEF SyncInv, ImageSync, OneSender, SlaveTalks, SlaveIn, SentBy
<1>9. PrefixReceived' /\ EndMeansDelivered'
  BY <1>1 DEF SyncInv, ImageSync, PrefixReceived, EndMeansDelivered, MasterIn
<1>10. EndTold'
  <2>1. CASE MasterOn
    BY <1>6, <2>1 DEF EndTold
  <2>2. CASE ~MasterOn
    <3>1. \A g \in Coming("master")' : g = frame
      BY <1>2, <2>2
    <3> QED
      BY <2>2, <3>1 DEF EndTold, MasterOn, IsCmd
  <2> QED
    BY <2>1, <2>2
<1> QED
  BY <1>3, <1>4, <1>7, <1>8, <1>9, <1>10 DEF SyncInv, ImageSync

(* The slave goes on listening. *)
LEMMA SlaveWaitSync ==
    ASSUME TypeInv, SyncInv, NothingNew, UNCHANGED TxFrame,
           \/ SlaveIn("IDLE") /\ SlaveCtrl' = [SlaveCtrl EXCEPT !.State = "FW_VERSION_READY"]
           \/ SlaveCtrl' = [SlaveCtrl EXCEPT !.RetryTimes = @ + 1],
           UNCHANGED MasterCtrl, DeliveredKept
    PROVE  SyncInv'
<1>1. /\ \/ SlaveCtrl'.State = SlaveCtrl.State
         \/ SlaveCtrl.State = "IDLE" /\ SlaveCtrl'.State = "FW_VERSION_READY"
      /\ SlaveCtrl'.BlockNum = SlaveCtrl.BlockNum
      /\ SlaveCtrl'.PktCRC = SlaveCtrl.PktCRC /\ SlaveCtrl'.MaxBlockNum = SlaveCtrl.MaxBlockNum
  BY DEF TypeInv, SlaveTypeOK, SlaveIn
<1>2. Coming("slave")' \subseteq Coming("slave") /\ Coming("master")' \subseteq Coming("master")
  BY DEF NothingNew
<1>3. MasterSync'
  BY <1>2, MasterSideKept DEF SyncInv, MasterKept
<1>4. SlaveSync'
  BY <1>1, <1>2 DEF SyncInv, SlaveSync, SlavePlace, Tells, Replies, Answered, SlaveTalks,
     SlaveOpens, SlaveIn
<1>5. InStep'
  <2>1. SlaveStranded => SlaveStranded'
    BY <1>1, <1>2 DEF SlaveStranded
  <2>2. MasterStranded => MasterStranded'
    BY <1>1, <1>2 DEF MasterStranded, SlaveOpens
  <2>3. Together => Together'
    BY <1>1 DEF Together, SentBy, SlaveIn, MasterIn, Bin
  <2> QED
    BY <1>1, <2>1, <2>2, <2>3 DEF SyncInv, InStep, MasterOn, SlaveTalks
<1>6. OneSender' /\ PrefixReceived' /\ EndMeansDelivered'
  BY <1>1, <1>2 DEF SyncInv, ImageSync, OneSender, SlaveTalks, SentBy, PrefixReceived,
     EndMeansDelivered, MasterIn, DeliveredKept
<1>7. EndTold'
  BY <1>2 DEF SyncInv, ImageSync, EndTold, Told, Bin, DeliveredKept
<1> QED
  BY <1>3, <1>4, <1>5, <1>6, <1>7 DEF SyncInv, ImageSync

(* The slave is out of the session after this step. *)
LEMMA SlaveOutSync ==
    ASSUME TypeInv, SyncInv, NothingNew, TxFrame'["master"] = TxFrame["master"],
           \/ \E state \in {"LOW_BATT", "ERROR", "FLAG_SET", "FLAG_CLEARED"} :
                \/ SlaveCtrl' = [SlaveCtrl EXCEPT !.State = state]
                \/ SlaveCtrl' = [SlaveCtrl EXCEPT !.State = state, !.RetryTimes = 0]
           \/ SlaveCtrl' = SlaveBoot,
           UNCHANGED MasterCtrl, DeliveredKept
    PROVE  SyncInv'
<1>1. /\ SlaveCtrl'.State \in {"APP", "LOW_BATT", "ERROR", "FLAG_SET", "FLAG_CLEARED"}
      /\ \/ SlaveCtrl'.PktCRC = SlaveCtrl.PktCRC /\ SlaveCtrl'.BlockNum = SlaveCtrl.BlockNum
         \/ SlaveCtrl'.PktCRC = << >> /\ SlaveCtrl'.BlockNum = 0
  <2>1. CASE SlaveCtrl' = SlaveBoot
    BY <2>1 DEF SlaveBoot
  <2>2. CASE SlaveCtrl' # SlaveBoot
    <3>1. PICK state \in {"LOW_BATT", "ERROR", "FLAG_SET", "FLAG_CLEARED"} :
            \/ SlaveCtrl' = [SlaveCtrl EXCEPT !.State = state]
            \/ SlaveCtrl' = [SlaveCtrl EXCEPT !.State = state, !.RetryTimes = 0]
      BY <2>2
    <3> QED
      BY <3>1 DEF TypeInv, SlaveTypeOK
  <2> QED
    BY <2>1, <2>2
<1>2. Coming("slave")' \subseteq Coming("slave") /\ Coming("master")' \subseteq Coming("master")
  BY DEF NothingNew
<1>3. MasterSync'
  BY <1>2, MasterSideKept DEF SyncInv, MasterKept
<1>4. SlaveSync'
  BY <1>1 DEF SyncInv, SlaveSync, SlavePlace, Tells, Replies, SlaveTalks, SlaveOpens, SlaveIn
<1>5. InStep' /\ OneSender'
  BY <1>1 DEF InStep, OneSender, SlaveTalks
<1>6. PrefixReceived' /\ EndMeansDelivered'
  BY <1>1 DEF SyncInv, ImageSync, PrefixReceived, EndMeansDelivered, MasterIn, DeliveredKept
<1>7. EndTold'
  BY <1>2 DEF SyncInv, ImageSync, EndTold, Told, Bin, DeliveredKept
<1> QED
  BY <1>3, <1>4, <1>5, <1>6, <1>7 DEF SyncInv, ImageSync

(* The slave is switched on. *)
LEMMA SlaveOnSync ==
    ASSUME TypeInv, SyncInv, NothingNew, UNCHANGED TxFrame,
           SlaveCtrl'.State = "IDLE", SlaveCtrl'.BlockNum = 0, SlaveCtrl'.PktCRC = << >>,
           \A f \in Coming("slave")' : f = TxFrame["master"] /\ MasterWaits,
           Coming("master") = {},
           UNCHANGED MasterCtrl, DeliveredKept
    PROVE  SyncInv'
<1>1. Coming("slave")' \subseteq Coming("slave") /\ Coming("master")' = {}
  BY DEF NothingNew
<1>2. MasterSync'
  BY <1>1, MasterSideKept DEF SyncInv, MasterKept
<1>3. SlaveSync'
  BY <1>1 DEF SlaveSync, SlavePlace, Tells, Replies, SlaveOpens, SlaveIn
<1>4. InStep'
  <2> SUFFICES ASSUME MasterOn PROVE (SlaveStranded \/ Together)'
    BY DEF InStep, MasterOn
  <2>1. CASE MasterCtrl.State \in {"IDLE", "FW_VER_WAIT"}
    <3>1. MasterCtrl.BlockNum = 0
      BY <2>1 DEF SyncInv, MasterSync, MasterPlace
    <3>2. Together'
      BY <2>1, <3>1 DEF Together, SentBy, SlaveIn
    <3> QED
      BY <3>2
  <2>2. CASE MasterCtrl.State \notin {"IDLE", "FW_VER_WAIT"}
    <3>1. \A f \in Coming("slave")' : ~IsCmd(f, FW_UPDATE_CMD_ID_VERSION_REQ)
      BY <2>2 DEF SyncInv, MasterSync, Asks, MasterIn, MasterWaits, IsCmd, IsData
    <3> QED
      BY <2>2, <3>1 DEF SlaveStranded
  <2> QED
    BY <2>1, <2>2
<1>5. OneSender' /\ PrefixReceived'
  <2>1. \A f \in Coming("slave")' : IsData(f) => f.Data = Block(Bin, f.Id)
    BY DEF SyncInv, MasterSync, Asks, MasterIn, MasterWaits, IsCmd, IsData
  <2>2. Bin \in Image
    BY BinIsImage
  <2> QED
    BY <2>1, <2>2 DEF OneSender, PrefixReceived, SentBy
<1>6. EndTold' /\ EndMeansDelivered'
  BY <1>1 DEF SyncInv, ImageSync, EndTold, EndMeansDelivered, MasterIn, DeliveredKept
<1> QED
  BY <1>2, <1>3, <1>4, <1>5, <1>6 DEF SyncInv, ImageSync
-----------------------------------------------------------------------------
(***************************************************************************)
(* The transmitter.  A node that is not sending has nothing on the line,   *)
(* so that TxFrame is what its peer may hear.                              *)
(***************************************************************************)

(* A spin on PHY_TxFinished has one of its three parts: the transmitter works,
   its interrupt waits, or it has been served. *)
TxOnce(u, spins) ==
    /\ u.tx => ~u.PHY_TxFinished /\ "TX" \notin u.irq
    /\ u.PHY_TxFinished => "TX" \notin u.irq
    /\ u.tx \/ u.PHY_TxFinished \/ "TX" \in u.irq => spins

TxInv == \A n \in Node : TxOnce(uart[n], sending[n])

WireInv == LineInv /\ TxInv

(* The step leaves the peer of n as it is, and n on or off. *)
PowerKept(n) ==
    /\ \A m \in Node : uart'[m].on = uart[m].on
    /\ sending'[Peer(n)] = sending[Peer(n)]

LEMMA PoppedTx ==
    ASSUME NEW u \in GoodUart
    PROVE  /\ Popped(u).tx = u.tx /\ Popped(u).irq = u.irq /\ Popped(u).on = u.on
           /\ Popped(u).PHY_TxFinished = u.PHY_TxFinished
<1> DEFINE q == IF u.MsgQueue = << >> THEN u.MsgQueue ELSE Tail(u.MsgQueue)
<1>1. Popped(u) = [u EXCEPT !.MsgQueue = q]
  BY DEF Popped
<1> HIDE DEF q
<1> QED
  BY <1>1 DEF GoodUart, Uart

LEMMA ServedTx ==
    ASSUME NEW u \in GoodUart
    PROVE  LET v == irq_handler(u) IN
           /\ v.tx = u.tx /\ v.irq = {} /\ v.on = u.on
           /\ v.PHY_TxFinished <=> u.PHY_TxFinished \/ "TX" \in u.irq
<1> DEFINE rx == IF "RX" \in u.irq THEN RxIrqHandler(u) ELSE u
           tx == IF "TX" \in u.irq THEN TxIrqHandler(rx) ELSE rx
<1>1. /\ rx \in GoodUart
      /\ rx.tx = u.tx /\ rx.on = u.on /\ rx.PHY_TxFinished = u.PHY_TxFinished
  <2>1. RxIrqHandler(u) \in GoodUart
    BY RxIrqType
  <2>2. /\ RxIrqHandler(u).tx = u.tx /\ RxIrqHandler(u).on = u.on
        /\ RxIrqHandler(u).PHY_TxFinished = u.PHY_TxFinished
    BY DEF RxIrqHandler, GoodUart, Uart
  <2> QED
    BY <2>1, <2>2
<1> HIDE DEF rx
<1>2. /\ tx \in GoodUart /\ tx.tx = u.tx /\ tx.on = u.on
      /\ tx.PHY_TxFinished <=> u.PHY_TxFinished \/ "TX" \in u.irq
  BY <1>1 DEF TxIrqHandler, GoodUart, Uart
<1>3. irq_handler(u) = [tx EXCEPT !.irq = {}]
  BY DEF irq_handler, rx
<1> HIDE DEF tx
<1> QED
  BY <1>2, <1>3 DEF GoodUart, Uart

LEMMA InterruptTx ==
    ASSUME NEW u \in GoodUart, NEW channel \in {"RX", "TX"}, NEW swallow \in BOOLEAN, NEW spins,
           TxOnce(u, spins), channel = "TX" => spins /\ ~u.tx /\ ~u.PHY_TxFinished
    PROVE  TxOnce(Interrupt(u, channel, swallow), spins)
<1> DEFINE raised == [u EXCEPT !.irq = u.irq \cup {channel}]
<1>1. /\ raised \in GoodUart /\ raised.tx = u.tx /\ raised.irq = u.irq \cup {channel}
      /\ raised.PHY_TxFinished = u.PHY_TxFinished
  BY DEF GoodUart, Uart
<1>2. Interrupt(u, channel, swallow) = IF swallow THEN raised ELSE irq_handler(raised)
  BY DEF Interrupt
<1> HIDE DEF raised
<1>3. TxOnce(raised, spins)
  BY <1>1 DEF TxOnce
<1>4. TxOnce(irq_handler(raised), spins)
  BY <1>1, <1>3, ServedTx DEF TxOnce
<1> QED
  BY <1>2, <1>3, <1>4

LEMMA SendWire ==
    ASSUME UartInv, WireInv, NEW n \in Node, NEW frame, Running(n), Send(n, frame)
    PROVE  Says(n, frame) /\ WireInv' /\ PowerKept(n)
<1> DEFINE p == Popped(uart[n])
           u == [p EXCEPT !.tx = TRUE]
<1>1. /\ p \in GoodUart /\ p.on = uart[n].on /\ p.tx = uart[n].tx /\ p.irq = uart[n].irq
      /\ p.PHY_TxFinished = uart[n].PHY_TxFinished
  BY PoppedType, PoppedTx DEF UartInv
<1>2. uart' = [uart EXCEPT ![n] = u] /\ sending' = [sending EXCEPT ![n] = TRUE]
  BY DEF Send
<1> HIDE DEF p
<1>3. u.tx /\ u.irq = p.irq /\ u.PHY_TxFinished = p.PHY_TxFinished /\ u.on = p.on
  BY <1>1 DEF GoodUart, Uart
<1> HIDE DEF u
<1>4. /\ uart'[n] = u /\ uart'[Peer(n)] = uart[Peer(n)]
      /\ sending'[n] /\ sending'[Peer(n)] = sending[Peer(n)]
  BY <1>2 DEF UartInv
<1>5. TxInv'
  <2>1. TxOnce(u, sending'[n])
    BY <1>1, <1>3, <1>4 DEF WireInv, TxInv, TxOnce, Running
  <2> QED
    BY <1>4, <2>1 DEF WireInv, TxInv
<1>6. Says(n, frame) /\ LineInv'
  BY SendHears DEF WireInv
<1> QED
  BY <1>1, <1>3, <1>4, <1>5, <1>6 DEF WireInv, PowerKept

LEMMA PopWire ==
    ASSUME UartInv, WireInv, NEW n \in Node, Running(n),
           uart' = [uart EXCEPT ![n] = Popped(@)], UNCHANGED <<TxFrame, sending>>
    PROVE  NothingNew /\ WireInv' /\ PowerKept(n)
<1> DEFINE u == Popped(uart[n])
<1>1. /\ u.on = uart[n].on /\ u.tx = uart[n].tx /\ u.irq = uart[n].irq
      /\ u.PHY_TxFinished = uart[n].PHY_TxFinished
  BY PoppedTx DEF UartInv
<1>2. uart' = [uart EXCEPT ![n] = u]
  OBVIOUS
<1> HIDE DEF u
<1>3. uart'[n] = u /\ uart'[Peer(n)] = uart[Peer(n)]
  BY <1>2 DEF UartInv
<1>4. TxInv'
  BY <1>1, <1>3 DEF WireInv, TxInv, TxOnce
<1>5. NothingNew /\ LineInv'
  BY PopHears DEF WireInv
<1> QED
  BY <1>1, <1>3, <1>4, <1>5 DEF WireInv, PowerKept

LEMMA SentWire ==
    ASSUME UartInv, WireInv, NEW n \in Node, NEW wait, Sent(n, wait)
    PROVE  NothingNew /\ WireInv' /\ PowerKept(n) /\ ~sending'[n]
<1> DEFINE u == [uart[n] EXCEPT !.PHY_TxFinished = FALSE]
<1>1. /\ u.tx = uart[n].tx /\ u.on = uart[n].on /\ u.irq = uart[n].irq /\ ~u.PHY_TxFinished
  BY DEF UartInv, GoodUart, Uart
<1>2. /\ uart' = [uart EXCEPT ![n] = u] /\ sending' = [sending EXCEPT ![n] = FALSE]
      /\ uart[n].PHY_TxFinished
  BY DEF Sent
<1> HIDE DEF u
<1>3. /\ uart'[n] = u /\ uart'[Peer(n)] = uart[Peer(n)]
      /\ ~sending'[n] /\ sending'[Peer(n)] = sending[Peer(n)]
  BY <1>2 DEF UartInv
<1>4. ~uart[n].tx /\ "TX" \notin uart[n].irq
  BY <1>2 DEF WireInv, TxInv, TxOnce
<1>5. TxInv'
  BY <1>1, <1>3, <1>4 DEF WireInv, TxInv, TxOnce
<1>6. NothingNew /\ LineInv'
  BY <1>4, SentHears DEF WireInv
<1> QED
  BY <1>1, <1>3, <1>5, <1>6 DEF WireInv, PowerKept

LEMMA TimerWire ==
    ASSUME UartInv, WireInv, NEW n \in Node, TimerFires(n)
    PROVE  NothingNew /\ WireInv' /\ PowerKept(n) /\ UNCHANGED <<TxFrame, sending>>
<1> DEFINE q == Push(uart[n].MsgQueue, TIMEOUT)
           u == [uart[n] EXCEPT !.MsgQueue = q]
<1>1. uart' = [uart EXCEPT ![n] = u] /\ UNCHANGED <<TxFrame, sending>>
  BY DEF TimerFires
<1> HIDE DEF q
<1>2. /\ u.tx = uart[n].tx /\ u.on = uart[n].on /\ u.irq = uart[n].irq
      /\ u.PHY_TxFinished = uart[n].PHY_TxFinished
  BY DEF UartInv, GoodUart, Uart
<1> HIDE DEF u
<1>3. uart'[n] = u /\ uart'[Peer(n)] = uart[Peer(n)]
  BY <1>1 DEF UartInv
<1>4. TxInv'
  BY <1>1, <1>2, <1>3 DEF WireInv, TxInv, TxOnce
<1>5. NothingNew /\ LineInv'
  BY TimerHears DEF WireInv
<1> QED
  BY <1>1, <1>2, <1>3, <1>4, <1>5 DEF WireInv, PowerKept

LEMMA ResetWire ==
    ASSUME UartInv, WireInv, NEW n \in Node, UartReset(n)
    PROVE  WireInv'
<1>1. /\ uart'[n] = UartOff /\ uart'[Peer(n)] = uart[Peer(n)]
      /\ ~sending'[n] /\ sending'[Peer(n)] = sending[Peer(n)]
  BY DEF UartReset, UartInv
<1>2. TxInv'
  BY <1>1 DEF WireInv, TxInv, TxOnce, UartOff
<1>3. LineInv'
  BY ResetHears DEF WireInv
<1> QED
  BY <1>2, <1>3 DEF WireInv

LEMMA PhyInitWire ==
    ASSUME UartInv, WireInv, NEW n \in Node, FW_UPDATE_PHY_Init(n), ~uart[n].on
    PROVE  WireInv' /\ UNCHANGED <<TxFrame, sending>>
<1> DEFINE u == [uart[n] EXCEPT !.on = TRUE]
<1>1. /\ u.tx = uart[n].tx /\ u.irq = uart[n].irq /\ u.PHY_TxFinished = uart[n].PHY_TxFinished
  BY DEF UartInv, GoodUart, Uart
<1>2. uart' = [uart EXCEPT ![n] = u] /\ UNCHANGED <<TxFrame, sending>>
  BY DEF FW_UPDATE_PHY_Init
<1> HIDE DEF u
<1>3. uart'[n] = u /\ uart'[Peer(n)] = uart[Peer(n)]
  BY <1>2 DEF UartInv
<1>4. TxInv'
  BY <1>1, <1>2, <1>3 DEF WireInv, TxInv, TxOnce
<1>5. LineInv'
  BY PhyInitHears DEF WireInv
<1> QED
  BY <1>2, <1>4, <1>5 DEF WireInv

LEMMA FillTx ==
    ASSUME NEW u \in GoodUart, NEW f
    PROVE  /\ Fill(u, f).tx = u.tx /\ Fill(u, f).irq = u.irq
           /\ Fill(u, f).PHY_TxFinished = u.PHY_TxFinished
<1> DEFINE buf == [u.PHY_RxBuf EXCEPT ![u.PHY_RxPtr] = f]
<1>1. Fill(u, f) = [u EXCEPT !.PHY_RxBuf = buf]
  BY DEF Fill
<1> HIDE DEF buf
<1> QED
  BY <1>1 DEF GoodUart, Uart

LEMMA TransmittedWire ==
    ASSUME UartInv, WireInv, NEW n \in Node, Transmitted(n)
    PROVE  /\ NothingNew /\ WireInv' /\ UNCHANGED <<TxFrame, sending>>
           /\ \A m \in Node : uart'[m].on = uart[m].on
<1> DEFINE p == Peer(n)
           quiet == [uart[n] EXCEPT !.tx = FALSE]
<1>1. PICK sw \in [Node -> BOOLEAN], got \in Arrivals(TxFrame[n]), lost \in BOOLEAN :
        uart' = [uart EXCEPT
                      ![n] = Interrupt(quiet, "TX", sw[n]),
                      ![p] = IF lost THEN uart[p] ELSE Interrupt(Fill(uart[p], got), "RX", sw[p])]
  BY DEF Transmitted
<1>2. uart[n].tx /\ p \in Node /\ p # n
  BY DEF Transmitted
<1>3. sw[n] \in BOOLEAN /\ sw[p] \in BOOLEAN
  <2> HIDE DEF p
  <2> QED
    BY <1>2, Zenon
<1>4. got \in GoodFrame
  <2>1. TxFrame[n] \in GoodFrame
    BY DEF UartInv
  <2> QED
    BY <2>1, ArrivalType
<1>5. uart[p] \in GoodUart /\ Fill(uart[p], got) \in GoodUart
  BY <1>4, FillType DEF UartInv
<1>6. TxOnce(Fill(uart[p], got), sending[p])
  BY <1>5, FillTx DEF WireInv, TxInv, TxOnce
<1>7. /\ quiet \in GoodUart /\ ~quiet.tx /\ quiet.irq = uart[n].irq
      /\ quiet.PHY_TxFinished = uart[n].PHY_TxFinished
  BY DEF UartInv, GoodUart, Uart
<1> HIDE DEF quiet
<1>8. TxOnce(quiet, sending[n]) /\ sending[n] /\ ~quiet.PHY_TxFinished
  BY <1>2, <1>7 DEF WireInv, TxInv, TxOnce
<1>9. TxOnce(Interrupt(quiet, "TX", sw[n]), sending[n])
  BY <1>3, <1>7, <1>8, InterruptTx
<1>10. TxOnce(Interrupt(Fill(uart[p], got), "RX", sw[p]), sending[p])
  BY <1>3, <1>5, <1>6, InterruptTx
<1>11. TxInv'
  <2> DEFINE a == Interrupt(quiet, "TX", sw[n])
             b == IF lost THEN uart[p] ELSE Interrupt(Fill(uart[p], got), "RX", sw[p])
  <2>1. TxOnce(a, sending[n]) /\ TxOnce(b, sending[p])
    BY <1>9, <1>10 DEF WireInv, TxInv
  <2>2. uart' = [uart EXCEPT ![n] = a, ![p] = b]
    BY <1>1
  <2> HIDE DEF a, b
  <2>3. uart'[n] = a /\ uart'[p] = b
    BY <2>2 DEF UartInv
  <2>4. sending' = sending
    BY DEF Transmitted
  <2> QED
    BY <2>1, <2>3, <2>4 DEF TxInv
<1>12. /\ NothingNew /\ LineInv' /\ UNCHANGED <<TxFrame, sending>>
       /\ \A m \in Node : uart'[m].on = uart[m].on
  BY TransmittedHears DEF WireInv
<1> QED
  BY <1>11, <1>12 DEF WireInv
-----------------------------------------------------------------------------
(***************************************************************************)
(* The calls of MasterStart and of SlaveStart, one by one.                 *)
(***************************************************************************)

InSync == WireInv /\ PowerInv /\ SyncInv

(* A call of MasterStart that sends, and one that does not. *)
LEMMA MasterSends ==
    ASSUME TypeInv, InSync, NEW frame, Running("master"), Send("master", frame),
           MasterWaits', UNCHANGED SlaveCtrl
    PROVE  /\ Says("master", frame) /\ WireInv' /\ PowerInv'
           /\ Coming("master")' \subseteq Coming("master")
<1>1. Says("master", frame) /\ WireInv' /\ PowerKept("master")
  BY SendWire DEF TypeInv, InSync
<1>2. PowerInv'
  BY <1>1 DEF PowerKept, InSync, PowerInv, MasterWaits, MasterOn, SlaveOn, Running
<1> QED
  BY <1>1, <1>2 DEF Says

LEMMA MasterPops ==
    ASSUME TypeInv, InSync, Running("master"), MasterOn',
           uart' = [uart EXCEPT !["master"] = Popped(@)], UNCHANGED <<TxFrame, sending>>,
           UNCHANGED SlaveCtrl
    PROVE  NothingNew /\ WireInv' /\ PowerInv'
<1>1. NothingNew /\ WireInv' /\ PowerKept("master")
  BY PopWire DEF TypeInv, InSync
<1>2. PowerInv'
  BY <1>1 DEF PowerKept, InSync, PowerInv, MasterOn, SlaveOn, Running
<1> QED
  BY <1>1, <1>2

LEMMA MasterResetSync ==
    ASSUME TypeInv, InSync, MasterReset, UNCHANGED <<SlaveCtrl, delivered>>
    PROVE  InSync' /\ NothingNew
<1>1. /\ NothingNew /\ WireInv' /\ TxFrame'["slave"] = TxFrame["slave"]
      /\ ~uart'["master"].on /\ ~sending'["master"]
      /\ uart'["slave"] = uart["slave"] /\ sending'["slave"] = sending["slave"]
  BY ResetHears, ResetWire DEF MasterReset, InSync, WireInv, TypeInv
<1>2. PICK bin \in MasterImage : MasterCtrl' = MasterBoot(bin)
  BY DEF MasterReset
<1>3. PowerInv'
  BY <1>1, <1>2 DEF InSync, PowerInv, MasterOn, SlaveOn, MasterBoot
<1>4. \A f \in Coming("master")' : f = TxFrame["slave"]
  BY <1>1 DEF WireInv, LineInv, Coming, Heard
<1>5. SyncInv'
  BY <1>1, <1>2, <1>4, MasterOffSync DEF InSync
<1> QED
  BY <1>1, <1>3, <1>5 DEF InSync

LEMMA MasterHears ==
    ASSUME TypeInv, BuffersIntact, MasterAnswered
    PROVE  \E f \in Coming("master") : MasterExpects(f)
BY ReadsComing DEF TypeInv, MasterAnswered

LEMMA MasterMove ==
    ASSUME TypeInv, NEW state
    PROVE  /\ [MasterCtrl EXCEPT !.State = state].State = state
           /\ [MasterCtrl EXCEPT !.State = state, !.RetryTimes = 0].State = state
           /\ [MasterCtrl EXCEPT !.RetryTimes = @ + 1].State = MasterCtrl.State
BY DEF TypeInv, MasterTypeOK

LEMMA MasterIdleStep ==
    ASSUME TypeInv, InSync, MasterIdle, UNCHANGED SlaveCtrl, DeliveredKept
    PROVE  InSync' /\ Coming("master")' \subseteq Coming("master")
<1> DEFINE frame == CmdFrame(FW_UPDATE_CMD_ID_VERSION_REQ, 0)
<1>1. Running("master") /\ Send("master", frame) /\ MasterIn("IDLE")
      /\ MasterCtrl' = [MasterCtrl EXCEPT !.State = "FW_VER_WAIT"]
  BY DEF MasterIdle
<1>2. MasterWaits'
  BY <1>1, MasterMove DEF MasterWaits
<1>3. /\ Says("master", frame) /\ WireInv' /\ PowerInv'
      /\ Coming("master")' \subseteq Coming("master")
  BY <1>1, <1>2, MasterSends
<1>4. SyncInv'
  BY <1>1, <1>3, MasterIdleSync DEF InSync
<1> QED
  BY <1>3, <1>4 DEF InSync

LEMMA MasterVersionStep ==
    ASSUME TypeInv, InSync, BuffersIntact, MasterVersionRsp, UNCHANGED SlaveCtrl, DeliveredKept
    PROVE  InSync' /\ Coming("master")' \subseteq Coming("master")
<1>1. PICK f \in Coming("master") : MasterExpects(f)
  BY MasterHears DEF MasterVersionRsp
<1>2. IsCmd(f, FW_UPDATE_CMD_ID_VERSION_RSP) /\ MasterIn("FW_VER_WAIT") /\ Running("master")
  BY <1>1 DEF MasterVersionRsp, MasterExpects, MasterIn
<1>3. CASE RxFrame("master").Val < Version[Bin]
  <2> DEFINE frame == CmdFrame(FW_UPDATE_CMD_ID_START_REQ, MaxBlockNum(Bin))
  <2>1. /\ Send("master", frame)
        /\ MasterCtrl' = [MasterCtrl EXCEPT !.State = "START_RSP_WAIT", !.RetryTimes = 0]
    BY <1>3 DEF MasterVersionRsp, SendAfterCancel, Bin
  <2>2. MasterWaits'
    BY <2>1, MasterMove DEF MasterWaits
  <2>3. /\ Says("master", frame) /\ WireInv' /\ PowerInv'
        /\ Coming("master")' \subseteq Coming("master")
    BY <1>2, <2>1, <2>2, MasterSends
  <2>4. SyncInv'
    BY <1>2, <2>1, <2>3, MasterVersionSync DEF InSync
  <2> QED
    BY <2>3, <2>4 DEF InSync
<1>4. CASE ~(RxFrame("master").Val < Version[Bin])
  <2>1. /\ StopTimer("master")
        /\ MasterCtrl' = [MasterCtrl EXCEPT !.State = "ERROR", !.RetryTimes = 0]
    BY <1>4 DEF MasterVersionRsp, Bin
  <2>2. MasterOn'
    BY <2>1, MasterMove DEF MasterOn
  <2>3. NothingNew /\ WireInv' /\ PowerInv' /\ UNCHANGED TxFrame
    BY <1>2, <2>1, <2>2, MasterPops DEF StopTimer
  <2>4. SyncInv'
    BY <1>2, <2>1, <2>3, MasterErrorSync DEF InSync, MasterWaits, MasterIn
  <2> QED
    BY <2>3, <2>4 DEF InSync, NothingNew
<1> QED
  BY <1>3, <1>4

LEMMA MasterBlockStep ==
    ASSUME TypeInv, InSync, BuffersIntact, MasterStartRsp \/ MasterDataAck,
           UNCHANGED SlaveCtrl, DeliveredKept
    PROVE  InSync' /\ Coming("master")' \subseteq Coming("master")
<1> DEFINE frame == DataFrame
<1>1. PICK f \in Coming("master") : MasterExpects(f)
  BY MasterHears DEF MasterStartRsp, MasterDataAck
<1>2. /\ Running("master") /\ Send("master", frame)
      /\ MasterCtrl' = [MasterCtrl EXCEPT
                          !.State = "DATA_ACK_WAIT",
                          !.RetryTimes = 0,
                          !.BlockNum = @ + 1,
                          !.FinishFlag = @ \/ MasterCtrl.BlockNum + 1 >= MaxBlockNum(MasterCtrl.Bin)]
  BY DEF MasterStartRsp, MasterDataAck, MasterSendBlock, SendAfterCancel
<1>3. MasterWaits'
  BY <1>2 DEF MasterWaits, TypeInv, MasterTypeOK
<1>4. /\ Says("master", frame) /\ WireInv' /\ PowerInv'
      /\ Coming("master")' \subseteq Coming("master")
  BY <1>2, <1>3, MasterSends
<1>5. ~MasterCtrl.FinishFlag /\ MasterCtrl.State \in {"START_RSP_WAIT", "DATA_ACK_WAIT"}
  BY DEF InSync, SyncInv, MasterSync, MasterPlace, MasterStartRsp, MasterDataAck, MasterIn
<1>6. SlaveTalks => /\ SlaveCtrl.State \in {"DATA_READY", "END_READY"} /\ Together
                    /\ MasterCtrl.BlockNum <= SlaveCtrl.BlockNum
  <2>1. CASE MasterStartRsp
    BY <1>1, <2>1, StartHeard DEF MasterStartRsp, MasterExpects, MasterIn, InSync
  <2>2. CASE MasterDataAck
    BY <1>1, <2>2, AckHeard DEF MasterDataAck, MasterExpects, MasterIn, InSync, IsAck
  <2> QED
    BY <2>1, <2>2
<1> HIDE DEF frame
<1>7. SyncInv'
  BY <1>2, <1>4, <1>5, <1>6, MasterBlockSync DEF InSync, frame
<1> QED
  BY <1>4, <1>7 DEF InSync

LEMMA MasterLastStep ==
    ASSUME TypeInv, InSync, BuffersIntact, MasterLastAck, UNCHANGED SlaveCtrl, DeliveredKept
    PROVE  InSync' /\ Coming("master")' \subseteq Coming("master")
<1> DEFINE frame == CmdFrame(FW_UPDATE_CMD_ID_END_REQ, Size[Bin])
<1>1. PICK f \in Coming("master") : MasterExpects(f)
  BY MasterHears DEF MasterLastAck
<1>2. /\ Running("master") /\ Send("master", frame)
      /\ MasterIn("DATA_ACK_WAIT") /\ MasterCtrl.FinishFlag
      /\ MasterCtrl' = [MasterCtrl EXCEPT !.State = "END_RSP_WAIT", !.RetryTimes = 0]
  BY DEF MasterLastAck, SendAfterCancel, Bin
<1>3. MasterWaits'
  BY <1>2, MasterMove DEF MasterWaits
<1>4. /\ Says("master", frame) /\ WireInv' /\ PowerInv'
      /\ Coming("master")' \subseteq Coming("master")
  BY <1>2, <1>3, MasterSends
<1>5. SlaveTalks => /\ SlaveCtrl.State \in {"DATA_READY", "END_READY"} /\ Together
                    /\ MasterCtrl.BlockNum <= SlaveCtrl.BlockNum
  BY <1>1, <1>2, AckHeard DEF MasterExpects, MasterIn, InSync, IsAck
<1>6. SyncInv'
  BY <1>2, <1>4, <1>5, MasterLastSync DEF InSync
<1> QED
  BY <1>4, <1>6 DEF InSync

LEMMA MasterEndStep ==
    ASSUME TypeInv, InSync, BuffersIntact, MasterEndRsp, UNCHANGED SlaveCtrl, DeliveredKept
    PROVE  InSync' /\ Coming("master")' \subseteq Coming("master")
<1>1. PICK f \in Coming("master") : MasterExpects(f)
  BY MasterHears DEF MasterEndRsp
<1>2. /\ IsCmd(f, FW_UPDATE_CMD_ID_END_RSP) /\ MasterIn("END_RSP_WAIT") /\ Running("master")
      /\ StopTimer("master")
      /\ MasterCtrl' = [MasterCtrl EXCEPT !.State = "END", !.RetryTimes = 0]
  BY <1>1 DEF MasterEndRsp, MasterExpects, MasterIn
<1>3. MasterOn'
  BY <1>2, MasterMove DEF MasterOn
<1>4. NothingNew /\ WireInv' /\ PowerInv' /\ UNCHANGED TxFrame
  BY <1>2, <1>3, MasterPops DEF StopTimer
<1>5. SyncInv'
  BY <1>2, <1>4, MasterEndSync DEF InSync
<1> QED
  BY <1>4, <1>5 DEF InSync, NothingNew

LEMMA MasterRetryStep ==
    ASSUME TypeInv, InSync, MasterRetry, UNCHANGED SlaveCtrl, DeliveredKept
    PROVE  InSync' /\ Coming("master")' \subseteq Coming("master")
<1>1. Running("master") /\ MasterWaits
  BY DEF MasterRetry
<1>2. CASE MasterCtrl.RetryTimes = FW_UPDATE_RETRY_MAX
  <2>1. PopOnly("master") /\ MasterCtrl' = [MasterCtrl EXCEPT !.State = "ERROR"]
    BY <1>2 DEF MasterRetry
  <2>2. MasterOn'
    BY <2>1, MasterMove DEF MasterOn
  <2>3. NothingNew /\ WireInv' /\ PowerInv' /\ UNCHANGED TxFrame
    BY <1>1, <2>1, <2>2, MasterPops DEF PopOnly
  <2>4. SyncInv'
    BY <1>1, <2>1, <2>3, MasterErrorSync DEF InSync
  <2> QED
    BY <2>3, <2>4 DEF InSync, NothingNew
<1>3. CASE MasterCtrl.RetryTimes # FW_UPDATE_RETRY_MAX
  <2> DEFINE frame == TxFrame["master"]
  <2>1. Send("master", frame) /\ MasterCtrl' = [MasterCtrl EXCEPT !.RetryTimes = @ + 1]
    BY <1>3 DEF MasterRetry, SendAgain
  <2>2. MasterWaits'
    BY <1>1, <2>1, MasterMove DEF MasterWaits
  <2>3. /\ Says("master", frame) /\ WireInv' /\ PowerInv'
        /\ Coming("master")' \subseteq Coming("master")
    BY <1>1, <2>1, <2>2, MasterSends
  <2>4. SyncInv'
    BY <1>1, <2>1, <2>3, MasterAgainSync DEF InSync
  <2> QED
    BY <2>3, <2>4 DEF InSync
<1> QED
  BY <1>2, <1>3

LEMMA MasterStepSync ==
    ASSUME TypeInv, InSync, BuffersIntact, MasterStep
    PROVE  InSync' /\ Coming("master")' \subseteq Coming("master")
<1>1. MasterLoop /\ UNCHANGED SlaveCtrl /\ UNCHANGED delivered /\ DeliveredKept
  BY DEF MasterStep, DeliveredKept
<1>2. CASE MasterSent
  <2>1. Sent("master", TRUE) /\ UNCHANGED MasterCtrl
    BY <1>2 DEF MasterSent
  <2>2. NothingNew /\ WireInv' /\ PowerKept("master") /\ ~sending'["master"]
    BY <2>1, SentWire DEF TypeInv, InSync
  <2>3. UNCHANGED TxFrame
    BY <2>1 DEF Sent
  <2>4. SyncInv'
    BY <1>1, <2>1, <2>2, <2>3, QuietSync DEF InSync, MasterKept, SlaveKept
  <2>5. PowerInv'
    BY <1>1, <2>1, <2>2 DEF InSync, PowerInv, PowerKept, MasterOn, SlaveOn
  <2> QED
    BY <2>2, <2>4, <2>5 DEF InSync, NothingNew
<1>3. CASE MasterSleep
  BY <1>1, <1>3, MasterResetSync DEF MasterSleep, NothingNew
<1> QED
  BY <1>1, <1>2, <1>3, MasterIdleStep, MasterVersionStep, MasterBlockStep, MasterLastStep,
     MasterEndStep, MasterRetryStep DEF MasterLoop

(* A call of SlaveStart that sends, and one that does not. *)
LEMMA SlaveSends ==
    ASSUME TypeInv, InSync, NEW frame, Running("slave"), Send("slave", frame),
           SlaveCtrl'.State \in {"START_READY", "DATA_READY", "END_READY", "END"},
           UNCHANGED MasterCtrl
    PROVE  /\ Says("slave", frame) /\ WireInv' /\ PowerInv'
           /\ Coming("slave")' \subseteq Coming("slave")
<1>1. Says("slave", frame) /\ WireInv' /\ PowerKept("slave")
  BY SendWire DEF TypeInv, InSync
<1>2. PowerInv'
  BY <1>1 DEF PowerKept, InSync, PowerInv, MasterWaits, MasterOn, SlaveOn, Running
<1> QED
  BY <1>1, <1>2 DEF Says

LEMMA SlavePops ==
    ASSUME TypeInv, InSync, Running("slave"), SlaveOn',
           uart' = [uart EXCEPT !["slave"] = Popped(@)], UNCHANGED <<TxFrame, sending>>,
           UNCHANGED MasterCtrl
    PROVE  NothingNew /\ WireInv' /\ PowerInv'
<1>1. NothingNew /\ WireInv' /\ PowerKept("slave")
  BY PopWire DEF TypeInv, InSync
<1>2. PowerInv'
  BY <1>1 DEF PowerKept, InSync, PowerInv, MasterWaits, MasterOn, SlaveOn, Running
<1> QED
  BY <1>1, <1>2

LEMMA SlaveResetSync ==
    ASSUME TypeInv, InSync, SlaveReset, UNCHANGED MasterCtrl, DeliveredKept
    PROVE  InSync' /\ NothingNew
<1>1. /\ NothingNew /\ WireInv' /\ TxFrame'["master"] = TxFrame["master"]
      /\ ~uart'["slave"].on /\ ~sending'["slave"]
      /\ uart'["master"] = uart["master"] /\ sending'["master"] = sending["master"]
  BY ResetHears, ResetWire DEF SlaveReset, InSync, WireInv, TypeInv
<1>2. SlaveCtrl' = SlaveBoot
  BY DEF SlaveReset
<1>3. PowerInv'
  BY <1>1, <1>2 DEF InSync, PowerInv, MasterOn, SlaveOn, SlaveBoot, MasterWaits
<1>4. SyncInv'
  BY <1>1, <1>2, SlaveOutSync DEF InSync
<1> QED
  BY <1>1, <1>3, <1>4 DEF InSync

LEMMA SlaveHearsCmd ==
    ASSUME TypeInv, BuffersIntact, NEW id, SlaveGotCmd(id)
    PROVE  RxFrame("slave") \in Coming("slave") /\ IsCmd(RxFrame("slave"), id)
BY ReadsComing DEF TypeInv, SlaveGotCmd, IsCmd

LEMMA SlaveHearsBlock ==
    ASSUME TypeInv, BuffersIntact, NEW num, SlaveGotBlock(num)
    PROVE  LET f == RxFrame("slave") IN
           f \in Coming("slave") /\ IsData(f) /\ f.Id = num /\ f.Data \in CellContent
<1>1. RxFrame("slave").Data \in CellContent
  BY RxBlockType DEF TypeInv, CellContent
<1> QED
  BY <1>1, ReadsComing DEF TypeInv, SlaveGotBlock, IsData

LEMMA SlaveMove ==
    ASSUME TypeInv, NEW state
    PROVE  /\ [SlaveCtrl EXCEPT !.State = state].State = state
           /\ [SlaveCtrl EXCEPT !.State = state, !.RetryTimes = 0].State = state
           /\ [SlaveCtrl EXCEPT !.RetryTimes = @ + 1].State = SlaveCtrl.State
           /\ [SlaveCtrl EXCEPT !.RetryTimes = 0].State = SlaveCtrl.State
BY DEF TypeInv, SlaveTypeOK

LEMMA SlaveIdleStep ==
    ASSUME TypeInv, InSync, SlaveIdle, UNCHANGED MasterCtrl, DeliveredKept
    PROVE  InSync' /\ Coming("slave")' \subseteq Coming("slave")
<1>1. /\ Running("slave") /\ SlaveIn("IDLE") /\ RestartTimer("slave")
      /\ SlaveCtrl' = [SlaveCtrl EXCEPT !.State = "FW_VERSION_READY"]
  BY DEF SlaveIdle
<1>2. SlaveOn'
  BY <1>1, SlaveMove DEF SlaveOn
<1>3. NothingNew /\ WireInv' /\ PowerInv' /\ UNCHANGED TxFrame
  BY <1>1, <1>2, SlavePops DEF RestartTimer
<1>4. SyncInv'
  BY <1>1, <1>3, SlaveWaitSync DEF InSync
<1> QED
  BY <1>3, <1>4 DEF InSync, NothingNew

LEMMA SlaveVersionStep ==
    ASSUME TypeInv, InSync, BuffersIntact, SlaveVersionReq, UNCHANGED MasterCtrl, DeliveredKept
    PROVE  InSync' /\ Coming("slave")' \subseteq Coming("slave")
<1> DEFINE frame == CmdFrame(FW_UPDATE_CMD_ID_VERSION_RSP, SlaveCtrl.FwVersion)
<1>1. /\ Running("slave") /\ SlaveIn("FW_VERSION_READY") /\ Send("slave", frame)
      /\ SlaveGotCmd(FW_UPDATE_CMD_ID_VERSION_REQ)
      /\ SlaveCtrl' = [SlaveCtrl EXCEPT !.State = "START_READY", !.RetryTimes = 0]
  BY DEF SlaveVersionReq, SendAfterCancel
<1>2. /\ Says("slave", frame) /\ WireInv' /\ PowerInv'
      /\ Coming("slave")' \subseteq Coming("slave")
  BY <1>1, SlaveMove, SlaveSends
<1>3. IsCmd(frame, FW_UPDATE_CMD_ID_VERSION_RSP)
  BY CmdFields
<1>4. PICK f \in Coming("slave") : IsCmd(f, FW_UPDATE_CMD_ID_VERSION_REQ)
  BY <1>1, SlaveHearsCmd
<1> HIDE DEF frame
<1>5. SyncInv'
  BY <1>1, <1>2, <1>3, <1>4, SlaveVersionSync DEF InSync
<1> QED
  BY <1>2, <1>5 DEF InSync

LEMMA SlaveRepeatStep ==
    ASSUME TypeInv, InSync, SlaveRepeat, UNCHANGED MasterCtrl, DeliveredKept
    PROVE  InSync' /\ Coming("slave")' \subseteq Coming("slave")
<1> DEFINE frame == TxFrame["slave"]
<1>1. /\ Running("slave") /\ SlaveCtrl.State \in {"START_READY", "DATA_READY", "END_READY"}
      /\ Send("slave", frame) /\ SlaveCtrl' = [SlaveCtrl EXCEPT !.RetryTimes = 0]
  BY DEF SlaveRepeat, SendAfterCancel, SlaveIn
<1>2. /\ Says("slave", frame) /\ WireInv' /\ PowerInv'
      /\ Coming("slave")' \subseteq Coming("slave")
  BY <1>1, SlaveMove, SlaveSends
<1>3. SyncInv'
  BY <1>1, <1>2, SlaveAgainSync DEF InSync
<1> QED
  BY <1>2, <1>3 DEF InSync

LEMMA SlaveStartStep ==
    ASSUME TypeInv, InSync, BuffersIntact, SlaveStartReq, UNCHANGED MasterCtrl, DeliveredKept
    PROVE  InSync' /\ Coming("slave")' \subseteq Coming("slave")
<1> DEFINE frame == CmdFrame(FW_UPDATE_CMD_ID_START_RSP, 0)
           f == RxFrame("slave")
<1>1. /\ Running("slave") /\ SlaveIn("START_READY") /\ Send("slave", frame)
      /\ SlaveGotCmd(FW_UPDATE_CMD_ID_START_REQ)
      /\ SlaveCtrl' = [SlaveCtrl EXCEPT !.State = "DATA_READY", !.RetryTimes = 0,
                                        !.MaxBlockNum = f.Val]
  BY DEF SlaveStartReq, SendAfterCancel
<1>2. SlaveCtrl'.State = "DATA_READY"
  BY <1>1 DEF TypeInv, SlaveTypeOK
<1>3. /\ Says("slave", frame) /\ WireInv' /\ PowerInv'
      /\ Coming("slave")' \subseteq Coming("slave")
  BY <1>1, <1>2, SlaveSends
<1>4. IsCmd(frame, FW_UPDATE_CMD_ID_START_RSP)
  BY CmdFields
<1>5. f \in Coming("slave") /\ IsCmd(f, FW_UPDATE_CMD_ID_START_REQ)
  BY <1>1, SlaveHearsCmd
<1> HIDE DEF frame, f
<1>6. SyncInv'
  BY <1>1, <1>3, <1>4, <1>5, SlaveStartSync DEF InSync
<1> QED
  BY <1>3, <1>6 DEF InSync

LEMMA AckFields ==
    ASSUME NEW num PROVE IsAck(AckFrame(num)) /\ AckFrame(num).Id = num
BY DEF AckFrame, NoFrame, IsAck

LEMMA SlaveBlockStepSync ==
    ASSUME TypeInv, InSync, BuffersIntact, SlaveBlock, UNCHANGED MasterCtrl, DeliveredKept
    PROVE  InSync' /\ Coming("slave")' \subseteq Coming("slave")
<1> DEFINE num == SlaveCtrl.BlockNum + 1
           f == RxFrame("slave")
           blk == f.Data
           frame == AckFrame(num)
           state == IF SlaveCtrl.MaxBlockNum = num THEN "END_READY" ELSE SlaveCtrl.State
           size == SlaveCtrl.TotalBinSize + BlkLen(blk)
           crc == Append(SlaveCtrl.PktCRC, blk)
<1>1. /\ Running("slave") /\ SlaveIn("DATA_READY") /\ Send("slave", frame) /\ SlaveGotBlock(num)
      /\ SlaveCtrl' = [SlaveCtrl EXCEPT !.State = state, !.RetryTimes = 0, !.BlockNum = num,
                                        !.TotalBinSize = size, !.PktCRC = crc]
  BY DEF SlaveBlock, SendAfterCancel
<1>2. f \in Coming("slave") /\ IsData(f) /\ f.Id = num /\ f.Data \in CellContent
  BY <1>1, SlaveHearsBlock
<1>3. IsAck(frame) /\ frame.Id = num
  BY AckFields
<1>4. state = IF SlaveCtrl.MaxBlockNum = num THEN "END_READY" ELSE "DATA_READY"
  BY <1>1 DEF SlaveIn
<1>5. crc = Append(SlaveCtrl.PktCRC, f.Data) /\ num = SlaveCtrl.BlockNum + 1
  OBVIOUS
<1> HIDE DEF num, frame, state, size, crc, f
<1>6. /\ SlaveCtrl'.State = state /\ SlaveCtrl'.BlockNum = num /\ SlaveCtrl'.PktCRC = crc
      /\ SlaveCtrl'.MaxBlockNum = SlaveCtrl.MaxBlockNum
  BY <1>1 DEF TypeInv, SlaveTypeOK
<1>7. /\ Says("slave", frame) /\ WireInv' /\ PowerInv'
      /\ Coming("slave")' \subseteq Coming("slave")
  BY <1>1, <1>4, <1>6, SlaveSends
<1>8. SyncInv'
  BY <1>1, <1>2, <1>3, <1>4, <1>5, <1>6, <1>7, SlaveBlockSync DEF InSync
<1> QED
  BY <1>7, <1>8 DEF InSync

LEMMA SlaveEndStep ==
    ASSUME TypeInv, InSync, BuffersIntact, SlaveEndReq, SlaveStep
    PROVE  InSync' /\ Coming("slave")' \subseteq Coming("slave")
<1> DEFINE frame == CmdFrame(FW_UPDATE_CMD_ID_END_RSP, 0)
<1>1. /\ Running("slave") /\ SlaveIn("END_READY") /\ SlaveGotCmd(FW_UPDATE_CMD_ID_END_REQ)
      /\ UNCHANGED MasterCtrl /\ UNCHANGED pressed
  BY DEF SlaveEndReq, SlaveStep
<1>2. CASE SlaveCtrl.TotalBinSize # RxFrame("slave").Val
  <2>1. /\ StopTimer("slave")
        /\ SlaveCtrl' = [SlaveCtrl EXCEPT !.State = "ERROR", !.RetryTimes = 0]
    BY <1>2 DEF SlaveEndReq
  <2>2. SlaveOn' /\ SlaveCtrl'.State = "ERROR"
    BY <2>1, SlaveMove DEF SlaveOn
  <2>3. NothingNew /\ WireInv' /\ PowerInv' /\ UNCHANGED TxFrame
    BY <1>1, <2>1, <2>2, SlavePops DEF StopTimer
  <2>4. DeliveredKept
    BY <1>1, <2>2 DEF SlaveStep, DeliveredKept
  <2>5. SyncInv'
    BY <1>1, <2>1, <2>3, <2>4, SlaveOutSync DEF InSync
  <2> QED
    BY <2>3, <2>5 DEF InSync, NothingNew
<1>3. CASE SlaveCtrl.TotalBinSize = RxFrame("slave").Val
  <2>1. /\ Send("slave", frame)
        /\ SlaveCtrl' = [SlaveCtrl EXCEPT !.State = "END", !.RetryTimes = 0]
    BY <1>3 DEF SlaveEndReq, SendAfterCancel
  <2>2. SlaveCtrl'.State = "END"
    BY <2>1, SlaveMove
  <2>3. /\ Says("slave", frame) /\ WireInv' /\ PowerInv'
        /\ Coming("slave")' \subseteq Coming("slave")
    BY <1>1, <2>1, <2>2, SlaveSends
  <2>4. IsCmd(frame, FW_UPDATE_CMD_ID_END_RSP)
    BY CmdFields
  <2>5. PICK f \in Coming("slave") : IsCmd(f, FW_UPDATE_CMD_ID_END_REQ)
    BY <1>1, SlaveHearsCmd
  <2>6. ~MasterOn => Coming("master") = {}
    <3>1. ~uart["slave"].tx
      BY <1>1 DEF InSync, WireInv, LineInv, Running
    <3> QED
      BY <3>1, OffComing DEF InSync, WireInv, PowerInv
  <2>7. delivered' = delivered \cup {<<im, pressed["master"]>> : im \in Complete}
    BY <1>1, <2>2 DEF SlaveStep
  <2> HIDE DEF frame
  <2>8. SyncInv'
    BY <1>1, <2>1, <2>3, <2>4, <2>5, <2>6, <2>7, SlaveEndSync DEF InSync
  <2> QED
    BY <2>3, <2>8 DEF InSync
<1> QED
  BY <1>2, <1>3

LEMMA SlaveRetryStep ==
    ASSUME TypeInv, InSync, SlaveRetry, UNCHANGED MasterCtrl, DeliveredKept
    PROVE  InSync' /\ Coming("slave")' \subseteq Coming("slave")
<1>1. Running("slave") /\ SlaveWaits
  BY DEF SlaveRetry
<1>2. CASE SlaveCtrl.RetryTimes = FW_UPDATE_RETRY_MAX
  <2>1. PopOnly("slave") /\ SlaveCtrl' = [SlaveCtrl EXCEPT !.State = "ERROR"]
    BY <1>2 DEF SlaveRetry
  <2>2. SlaveOn'
    BY <2>1, SlaveMove DEF SlaveOn
  <2>3. NothingNew /\ WireInv' /\ PowerInv' /\ UNCHANGED TxFrame
    BY <1>1, <2>1, <2>2, SlavePops DEF PopOnly
  <2>4. SyncInv'
    BY <2>1, <2>3, SlaveOutSync DEF InSync
  <2> QED
    BY <2>3, <2>4 DEF InSync, NothingNew
<1>3. CASE SlaveCtrl.RetryTimes # FW_UPDATE_RETRY_MAX
  <2>1. RestartTimer("slave") /\ SlaveCtrl' = [SlaveCtrl EXCEPT !.RetryTimes = @ + 1]
    BY <1>3 DEF SlaveRetry
  <2>2. SlaveOn'
    BY <1>1, <2>1, SlaveMove DEF SlaveOn, SlaveWaits
  <2>3. NothingNew /\ WireInv' /\ PowerInv' /\ UNCHANGED TxFrame
    BY <1>1, <2>1, <2>2, SlavePops DEF RestartTimer
  <2>4. SyncInv'
    BY <2>1, <2>3, SlaveWaitSync DEF InSync
  <2> QED
    BY <2>3, <2>4 DEF InSync, NothingNew
<1> QED
  BY <1>2, <1>3

LEMMA SlaveVerifyStepSync ==
    ASSUME TypeInv, InSync, SlaveVerify \/ SlaveClearFlag, UNCHANGED MasterCtrl, DeliveredKept
    PROVE  InSync' /\ Coming("slave")' \subseteq Coming("slave")
<1>1. CASE SlaveVerify
  <2>1. PICK state \in {"FLAG_SET", "ERROR"} : SlaveCtrl' = [SlaveCtrl EXCEPT !.State = state]
    BY <1>1 DEF SlaveVerify
  <2>2. SlaveOn'
    BY <2>1, SlaveMove DEF SlaveOn
  <2>3. NothingNew /\ WireInv' /\ PowerInv' /\ UNCHANGED TxFrame
    BY <1>1, <2>2, SlavePops DEF SlaveVerify, PopOnly
  <2>4. SyncInv'
    BY <2>1, <2>3, SlaveOutSync DEF InSync
  <2> QED
    BY <2>3, <2>4 DEF InSync, NothingNew
<1>2. CASE SlaveClearFlag
  <2>1. /\ UNCHANGED uartVars /\ SlaveIn("FLAG_SET")
        /\ SlaveCtrl' = [SlaveCtrl EXCEPT !.State = "FLAG_CLEARED"]
    BY <1>2 DEF SlaveClearFlag
  <2>2. SlaveOn /\ SlaveOn' /\ ~sending["slave"]
    BY <2>1, SlaveMove DEF SlaveOn, SlaveIn, InSync, PowerInv
  <2>3. NothingNew /\ WireInv' /\ UNCHANGED TxFrame
    BY <2>1 DEF uartVars, NothingNew, Coming, InSync, WireInv, LineInv, TxInv
  <2>4. PowerInv'
    BY <2>1, <2>2 DEF uartVars, InSync, PowerInv, MasterOn, MasterWaits
  <2>5. SyncInv'
    BY <2>1, <2>3, SlaveOutSync DEF InSync
  <2> QED
    BY <2>3, <2>4, <2>5 DEF InSync, NothingNew
<1> QED
  BY <1>1, <1>2

LEMMA SlaveStepSync ==
    ASSUME TypeInv, InSync, BuffersIntact, SlaveStep
    PROVE  InSync' /\ Coming("slave")' \subseteq Coming("slave")
<1>1. SlaveLoop /\ UNCHANGED MasterCtrl
  BY DEF SlaveStep
<1>2. CASE SlaveEndReq
  BY <1>2, SlaveEndStep
<1>3. CASE ~SlaveEndReq
  <2>1. ~(SlaveIn("END_READY") /\ SlaveCtrl'.State = "END")
    BY <1>1, <1>3 DEF SlaveLoop, SlaveIdle, SlaveVersionReq, SlaveRepeat, SlaveStartReq, SlaveBlock,
       SlaveRetry, SlaveSent, SlaveVerify, SlaveClearFlag, SlaveReboot, SlaveError, SlaveIn,
       SlaveReset, SlaveBoot, TypeInv, SlaveTypeOK
  <2>2. DeliveredKept
    BY <2>1 DEF SlaveStep, DeliveredKept
  <2>3. CASE SlaveSent
    <3>1. PICK wait \in BOOLEAN : Sent("slave", wait) /\ UNCHANGED SlaveCtrl
      BY <2>3 DEF SlaveSent
    <3>2. NothingNew /\ WireInv' /\ PowerKept("slave") /\ ~sending'["slave"]
      BY <3>1, SentWire DEF TypeInv, InSync
    <3>3. UNCHANGED TxFrame
      BY <3>1 DEF Sent
    <3>4. SyncInv'
      BY <1>1, <2>2, <3>1, <3>2, <3>3, QuietSync DEF InSync, MasterKept, SlaveKept
    <3>5. PowerInv'
      BY <1>1, <3>1, <3>2 DEF InSync, PowerInv, PowerKept, MasterOn, SlaveOn, MasterWaits
    <3> QED
      BY <3>2, <3>4, <3>5 DEF InSync, NothingNew
  <2>4. CASE SlaveReboot \/ SlaveError
    BY <1>1, <2>2, <2>4, SlaveResetSync DEF SlaveReboot, SlaveError, NothingNew
  <2> QED
    BY <1>1, <1>3, <2>2, <2>3, <2>4, SlaveIdleStep, SlaveVersionStep, SlaveRepeatStep, SlaveStartStep,
       SlaveBlockStepSync, SlaveRetryStep, SlaveVerifyStepSync DEF SlaveLoop
<1> QED
  BY <1>2, <1>3
-----------------------------------------------------------------------------
(***************************************************************************)
(* The other steps, and the theorems.                                      *)
(***************************************************************************)

(* When a node is switched on, its peer has read what had come whole. *)
AllReadAtStart ==
    /\ FW_UPDATE_MasterInit => Coming("slave") = {}
    /\ FW_UPDATE_SlaveInit => Coming("master") = {}

LEMMA StillSync ==
    ASSUME InSync, UNCHANGED <<MasterCtrl, SlaveCtrl, uartVars, delivered>>,
           UNCHANGED pressed["master"]
    PROVE  InSync' /\ NothingNew
<1>1. NothingNew /\ WireInv'
  BY DEF uartVars, NothingNew, Coming, InSync, WireInv, LineInv, TxInv
<1>2. PowerInv'
  BY DEF uartVars, InSync, PowerInv, MasterOn, SlaveOn, MasterWaits
<1>3. SyncInv'
  BY <1>1, QuietSync DEF uartVars, InSync, MasterKept, SlaveKept, DeliveredKept
<1> QED
  BY <1>1, <1>2, <1>3 DEF InSync

LEMMA PressMasterSync ==
    ASSUME TypeInv, InSync, PressMaster, AllReadAtStart
    PROVE  InSync' /\ NothingNew
<1>1. UNCHANGED SlaveCtrl /\ UNCHANGED delivered /\ MasterIn("APP") /\ ~uart["master"].on
  BY DEF PressMaster, FW_UPDATE_MasterInit, MasterLowBattery, InSync, PowerInv, MasterOn, MasterIn
<1>2. CASE FW_UPDATE_MasterInit
  <2>1. /\ FW_UPDATE_PHY_Init("master")
        /\ MasterCtrl' = [MasterCtrl EXCEPT !.State = "IDLE"]
    BY <1>2 DEF FW_UPDATE_MasterInit
  <2>2. /\ NothingNew /\ WireInv' /\ UNCHANGED <<TxFrame, sending>>
        /\ uart'["master"].on /\ uart'["slave"] = uart["slave"]
        /\ \A f \in Coming("master")' : f = TxFrame["slave"]
    BY <1>1, <2>1, PhyInitHears, PhyInitWire DEF InSync, WireInv, TypeInv
  <2>3. PowerInv'
    <3>1. MasterCtrl'.State = "IDLE"
      BY <2>1, MasterMove
    <3> QED
      BY <1>1, <2>2, <3>1 DEF InSync, PowerInv, MasterOn, SlaveOn, MasterWaits, MasterIn
  <2>4. SyncInv'
    BY <1>1, <1>2, <2>1, <2>2, MasterOnSync DEF InSync, AllReadAtStart
  <2> QED
    BY <2>2, <2>3, <2>4 DEF InSync
<1>3. CASE MasterLowBattery
  <2>1. UNCHANGED uartVars /\ MasterCtrl' = [MasterCtrl EXCEPT !.State = "LOW_BATT"]
    BY <1>3 DEF MasterLowBattery
  <2>2. NothingNew /\ WireInv' /\ UNCHANGED TxFrame
    BY <2>1 DEF uartVars, NothingNew, Coming, InSync, WireInv, LineInv, TxInv
  <2>3. PowerInv'
    <3>1. MasterCtrl'.State = "LOW_BATT"
      BY <2>1, MasterMove
    <3> QED
      BY <1>1, <2>1, <3>1 DEF uartVars, InSync, PowerInv, MasterOn, SlaveOn, MasterWaits, MasterIn
  <2>4. \A f \in Coming("master")' : f = TxFrame["slave"]
    BY <1>1, <2>1, <2>2, OffComing DEF InSync, WireInv, NothingNew
  <2>5. SyncInv'
    BY <1>1, <2>1, <2>2, <2>4, MasterOffSync DEF InSync
  <2> QED
    BY <2>2, <2>3, <2>5 DEF InSync
<1> QED
  BY <1>2, <1>3 DEF PressMaster

LEMMA PressSlaveSync ==
    ASSUME TypeInv, InSync, PressSlave, AllReadAtStart
    PROVE  InSync' /\ NothingNew
<1>1. /\ UNCHANGED MasterCtrl /\ SlaveIn("APP") /\ ~uart["slave"].on
      /\ DeliveredKept
  <2>1. pressed'["master"] = pressed["master"]
    BY DEF PressSlave, Press, TypeInv
  <2> QED
    BY <2>1 DEF PressSlave, FW_UPDATE_SlaveInit, SlaveLowBattery, InSync, PowerInv, SlaveOn, SlaveIn,
       DeliveredKept
<1>2. CASE FW_UPDATE_SlaveInit
  <2>1. FW_UPDATE_PHY_Init("slave")
    BY <1>2 DEF FW_UPDATE_SlaveInit
  <2>2. /\ NothingNew /\ WireInv' /\ UNCHANGED <<TxFrame, sending>>
        /\ uart'["slave"].on /\ uart'["master"] = uart["master"]
        /\ \A f \in Coming("slave")' : f = TxFrame["master"] /\ uart["master"].tx
    BY <1>1, <2>1, PhyInitHears, PhyInitWire DEF InSync, WireInv, TypeInv
  <2>3. \A f \in Coming("slave")' : f = TxFrame["master"] /\ MasterWaits
    BY <2>2 DEF InSync, WireInv, LineInv, PowerInv
  <2>4. SlaveCtrl'.State = "IDLE" /\ SlaveCtrl'.BlockNum = 0 /\ SlaveCtrl'.PktCRC = << >>
    <3>1. PICK im \in Image :
            SlaveCtrl' = [SlaveBoot EXCEPT !.State = "IDLE", !.FlashAddr = Other(BootBank),
                                           !.FwVersion = Version[im]]
      BY <1>2 DEF FW_UPDATE_SlaveInit
    <3> QED
      BY <3>1 DEF SlaveBoot
  <2>5. PowerInv'
    BY <1>1, <2>2, <2>4 DEF InSync, PowerInv, MasterOn, SlaveOn, MasterWaits, SlaveIn
  <2>6. SyncInv'
    BY <1>1, <1>2, <2>2, <2>3, <2>4, SlaveOnSync DEF InSync, AllReadAtStart
  <2> QED
    BY <2>2, <2>5, <2>6 DEF InSync
<1>3. CASE SlaveLowBattery
  <2>1. UNCHANGED uartVars /\ SlaveCtrl' = [SlaveCtrl EXCEPT !.State = "LOW_BATT"]
    BY <1>3 DEF SlaveLowBattery
  <2>2. NothingNew /\ WireInv' /\ UNCHANGED TxFrame
    BY <2>1 DEF uartVars, NothingNew, Coming, InSync, WireInv, LineInv, TxInv
  <2>3. PowerInv'
    <3>1. SlaveCtrl'.State = "LOW_BATT"
      BY <2>1, SlaveMove
    <3> QED
      BY <1>1, <2>1, <3>1 DEF uartVars, InSync, PowerInv, MasterOn, SlaveOn, MasterWaits, SlaveIn
  <2>4. SyncInv'
    BY <1>1, <2>1, <2>2, SlaveOutSync DEF InSync
  <2> QED
    BY <2>2, <2>3, <2>4 DEF InSync
<1> QED
  BY <1>2, <1>3 DEF PressSlave

LEMMA FailsSync ==
    ASSUME TypeInv, InSync, MasterFails \/ SlaveFails
    PROVE  InSync' /\ NothingNew
<1>1. CASE MasterFails
  BY <1>1, MasterResetSync DEF MasterFails, MasterPowerLoss
<1>2. CASE SlaveFails
  <2>1. SlaveReset /\ UNCHANGED MasterCtrl /\ UNCHANGED delivered
    BY <1>2 DEF SlaveFails, SlavePowerLoss, SlavePowerLossInErase
  <2>2. pressed'["master"] = pressed["master"]
    BY <1>2 DEF SlaveFails, Press, TypeInv
  <2> QED
    BY <2>1, <2>2, SlaveResetSync DEF DeliveredKept
<1> QED
  BY <1>1, <1>2

LEMMA LineSync ==
    ASSUME TypeInv, InSync, \E n \in Node : UartStep(n) \/ TimerStep(n)
    PROVE  InSync' /\ NothingNew
<1>1. PICK n \in Node : UartStep(n) \/ TimerStep(n)
  OBVIOUS
<1>2. /\ NothingNew /\ WireInv' /\ UNCHANGED <<TxFrame, sending>>
      /\ \A m \in Node : uart'[m].on = uart[m].on
  <2>1. CASE UartStep(n)
    BY <2>1, TransmittedWire DEF UartStep, InSync, TypeInv
  <2>2. CASE TimerStep(n)
    BY <2>2, TimerWire DEF TimerStep, InSync, TypeInv, PowerKept
  <2> QED
    BY <1>1, <2>1, <2>2
<1>3. UNCHANGED <<MasterCtrl, SlaveCtrl, pressed, delivered>>
  BY <1>1 DEF UartStep, TimerStep
<1>4. SyncInv'
  BY <1>2, <1>3, QuietSync DEF InSync, MasterKept, SlaveKept, DeliveredKept
<1>5. PowerInv'
  BY <1>2, <1>3 DEF InSync, PowerInv, MasterOn, SlaveOn, MasterWaits
<1> QED
  BY <1>2, <1>4, <1>5 DEF InSync

(* What comes to a node is said by its peer's main loop. *)
LEMMA NextSync ==
    ASSUME TypeInv, InSync, BuffersIntact, [Next]_vars, [AllReadAtStart]_vars
    PROVE  /\ InSync'
           /\ Coming("slave")' \subseteq Coming("slave") \/ MasterStep
           /\ Coming("master")' \subseteq Coming("master") \/ SlaveStep
<1>1. CASE UNCHANGED vars
  <2>1. UNCHANGED <<MasterCtrl, SlaveCtrl, uartVars, delivered>> /\ UNCHANGED pressed["master"]
    BY <1>1 DEF vars
  <2> QED
    BY <2>1, StillSync DEF NothingNew
<1>2. CASE ~UNCHANGED vars
  BY <1>2, PressMasterSync, PressSlaveSync, FailsSync, LineSync, MasterStepSync, SlaveStepSync
  DEF Next, NothingNew
<1> QED
  BY <1>1, <1>2

LEMMA InitSync == Init => InSync
<1> SUFFICES ASSUME Init PROVE InSync
  OBVIOUS
<1>1. /\ \A n \in Node : uart[n] = UartOff /\ TxFrame[n] = NoFrame /\ ~sending[n]
      /\ SlaveCtrl = SlaveBoot /\ delivered = {} /\ MasterIn("APP")
  BY DEF Init, UartInit, SlaveInit, MasterInit, MasterBoot, MasterIn
<1>2. Unread(UartOff) = {} /\ Heard(UartOff) = {} /\ ~UartOff.tx /\ ~UartOff.on
  BY DEF UartOff, Unread, Heard, Queued
<1>3. \A n \in Node : Coming(n) = {}
  BY <1>1, <1>2 DEF Coming
<1>4. WireInv
  <2>1. LineInv
    BY <1>1, <1>2 DEF LineInv
  <2>2. TxInv
    <3>1. ~UartOff.PHY_TxFinished /\ UartOff.irq = {}
      BY DEF UartOff
    <3> QED
      BY <1>1, <1>2, <3>1 DEF TxInv, TxOnce
  <2> QED
    BY <2>1, <2>2 DEF WireInv
<1>5. PowerInv
  BY <1>1, <1>2 DEF PowerInv, MasterOn, SlaveOn, SlaveBoot, MasterIn
<1>6. MasterSync
  BY <1>1, <1>3 DEF MasterSync, MasterPlace, Asks, Requests, MasterIn, Init, MasterInit, MasterBoot
<1>7. SlaveSync
  BY <1>1, <1>3 DEF SlaveSync, SlavePlace, Tells, Replies, SlaveIn, SlaveBoot, SlaveOpens
<1>8. InStep
  BY <1>1 DEF InStep, MasterOn, MasterIn
<1>9. ImageSync
  <2>1. \E im \in Image : TRUE
    BY FactoryAssumption DEF Init, FlashInit
  <2> QED
    BY <1>1, <1>3, <2>1 DEF ImageSync, OneSender, PrefixReceived, EndTold, EndMeansDelivered,
       SentBy, SlaveBoot, MasterIn, SlaveTalks
<1> QED
  BY <1>4, <1>5, <1>6, <1>7, <1>8, <1>9 DEF InSync, SyncInv

LEMMA SyncMeans ==
    ASSUME TypeInv, InSync
    PROVE  BlockSync /\ ReceivedIsSent
<1>1. BlockSync
  <2> SUFFICES ASSUME MasterIn("DATA_ACK_WAIT"), SlaveCtrl.State \in {"DATA_READY", "END_READY"}
               PROVE  SlaveCtrl.BlockNum \in {MasterCtrl.BlockNum - 1, MasterCtrl.BlockNum}
    BY DEF BlockSync
  <2>1. Together
    BY DEF InSync, SyncInv, InStep, MasterOn, SlaveTalks, MasterStranded, SlaveStranded, MasterIn
  <2> QED
    BY <2>1 DEF Together, MasterIn, TypeInv, MasterTypeOK, SlaveTypeOK
<1>2. ReceivedIsSent
  BY DEF InSync, SyncInv, ImageSync, ReceivedIsSent
<1> QED
  BY <1>1, <1>2

LEMMA SyncInvariant ==
    Spec /\ []BuffersIntact /\ [][AllReadAtStart]_vars => [](BlockSync /\ ReceivedIsSent)
<1>1. Init => InSync
  BY InitSync
<1>2. TypeInv /\ InSync /\ BuffersIntact /\ [Next]_vars /\ [AllReadAtStart]_vars => InSync'
  BY NextSync
<1>3. TypeInv /\ InSync => BlockSync /\ ReceivedIsSent
  BY SyncMeans
<1> QED
  BY <1>1, <1>2, <1>3, Invariant, PTL DEF Spec

(* While blocks are exchanged, the master's FW_UPDATE_BlockNum and the slave's
   differ by at most one (fw_update.c), in any number of sessions and whatever
   is lost, spoilt, repeated or crossed, if no unread message is overwritten in
   the ring of receive buffers, which the queue does not prevent, and a node is
   only switched on when its peer has read what had reached it: frames bear no
   mark of their session, so that one left over is taken for a new one. *)
THEOREM FwBlocksInStep ==
    Spec /\ []BuffersIntact /\ [][AllReadAtStart]_vars => []BlockSync
BY SyncInvariant, PTL

(* Under the same conditions the slave only has blocks of one image, and the
   master reports success only if that image was its own and complete: every
   block that FW_UPDATE_MasterStart sent was written in its place. *)
THEOREM FwDeliveredWhatWasSent ==
    Spec /\ []BuffersIntact /\ [][AllReadAtStart]_vars => []ReceivedIsSent
BY SyncInvariant, PTL
-----------------------------------------------------------------------------
(* A node whose button has not been pressed has said nothing. *)
FreshInv ==
    /\ pressed["master"] = 0 => MasterIn("APP") /\ Coming("slave") = {}
    /\ pressed["slave"] = 0 => SlaveIn("APP") /\ Coming("master") = {}

LEMMA InitFresh == Init => FreshInv
<1> SUFFICES ASSUME Init PROVE FreshInv
  OBVIOUS
<1>1. \A n \in Node : uart[n] = UartOff
  BY DEF Init, UartInit
<1>2. Heard(UartOff) = {} /\ ~UartOff.tx
  BY DEF UartOff, Unread, Heard, Queued
<1>3. \A n \in Node : Coming(n) = {}
  BY <1>1, <1>2 DEF Coming
<1> QED
  BY <1>3 DEF FreshInv, Init, MasterInit, MasterBoot, MasterIn, SlaveInit, SlaveBoot, SlaveIn

(* In the application no step but that of the button is taken. *)
LEMMA MasterRests ==
    ASSUME TypeInv, InSync, MasterIn("APP"), [Next]_vars
    PROVE  PressMaster \/ (~MasterStep /\ UNCHANGED MasterCtrl)
<1>1. ~sending["master"]
  BY DEF InSync, PowerInv, MasterIn, MasterWaits
<1>2. ~MasterStep
  BY <1>1 DEF MasterStep, MasterLoop, MasterIdle, MasterVersionRsp, MasterStartRsp, MasterDataAck,
     MasterLastAck, MasterEndRsp, MasterRetry, MasterWaits, MasterSent, Sent, MasterSleep, MasterIn
<1>3. ~MasterFails
  BY DEF MasterFails, MasterPowerLoss
<1> QED
  BY <1>2, <1>3 DEF Next, PressSlave, SlaveStep, SlaveFails, UartStep, TimerStep, vars

LEMMA SlaveRests ==
    ASSUME TypeInv, InSync, SlaveIn("APP"), [Next]_vars
    PROVE  \/ PressSlave
           \/ SlaveIn("APP")' /\ ~SlaveStep /\ (UNCHANGED SlaveCtrl \/ pressed'["slave"] # 0)
<1>1. ~sending["slave"]
  BY DEF InSync, PowerInv, SlaveIn
<1>2. ~SlaveStep
  BY <1>1 DEF SlaveStep, SlaveLoop, SlaveIdle, SlaveVersionReq, SlaveRepeat, SlaveStartReq, SlaveBlock,
     SlaveEndReq, SlaveRetry, SlaveWaits, SlaveSent, Sent, SlaveVerify, SlaveClearFlag, SlaveReboot,
     SlaveError, SlaveIn
<1>3. SlaveFails => SlaveIn("APP")' /\ pressed'["slave"] # 0
  BY FwPressAssumption DEF SlaveFails, SlavePowerLoss, SlavePowerLossInErase, SlaveReset, SlaveBoot,
     SlaveIn, Press, TypeInv
<1> QED
  BY <1>2, <1>3 DEF Next, PressMaster, MasterStep, MasterFails, UartStep, TimerStep, vars, SlaveIn

LEMMA PressedGrows ==
    ASSUME TypeInv, [Next]_vars
    PROVE  /\ \A n \in Node : pressed'[n] = 0 => pressed[n] = 0
           /\ PressMaster => pressed'["master"] # 0
           /\ PressSlave => pressed'["slave"] # 0
BY FwPressAssumption DEF Next, PressMaster, PressSlave, MasterStep, SlaveStep, MasterFails, SlaveFails,
   UartStep, TimerStep, vars, Press, TypeInv

LEMMA NextFresh ==
    ASSUME MaxPress = 1, TypeInv, InSync, FreshInv, BuffersIntact, [Next]_vars
    PROVE  [AllReadAtStart]_vars /\ FreshInv'
<1>1. [AllReadAtStart]_vars
  <2> SUFFICES ASSUME ~UNCHANGED vars PROVE AllReadAtStart
    OBVIOUS
  <2>1. ASSUME FW_UPDATE_MasterInit PROVE Coming("slave") = {}
    <3>1. PressMaster
      <4>1. MasterIn("APP") /\ MasterCtrl' = [MasterCtrl EXCEPT !.State = "IDLE"]
        BY <2>1 DEF FW_UPDATE_MasterInit
      <4>2. MasterCtrl' # MasterCtrl
        BY <4>1, MasterMove DEF MasterIn
      <4> QED
        BY <4>1, <4>2, MasterRests
    <3>2. pressed["master"] = 0
      BY <3>1 DEF PressMaster, Press, TypeInv
    <3> QED
      BY <3>2 DEF FreshInv
  <2>2. ASSUME FW_UPDATE_SlaveInit PROVE Coming("master") = {}
    <3>1. PressSlave
      <4>1. SlaveIn("APP") /\ SlaveCtrl'.State = "IDLE"
        BY <2>2 DEF FW_UPDATE_SlaveInit, SlaveBoot
      <4> QED
        BY <4>1, SlaveRests DEF SlaveIn
    <3>2. pressed["slave"] = 0
      BY <3>1 DEF PressSlave, Press, TypeInv
    <3> QED
      BY <3>2 DEF FreshInv
  <2> QED
    BY <2>1, <2>2 DEF AllReadAtStart
<1>2. /\ Coming("slave")' \subseteq Coming("slave") \/ MasterStep
      /\ Coming("master")' \subseteq Coming("master") \/ SlaveStep
  BY <1>1, NextSync
<1>3. ASSUME pressed'["master"] = 0 PROVE MasterIn("APP")' /\ Coming("slave")' = {}
  <2>1. pressed["master"] = 0 /\ ~PressMaster
    BY <1>3, PressedGrows
  <2>2. ~MasterStep /\ UNCHANGED MasterCtrl
    BY <2>1, MasterRests DEF FreshInv
  <2> QED
    BY <1>2, <2>1, <2>2 DEF FreshInv, MasterIn
<1>4. ASSUME pressed'["slave"] = 0 PROVE SlaveIn("APP")' /\ Coming("master")' = {}
  <2>1. pressed["slave"] = 0 /\ ~PressSlave
    BY <1>4, PressedGrows
  <2>2. ~SlaveStep /\ SlaveIn("APP")'
    BY <2>1, SlaveRests DEF FreshInv
  <2> QED
    BY <1>2, <2>1, <2>2 DEF FreshInv, SlaveIn
<1> QED
  BY <1>1, <1>3, <1>4 DEF FreshInv

(* In the first session of each node nothing can be left over. *)
LEMMA FirstSessions ==
    ASSUME MaxPress = 1
    PROVE  Spec /\ []BuffersIntact => [](BlockSync /\ ReceivedIsSent)
<1>1. Init => InSync /\ FreshInv
  BY InitSync, InitFresh
<1>2. TypeInv /\ InSync /\ FreshInv /\ BuffersIntact /\ [Next]_vars => InSync' /\ FreshInv'
  BY NextSync, NextFresh
<1>3. TypeInv /\ InSync => BlockSync /\ ReceivedIsSent
  BY SyncMeans
<1> QED
  BY <1>1, <1>2, <1>3, Invariant, PTL DEF Spec
-----------------------------------------------------------------------------
(***************************************************************************)
(* The ring of three receive buffers.  A message is spoilt when the DMA    *)
(* fills its buffer a second time, three frames later.  What a node has to *)
(* read and to receive, its load, grows only with a session of the master, *)
(* a timeout that comes too early or an interrupt that a held button       *)
(* swallows; when these are few no message waits for so long.              *)
(***************************************************************************)

(* How often the DMA has moved on since it left buffer b, if less than three
   times; and what a node has to read, or has on the line. *)
Gap(b, p) == IF p > b THEN p - b - 1 ELSE p - b + 2

Pending(u) == IF "RX" \in u.irq THEN 1 ELSE 0

Busy(u) == IF u.tx THEN 1 ELSE 0

Load(u) == Len(u.MsgQueue) + Busy(u) + Pending(u)

RingOK(u) ==
    \A i \in 1 .. Len(u.MsgQueue) : u.MsgQueue[i].Type = "DATA" =>
        /\ u.PHY_RxBuf[u.MsgQueue[i].Buf].Ok
        /\ Gap(u.MsgQueue[i].Buf, u.PHY_RxPtr) <= Len(u.MsgQueue) - i

(* The sessions of the master that have sent their first frame. *)
Sessions == pressed["master"] - (IF MasterIn("IDLE") THEN 1 ELSE 0)

LoadInv ==
    /\ \A n \in Node : RingOK(uart[n])
    /\ Load(uart["master"]) + Load(uart["slave"]) <= 1 + held + late + Sessions
    /\ Pending(uart["master"]) + Pending(uart["slave"]) <= held
    /\ MasterIn("IDLE") => pressed["master"] # 0

LEMMA LoadType ==
    ASSUME NEW u \in GoodUart
    PROVE  /\ Load(u) \in Nat /\ Pending(u) \in 0 .. 1 /\ Busy(u) \in 0 .. 1
           /\ Len(u.MsgQueue) \in 0 .. 4
           /\ u.MsgQueue \in Seq(Message) /\ u.PHY_RxPtr \in 0 .. 2
           /\ \A i \in 1 .. Len(u.MsgQueue) : u.MsgQueue[i] \in Message
           /\ \A m \in Message : m.Buf \in 0 .. 2
<1>1. u.MsgQueue \in Seq(Message) /\ Len(u.MsgQueue) <= 4 /\ u.PHY_RxPtr \in 0 .. 2
  BY DEF GoodUart, Uart, MSG_QUEUE_LEN, PHY_RX_BUF_NUM
<1>2. Len(u.MsgQueue) \in 0 .. 4
  <2> DEFINE len == Len(u.MsgQueue)
  <2>1. len \in Nat /\ len <= 4
    BY <1>1
  <2> HIDE DEF len
  <2>2. len \in 0 .. 4
    BY <2>1
  <2> QED
    BY <2>2 DEF len
<1>3. Pending(u) \in 0 .. 1 /\ Busy(u) \in 0 .. 1
  BY DEF Pending, Busy
<1>4. Load(u) \in Nat
  BY <1>2, <1>3 DEF Load
<1>5. \A i \in 1 .. Len(u.MsgQueue) : u.MsgQueue[i] \in Message
  BY <1>1
<1>6. \A m \in Message : m.Buf \in 0 .. 2
  BY DEF Message, PHY_RX_BUF_NUM
<1> QED
  BY <1>1, <1>2, <1>3, <1>4, <1>5, <1>6

(* One message less. *)
LEMMA PoppedLoad ==
    ASSUME NEW u \in GoodUart, RingOK(u)
    PROVE  LET v == Popped(u) IN
           /\ v \in GoodUart /\ RingOK(v) /\ Load(v) <= Load(u) /\ Pending(v) = Pending(u)
           /\ u.MsgQueue # << >> => Load(v) = Load(u) - 1
           /\ v.tx = u.tx
<1> DEFINE v == Popped(u)
           q == IF u.MsgQueue = << >> THEN u.MsgQueue ELSE Tail(u.MsgQueue)
<1>0. v \in GoodUart
  BY PoppedType
<1>1. v = [u EXCEPT !.MsgQueue = q]
  BY DEF Popped
<1> HIDE DEF q
<1>2. /\ v.MsgQueue = q /\ v.irq = u.irq /\ v.PHY_RxPtr = u.PHY_RxPtr /\ v.PHY_RxBuf = u.PHY_RxBuf
      /\ v.tx = u.tx
  BY <1>1 DEF GoodUart, Uart
<1> HIDE DEF v
<1>3. u.MsgQueue \in Seq(Message)
  BY LoadType
<1>4. CASE u.MsgQueue = << >>
  BY <1>0, <1>2, <1>4 DEF q, v, RingOK, Load, Pending, Busy
<1>5. CASE u.MsgQueue # << >>
  <2>1. /\ Len(q) = Len(u.MsgQueue) - 1
        /\ \A i \in 1 .. Len(q) : q[i] = u.MsgQueue[i + 1] /\ i + 1 \in 1 .. Len(u.MsgQueue)
    BY <1>3, <1>5 DEF q
  <2>2. Pending(v) = Pending(u) /\ Load(v) = Load(u) - 1
    BY <1>2, <2>1, LoadType DEF Load, Pending, Busy
  <2>3. RingOK(v)
    <3> SUFFICES ASSUME NEW i \in 1 .. Len(q), q[i].Type = "DATA"
                 PROVE  /\ u.PHY_RxBuf[q[i].Buf].Ok
                        /\ Gap(q[i].Buf, u.PHY_RxPtr) <= Len(q) - i
      BY <1>2 DEF RingOK
    <3>1. /\ u.PHY_RxBuf[q[i].Buf].Ok
          /\ Gap(q[i].Buf, u.PHY_RxPtr) <= Len(u.MsgQueue) - (i + 1)
      BY <2>1 DEF RingOK
    <3>2. Len(u.MsgQueue) - (i + 1) = Len(q) - i
      BY <2>1, LoadType
    <3> QED
      BY <3>1, <3>2
  <2>4. Load(v) <= Load(u)
    BY <2>2, LoadType
  <2> QED
    BY <1>0, <1>2, <2>2, <2>3, <2>4 DEF v
<1> QED
  BY <1>4, <1>5

(* One message more, from the buffer that the DMA leaves or from the timer. *)
LEMMA PushRing ==
    ASSUME NEW u \in GoodUart, RingOK(u), Len(u.MsgQueue) < 4, NEW msg \in Message, NEW v \in GoodUart,
           v.MsgQueue = Append(u.MsgQueue, msg), v.PHY_RxBuf = u.PHY_RxBuf,
           \/ v.PHY_RxPtr = u.PHY_RxPtr /\ msg.Type # "DATA"
           \/ /\ v.PHY_RxPtr = (u.PHY_RxPtr + 1) % 3
              /\ msg.Type = "DATA" => msg.Buf = u.PHY_RxPtr /\ u.PHY_RxBuf[u.PHY_RxPtr].Ok
    PROVE  RingOK(v)
<1>1. u.MsgQueue \in Seq(Message) /\ Len(v.MsgQueue) = Len(u.MsgQueue) + 1
  BY LoadType
<1> SUFFICES ASSUME NEW i \in 1 .. Len(v.MsgQueue), v.MsgQueue[i].Type = "DATA"
             PROVE  /\ u.PHY_RxBuf[v.MsgQueue[i].Buf].Ok
                    /\ Gap(v.MsgQueue[i].Buf, v.PHY_RxPtr) <= Len(v.MsgQueue) - i
  BY DEF RingOK
<1>2. CASE i = Len(v.MsgQueue)
  <2>1. v.MsgQueue[i] = msg
    BY <1>1, <1>2
  <2>2. Gap(u.PHY_RxPtr, (u.PHY_RxPtr + 1) % 3) = 0
    BY LoadType DEF Gap
  <2> QED
    BY <1>1, <1>2, <2>1, <2>2, LoadType
<1>3. CASE i # Len(v.MsgQueue)
  <2>1. v.MsgQueue[i] = u.MsgQueue[i] /\ i \in 1 .. Len(u.MsgQueue)
    BY <1>1, <1>3, LoadType
  <2> DEFINE b == u.MsgQueue[i].Buf
  <2>2. b \in 0 .. 2 /\ u.PHY_RxPtr \in 0 .. 2
    BY <2>1, LoadType
  <2>3. u.PHY_RxBuf[b].Ok /\ Gap(b, u.PHY_RxPtr) <= Len(u.MsgQueue) - i
    BY <2>1 DEF RingOK
  <2> HIDE DEF b
  <2>4. Gap(b, v.PHY_RxPtr) <= Gap(b, u.PHY_RxPtr) + 1
    BY <2>2 DEF Gap
  <2>5. Gap(b, v.PHY_RxPtr) \in Int /\ Gap(b, u.PHY_RxPtr) \in Int
    BY <2>2 DEF Gap
  <2> QED
    BY <1>1, <2>1, <2>3, <2>4, <2>5, LoadType DEF b
<1> QED
  BY <1>2, <1>3

LEMMA ServedLoad ==
    ASSUME NEW u \in GoodUart, RingOK(u), Len(u.MsgQueue) < 4
    PROVE  LET v == irq_handler(u) IN
           /\ v \in GoodUart /\ RingOK(v) /\ Load(v) <= Load(u) /\ Pending(v) = 0
<1> DEFINE msg == IF u.PHY_RxBuf[u.PHY_RxPtr].Ok
                  THEN [Type |-> "DATA", Buf |-> u.PHY_RxPtr]
                  ELSE INVALID_DATA
           rx == IF "RX" \in u.irq THEN RxIrqHandler(u) ELSE u
           tx == IF "TX" \in u.irq THEN TxIrqHandler(rx) ELSE rx
           v == irq_handler(u)
<1>1. /\ msg \in Message
      /\ msg.Type = "DATA" => msg.Buf = u.PHY_RxPtr /\ u.PHY_RxBuf[u.PHY_RxPtr].Ok
  BY LoadType DEF Message, INVALID_DATA, PHY_RX_BUF_NUM
<1>2. /\ RxIrqHandler(u) \in GoodUart
      /\ RxIrqHandler(u).MsgQueue = Append(u.MsgQueue, msg)
      /\ RxIrqHandler(u).PHY_RxPtr = (u.PHY_RxPtr + 1) % 3
      /\ RxIrqHandler(u).PHY_RxBuf = u.PHY_RxBuf /\ RxIrqHandler(u).tx = u.tx
  <2>1. Push(u.MsgQueue, msg) = Append(u.MsgQueue, msg)
    BY DEF Push, MSG_QUEUE_LEN
  <2>2. RxIrqHandler(u) = [u EXCEPT !.PHY_RxPtr = (u.PHY_RxPtr + 1) % 3,
                                    !.MsgQueue = Append(u.MsgQueue, msg)]
    BY <2>1 DEF RxIrqHandler, PHY_RX_BUF_NUM
  <2> HIDE DEF msg
  <2> QED
    BY <2>2, RxIrqType DEF GoodUart, Uart
<1> HIDE DEF msg
<1>3. /\ rx \in GoodUart /\ RingOK(rx) /\ rx.tx = u.tx
      /\ Len(rx.MsgQueue) <= Len(u.MsgQueue) + Pending(u)
  <2>1. CASE "RX" \in u.irq
    <3>1. RingOK(RxIrqHandler(u))
      BY <1>1, <1>2, PushRing
    <3>2. Len(RxIrqHandler(u).MsgQueue) = Len(u.MsgQueue) + 1
      BY <1>2, LoadType
    <3> QED
      BY <1>2, <2>1, <3>1, <3>2, LoadType DEF Pending
  <2>2. CASE "RX" \notin u.irq
    BY <2>2, LoadType DEF Pending
  <2> QED
    BY <2>1, <2>2
<1> HIDE DEF rx
<1>4. /\ tx \in GoodUart /\ tx.MsgQueue = rx.MsgQueue /\ tx.tx = rx.tx
      /\ tx.PHY_RxPtr = rx.PHY_RxPtr /\ tx.PHY_RxBuf = rx.PHY_RxBuf
  BY <1>3 DEF TxIrqHandler, GoodUart, Uart
<1>5. v = [tx EXCEPT !.irq = {}]
  BY DEF irq_handler, rx
<1> HIDE DEF tx, v
<1>6. /\ v \in GoodUart /\ v.MsgQueue = rx.MsgQueue /\ v.tx = u.tx /\ v.irq = {}
      /\ v.PHY_RxPtr = rx.PHY_RxPtr /\ v.PHY_RxBuf = rx.PHY_RxBuf
  BY <1>3, <1>4, <1>5 DEF GoodUart, Uart
<1>7. RingOK(v)
  BY <1>3, <1>6 DEF RingOK
<1>8. Pending(v) = 0
  BY <1>6 DEF Pending
<1>9. Load(v) <= Load(u)
  <2>1. Load(v) = Len(rx.MsgQueue) + Busy(u)
    <3>1. Busy(v) = Busy(u)
      BY <1>6 DEF Busy
    <3> QED
      BY <1>3, <1>6, <1>8, <3>1, LoadType DEF Load
  <2>2. /\ Len(rx.MsgQueue) \in Int /\ Busy(u) \in Int /\ Len(u.MsgQueue) \in Int
        /\ Pending(u) \in Int
    BY <1>3, LoadType
  <2> QED
    BY <1>3, <2>1, <2>2 DEF Load
<1> QED
  BY <1>6, <1>7, <1>8, <1>9 DEF v

LEMMA InterruptLoad ==
    ASSUME NEW u \in GoodUart, RingOK(u), Len(u.MsgQueue) < 4,
           NEW channel \in {"RX", "TX"}, NEW swallow \in BOOLEAN
    PROVE  LET v == Interrupt(u, channel, swallow)
               one == IF channel = "RX" THEN 1 ELSE 0 IN
           /\ RingOK(v) /\ Load(v) <= Load(u) + one
           /\ Pending(v) <= Pending(u) + (IF swallow THEN one ELSE 0)
           /\ Load(v) \in Nat /\ Pending(v) \in 0 .. 1
<1> DEFINE raised == [u EXCEPT !.irq = u.irq \cup {channel}]
           one == IF channel = "RX" THEN 1 ELSE 0
<1>1. /\ raised \in GoodUart /\ raised.tx = u.tx /\ raised.irq = u.irq \cup {channel}
      /\ raised.MsgQueue = u.MsgQueue /\ raised.PHY_RxPtr = u.PHY_RxPtr
      /\ raised.PHY_RxBuf = u.PHY_RxBuf
  BY DEF GoodUart, Uart
<1>2. Interrupt(u, channel, swallow) = IF swallow THEN raised ELSE irq_handler(raised)
  BY DEF Interrupt
<1> HIDE DEF raised
<1>3. RingOK(raised) /\ Pending(raised) <= Pending(u) + one /\ Len(raised.MsgQueue) < 4
  BY <1>1 DEF RingOK, Pending
<1>4. Load(raised) <= Load(u) + one
  <2>1. Load(raised) = Len(u.MsgQueue) + Busy(u) + Pending(raised)
    BY <1>1 DEF Load, Busy
  <2>2. /\ Len(u.MsgQueue) \in Int /\ Busy(u) \in Int /\ Pending(u) \in Int
        /\ Pending(raised) \in Int /\ one \in Int
    BY <1>1, LoadType
  <2> QED
    BY <1>3, <2>1, <2>2 DEF Load
<1>5. /\ irq_handler(raised) \in GoodUart /\ RingOK(irq_handler(raised))
      /\ Load(irq_handler(raised)) <= Load(raised) /\ Pending(irq_handler(raised)) = 0
  BY <1>1, <1>3, ServedLoad
<1>6. /\ Load(u) \in Nat /\ Load(raised) \in Nat /\ Load(irq_handler(raised)) \in Nat
      /\ Pending(u) \in 0 .. 1 /\ Pending(raised) \in 0 .. 1
  BY <1>1, <1>5, LoadType
<1>7. CASE swallow
  BY <1>2, <1>3, <1>4, <1>6, <1>7
<1>8. CASE ~swallow
  BY <1>2, <1>4, <1>5, <1>6, <1>8
<1> QED
  BY <1>7, <1>8

(* The DMA fills a buffer that no message points to. *)
LEMMA FillLoad ==
    ASSUME NEW u \in GoodUart, RingOK(u), Len(u.MsgQueue) <= 2, NEW f \in GoodFrame
    PROVE  LET v == Fill(u, f) IN
           /\ v \in GoodUart /\ RingOK(v) /\ Load(v) = Load(u) /\ Pending(v) = Pending(u)
           /\ Len(v.MsgQueue) <= 2
<1> DEFINE v == Fill(u, f)
           buf == [u.PHY_RxBuf EXCEPT ![u.PHY_RxPtr] = f]
<1>1. v \in GoodUart
  BY FillType
<1>2. v = [u EXCEPT !.PHY_RxBuf = buf]
  BY DEF Fill
<1> HIDE DEF buf, v
<1>3. /\ v.MsgQueue = u.MsgQueue /\ v.PHY_RxBuf = buf /\ v.tx = u.tx
      /\ v.PHY_RxPtr = u.PHY_RxPtr /\ v.irq = u.irq
  BY <1>2 DEF GoodUart, Uart
<1>4. RingOK(v)
  <2> SUFFICES ASSUME NEW i \in 1 .. Len(u.MsgQueue), u.MsgQueue[i].Type = "DATA"
               PROVE  /\ buf[u.MsgQueue[i].Buf].Ok
                      /\ Gap(u.MsgQueue[i].Buf, u.PHY_RxPtr) <= Len(u.MsgQueue) - i
    BY <1>3 DEF RingOK
  <2> DEFINE b == u.MsgQueue[i].Buf
  <2>1. u.PHY_RxBuf[b].Ok /\ Gap(b, u.PHY_RxPtr) <= Len(u.MsgQueue) - i
    BY DEF RingOK
  <2>2. b \in 0 .. 2 /\ u.PHY_RxPtr \in 0 .. 2 /\ Len(u.MsgQueue) \in 0 .. 4
    BY LoadType
  <2> HIDE DEF b
  <2>3. b # u.PHY_RxPtr
    BY <2>1, <2>2 DEF Gap
  <2>4. buf[b] = u.PHY_RxBuf[b]
    BY <2>2, <2>3 DEF buf, GoodUart, Uart, PHY_RX_BUF_NUM
  <2> QED
    BY <2>1, <2>4 DEF b
<1>5. Load(v) = Load(u) /\ Pending(v) = Pending(u)
  BY <1>3 DEF Load, Pending, Busy
<1> QED
  BY <1>1, <1>3, <1>4, <1>5 DEF v

(* Sessions of the master, early timeouts and swallowed interrupts are what adds
   a frame to those under way. *)
FewTimes == MaxPress + MaxLate + MaxHeld <= 2

(* n's step loads the line by more at most, and swallows no interrupt. *)
Loads(n, more) ==
    /\ uart'[Peer(n)] = uart[Peer(n)]
    /\ RingOK(uart'[n])
    /\ Load(uart'[n]) <= Load(uart[n]) + more
    /\ Pending(uart'[n]) <= Pending(uart[n])
    /\ UNCHANGED held

LEMMA FewLoaded ==
    ASSUME FewTimes, TypeInv, LoadInv
    PROVE  /\ Load(uart["master"]) + Load(uart["slave"]) <= 3
           /\ \A n \in Node : uart[n] \in GoodUart /\ Load(uart[n]) \in Nat
                              /\ Load(uart[n]) <= 3 /\ Len(uart[n].MsgQueue) <= 3
           /\ pressed["master"] \in Nat /\ Sessions \in Nat /\ held \in Nat /\ late \in Nat
<1>1. /\ pressed["master"] \in 0 .. MaxPress /\ held \in 0 .. MaxHeld /\ late \in 0 .. MaxLate
      /\ MaxPress \in Nat /\ MaxHeld \in Nat /\ MaxLate \in Nat
  BY FwPressAssumption, FwBoundAssumption DEF TypeInv, UartInv
<1>2. Sessions \in Nat /\ Sessions <= MaxPress
  BY <1>1 DEF Sessions, LoadInv
<1>3. /\ \A n \in Node : uart[n] \in GoodUart /\ Load(uart[n]) \in Nat
      /\ \A n \in Node : Len(uart[n].MsgQueue) <= Load(uart[n])
  <2> SUFFICES ASSUME NEW n \in Node
               PROVE  /\ uart[n] \in GoodUart /\ Load(uart[n]) \in Nat
                      /\ Len(uart[n].MsgQueue) <= Load(uart[n])
    OBVIOUS
  <2>1. uart[n] \in GoodUart
    BY DEF TypeInv, UartInv
  <2>2. Len(uart[n].MsgQueue) \in 0 .. 4 /\ Busy(uart[n]) \in 0 .. 1 /\ Pending(uart[n]) \in 0 .. 1
    BY <2>1, LoadType
  <2> QED
    BY <2>1, <2>2, LoadType DEF Load
<1>4. Load(uart["master"]) + Load(uart["slave"]) <= 1 + held + late + Sessions
  BY DEF LoadInv
<1>5. 1 + held + late + Sessions <= 3
  BY <1>1, <1>2 DEF FewTimes
<1>6. Load(uart["master"]) + Load(uart["slave"]) <= 3
  BY <1>1, <1>2, <1>3, <1>4, <1>5
<1>7. \A n \in Node : Load(uart[n]) <= 3
  BY <1>3, <1>6
<1>8. \A n \in Node : Len(uart[n].MsgQueue) <= 3
  <2> TAKE n \in Node
  <2>1. Len(uart[n].MsgQueue) \in 0 .. 4
    BY LoadType DEF TypeInv, UartInv
  <2> QED
    BY <1>3, <1>7, <2>1
<1> QED
  BY <1>1, <1>2, <1>3, <1>6, <1>7, <1>8

LEMMA LoadsKeep ==
    ASSUME FewTimes, TypeInv, TypeInv', LoadInv, NEW n \in Node, NEW more \in 0 .. 1, Loads(n, more),
           more = 1 => late' + Sessions' >= late + Sessions + 1,
           late' + Sessions' >= late + Sessions,
           MasterIn("IDLE")' => pressed'["master"] # 0
    PROVE  LoadInv'
<1> DEFINE p == Peer(n)
<1>1. /\ \A m \in Node : Load(uart[m]) \in Nat /\ Pending(uart[m]) \in Nat
      /\ \A m \in Node : Load(uart'[m]) \in Nat /\ Pending(uart'[m]) \in Nat
  <2>1. \A m \in Node : uart[m] \in GoodUart /\ uart'[m] \in GoodUart
    BY DEF TypeInv, UartInv
  <2> QED
    BY <2>1, LoadType
<1>2. /\ pressed["master"] \in Nat /\ pressed'["master"] \in Nat
      /\ held \in Nat /\ late \in Nat /\ late' \in Nat
  BY FwPressAssumption, FwBoundAssumption DEF TypeInv, UartInv
<1>3. Sessions \in Int /\ Sessions' \in Int
  BY <1>2 DEF Sessions
<1>4. /\ Load(uart'[n]) + Load(uart'[p]) <= Load(uart[n]) + Load(uart[p]) + more
      /\ Pending(uart'[n]) + Pending(uart'[p]) <= Pending(uart[n]) + Pending(uart[p])
  BY <1>1 DEF Loads
<1>5. /\ Load(uart[n]) + Load(uart[p]) <= 1 + held + late + Sessions
      /\ Pending(uart[n]) + Pending(uart[p]) <= held
  BY <1>1 DEF LoadInv
<1>6. /\ Load(uart'[n]) + Load(uart'[p]) <= 1 + held + late' + Sessions'
      /\ Pending(uart'[n]) + Pending(uart'[p]) <= held
  <2>1. p \in Node
    OBVIOUS
  <2> HIDE DEF p
  <2>2. /\ Load(uart[n]) \in Nat /\ Load(uart[p]) \in Nat
        /\ Pending(uart[n]) \in Nat /\ Pending(uart[p]) \in Nat
        /\ Load(uart'[n]) \in Nat /\ Load(uart'[p]) \in Nat
        /\ Pending(uart'[n]) \in Nat /\ Pending(uart'[p]) \in Nat
    BY <1>1, <2>1
  <2> DEFINE a == late + Sessions
             b == late' + Sessions'
             x == Load(uart[n]) + Load(uart[p])
             y == Load(uart'[n]) + Load(uart'[p])
  <2>3. a \in Int /\ b \in Int /\ x \in Int /\ y \in Int
    BY <1>2, <1>3, <2>2
  <2>4. x <= 1 + held + a /\ y <= x + more
    BY <1>2, <1>3, <1>4, <1>5, <2>2
  <2>5. b >= a /\ (more = 1 => b >= a + 1)
    BY <1>2, <1>3
  <2>6. y <= 1 + held + b => y <= 1 + held + late' + Sessions'
    BY <1>2, <1>3
  <2> HIDE DEF a, b, x, y
  <2>7. ASSUME more = 0 PROVE y <= 1 + held + b
    BY <1>2, <2>3, <2>4, <2>5, <2>7
  <2>8. ASSUME more = 1 PROVE y <= 1 + held + b
    BY <1>2, <2>3, <2>4, <2>5, <2>8
  <2>9. y <= 1 + held + b
    BY <2>7, <2>8
  <2>10. Load(uart'[n]) + Load(uart'[p]) <= 1 + held + late' + Sessions'
    BY <2>6, <2>9 DEF y
  <2>11. Pending(uart'[n]) + Pending(uart'[p]) <= held
    BY <1>2, <1>4, <1>5, <2>2
  <2> QED
    BY <2>10, <2>11
<1>7. /\ Load(uart'["master"]) + Load(uart'["slave"]) <= 1 + held + late' + Sessions'
      /\ Pending(uart'["master"]) + Pending(uart'["slave"]) <= held
  BY <1>1, <1>6
<1>8. \A m \in Node : RingOK(uart'[m])
  BY DEF Loads, LoadInv
<1> QED
  BY <1>7, <1>8 DEF LoadInv, Loads

LEMMA SendLoads ==
    ASSUME TypeInv, LoadInv, NEW n \in Node, NEW frame, Send(n, frame)
    PROVE  Loads(n, 1) /\ (GotMsg(n) => Loads(n, 0)) /\ UNCHANGED late
<1> DEFINE p == Popped(uart[n])
           u == [p EXCEPT !.tx = TRUE]
<1>1. /\ uart[n] \in GoodUart /\ p \in GoodUart /\ RingOK(p) /\ Load(p) <= Load(uart[n])
      /\ Pending(p) = Pending(uart[n])
      /\ uart[n].MsgQueue # << >> => Load(p) = Load(uart[n]) - 1
  BY PoppedLoad DEF TypeInv, UartInv, LoadInv
<1>2. uart' = [uart EXCEPT ![n] = u] /\ UNCHANGED <<held, late>>
  BY DEF Send
<1> HIDE DEF p
<1>3. /\ u \in GoodUart
      /\ u.tx /\ u.MsgQueue = p.MsgQueue /\ u.irq = p.irq
      /\ u.PHY_RxPtr = p.PHY_RxPtr /\ u.PHY_RxBuf = p.PHY_RxBuf
  BY <1>1 DEF GoodUart, Uart
<1> HIDE DEF u
<1>4. RingOK(u) /\ Pending(u) = Pending(p)
  BY <1>1, <1>3 DEF RingOK, Pending
<1>5. Load(u) <= Load(p) + 1
  <2>1. /\ Load(u) = Len(p.MsgQueue) + Busy(u) + Pending(p)
        /\ Load(p) = Len(p.MsgQueue) + Busy(p) + Pending(p)
    BY <1>3, <1>4 DEF Load
  <2>2. /\ Len(p.MsgQueue) \in Int /\ Busy(u) \in 0 .. 1 /\ Busy(p) \in 0 .. 1 /\ Pending(p) \in Int
    BY <1>1, <1>3, LoadType
  <2> QED
    BY <2>1, <2>2
<1>6. Load(u) \in Nat /\ Load(p) \in Nat /\ Load(uart[n]) \in Nat /\ Pending(uart[n]) \in Nat
  BY <1>1, <1>3, LoadType
<1>7. uart'[n] = u /\ uart'[Peer(n)] = uart[Peer(n)]
  BY <1>2 DEF TypeInv, UartInv
<1> QED
  BY <1>1, <1>2, <1>4, <1>5, <1>6, <1>7 DEF Loads, GotMsg, MsgQueue

(* A step after which n's queue, line and requests are no more than before. *)
LEMMA SameLoads ==
    ASSUME TypeInv, LoadInv, NEW n \in Node, NEW u,
           \/ u = Popped(uart[n])
           \/ u = [uart[n] EXCEPT !.PHY_TxFinished = FALSE]
           \/ u = [uart[n] EXCEPT !.on = TRUE]
           \/ u = UartOff,
           uart' = [uart EXCEPT ![n] = u], UNCHANGED held
    PROVE  Loads(n, 0)
<1>1. uart[n] \in GoodUart /\ RingOK(uart[n])
  BY DEF TypeInv, UartInv, LoadInv
<1>2. Load(uart[n]) \in Nat /\ Pending(uart[n]) \in Nat
  BY <1>1, LoadType
<1>3. RingOK(u) /\ Load(u) <= Load(uart[n]) + 0 /\ Pending(u) <= Pending(uart[n])
  <2>1. CASE u = Popped(uart[n])
    <3>1. Popped(uart[n]) \in GoodUart
      BY <1>1, PoppedType
    <3>2. Load(u) \in Nat
      BY <2>1, <3>1, LoadType
    <3> QED
      BY <1>1, <1>2, <2>1, <3>2, PoppedLoad
  <2>2. CASE u = UartOff
    <3>1. UartOff.MsgQueue = << >> /\ UartOff.irq = {} /\ ~UartOff.tx
      BY DEF UartOff
    <3>2. Load(UartOff) = 0 /\ Pending(UartOff) = 0 /\ RingOK(UartOff)
      BY <3>1 DEF Load, Pending, Busy, RingOK
    <3> QED
      BY <1>2, <2>2, <3>2
  <2>3. CASE \/ u = [uart[n] EXCEPT !.PHY_TxFinished = FALSE]
             \/ u = [uart[n] EXCEPT !.on = TRUE]
    <3>1. /\ u.MsgQueue = uart[n].MsgQueue /\ u.irq = uart[n].irq /\ u.tx = uart[n].tx
          /\ u.PHY_RxPtr = uart[n].PHY_RxPtr /\ u.PHY_RxBuf = uart[n].PHY_RxBuf
      BY <1>1, <2>3 DEF GoodUart, Uart
    <3>2. RingOK(u)
      BY <1>1, <3>1 DEF RingOK
    <3>3. Load(u) = Load(uart[n]) /\ Pending(u) = Pending(uart[n])
      BY <3>1 DEF Load, Pending, Busy
    <3> QED
      BY <1>2, <3>2, <3>3
  <2> QED
    BY <2>1, <2>2, <2>3
<1>4. uart'[n] = u /\ uart'[Peer(n)] = uart[Peer(n)]
  BY DEF TypeInv, UartInv
<1> QED
  BY <1>3, <1>4 DEF Loads

(* A timer that fires in silence finds nothing to read. *)
LEMMA TimerLoads ==
    ASSUME FewTimes, TypeInv, TypeInv', LoadInv, NEW n \in Node, TimerFires(n),
           UNCHANGED <<MasterCtrl, pressed>>
    PROVE  LoadInv'
<1> DEFINE q == Append(uart[n].MsgQueue, TIMEOUT)
           u == [uart[n] EXCEPT !.MsgQueue = q]
           p == Peer(n)
<1>1. uart[n] \in GoodUart /\ RingOK(uart[n]) /\ Len(uart[n].MsgQueue) < 4
  <2>1. Len(uart[n].MsgQueue) \in 0 .. 4
    BY LoadType DEF TypeInv, UartInv
  <2> QED
    BY <2>1, FewLoaded DEF TypeInv, UartInv, LoadInv
<1>2. /\ uart' = [uart EXCEPT ![n] = u] /\ UNCHANGED held
  BY <1>1 DEF TimerFires, Push, MSG_QUEUE_LEN
<1>3. TIMEOUT \in Message /\ TIMEOUT.Type # "DATA"
  BY DEF TIMEOUT, Message, PHY_RX_BUF_NUM
<1>4. uart'[n] = u /\ uart'[p] = uart[p]
  BY <1>2 DEF TypeInv, UartInv
<1>5. u \in GoodUart
  <2>1. uart'[n] \in GoodUart
    BY DEF TypeInv, UartInv
  <2> QED
    BY <1>4, <2>1
<1> HIDE DEF q
<1>6. /\ u.MsgQueue = q /\ u.irq = uart[n].irq /\ u.tx = uart[n].tx
      /\ u.PHY_RxPtr = uart[n].PHY_RxPtr /\ u.PHY_RxBuf = uart[n].PHY_RxBuf
  BY <1>1 DEF GoodUart, Uart
<1> HIDE DEF u
<1>7. RingOK(u)
  BY <1>1, <1>3, <1>5, <1>6, PushRing DEF q
<1>8. Load(u) = Load(uart[n]) + 1 /\ Pending(u) = Pending(uart[n])
  <2>1. Len(q) = Len(uart[n].MsgQueue) + 1 /\ Len(uart[n].MsgQueue) \in Nat
    BY <1>1, LoadType DEF q
  <2>2. Busy(u) = Busy(uart[n]) /\ Pending(u) = Pending(uart[n])
    BY <1>6 DEF Busy, Pending
  <2>3. Busy(uart[n]) \in Nat /\ Pending(uart[n]) \in Nat
    BY <1>1, LoadType
  <2> QED
    BY <1>6, <2>1, <2>2, <2>3 DEF Load
<1>9. /\ Load(uart[n]) \in Nat /\ Pending(uart[n]) \in Nat /\ Load(u) \in Nat
      /\ late \in Nat /\ Sessions \in Nat /\ held \in Nat
  BY <1>1, <1>5, LoadType, FewLoaded
<1>10. Sessions' = Sessions
  BY DEF Sessions, MasterIn
<1>11. MasterIn("IDLE")' => pressed'["master"] # 0
  BY DEF LoadInv, MasterIn
<1>12. Loads(n, 1)
  BY <1>2, <1>4, <1>7, <1>8, <1>9 DEF Loads
<1>13. CASE Silent
  <2>1. late' = late
    BY <1>13 DEF TimerFires
  <2>2. \A m \in Node : Load(uart[m]) = Pending(uart[m])
    <3> TAKE m \in Node
    <3>1. Busy(uart[m]) = 0 /\ Len(uart[m].MsgQueue) = 0
      BY <1>13 DEF Silent, Busy, MsgQueue
    <3>2. Pending(uart[m]) \in Nat
      <4>1. uart[m] \in GoodUart
        BY DEF TypeInv, UartInv
      <4> QED
        BY <4>1, LoadType
    <3> QED
      BY <3>1, <3>2 DEF Load
  <2>3. Pending(uart["master"]) + Pending(uart["slave"]) <= held
    BY DEF LoadInv
  <2>4. \A m \in Node : Pending(uart[m]) \in Nat
    <3>1. \A m \in Node : uart[m] \in GoodUart
      BY DEF TypeInv, UartInv
    <3> QED
      BY <3>1, LoadType
  <2>5. /\ Load(uart'["master"]) + Load(uart'["slave"]) <= 1 + held + late' + Sessions'
        /\ Pending(uart'["master"]) + Pending(uart'["slave"]) <= held
    BY <1>4, <1>8, <1>9, <1>10, <2>1, <2>2, <2>3, <2>4
  <2>6. \A m \in Node : RingOK(uart'[m])
    BY <1>4, <1>7 DEF LoadInv
  <2> QED
    BY <1>2, <1>11, <2>5, <2>6 DEF LoadInv
<1>14. CASE ~Silent
  <2>1. late' = late + 1
    BY <1>14 DEF TimerFires
  <2> QED
    BY <1>9, <1>10, <1>11, <1>12, <2>1, LoadsKeep
<1> QED
  BY <1>13, <1>14

(* The frame arrives: what was on the line waits for the receiver, and a
   swallowed interrupt is counted. *)
LEMMA SwallowedCount ==
    ASSUME NEW sw \in [Node -> BOOLEAN], NEW p \in Node
    PROVE  /\ Cardinality({m \in Node : sw[m]}) \in Nat
           /\ sw[p] => Cardinality({m \in Node : sw[m]}) >= 1
<1> DEFINE S == {m \in Node : sw[m]}
<1>1. IsFiniteSet(S)
  <2>1. IsFiniteSet({"master"} \cup {"slave"})
    BY FS_Singleton, FS_Union
  <2> QED
    BY <2>1, FS_Subset
<1>2. sw[p] => S # {}
  OBVIOUS
<1> HIDE DEF S
<1>3. Cardinality(S) \in Nat /\ (S # {} => Cardinality(S) # 0)
  BY <1>1, FS_CardinalityType, FS_EmptySet
<1> QED
  BY <1>2, <1>3 DEF S

LEMMA TransmittedLoads ==
    ASSUME FewTimes, TypeInv, TypeInv', LoadInv, NEW n \in Node, Transmitted(n),
           UNCHANGED <<MasterCtrl, pressed>>
    PROVE  LoadInv'
<1> DEFINE p == Peer(n)
           quiet == [uart[n] EXCEPT !.tx = FALSE]
<1>1. PICK sw \in [Node -> BOOLEAN], got \in Arrivals(TxFrame[n]), lost \in BOOLEAN :
        /\ held' = held + Cardinality({m \in Node : sw[m]})
        /\ uart' = [uart EXCEPT
                      ![n] = Interrupt(quiet, "TX", sw[n]),
                      ![p] = IF lost THEN uart[p] ELSE Interrupt(Fill(uart[p], got), "RX", sw[p])]
  BY DEF Transmitted
<1>2. uart[n].tx /\ p \in Node /\ p # n
  BY DEF Transmitted
<1>3. sw[n] \in BOOLEAN /\ sw[p] \in BOOLEAN
  <2> HIDE DEF p
  <2> QED
    BY <1>2, Zenon
<1>4. got \in GoodFrame
  <2>1. TxFrame[n] \in GoodFrame
    BY DEF TypeInv, UartInv
  <2> QED
    BY <2>1, ArrivalType
<1>5. /\ uart[n] \in GoodUart /\ uart[p] \in GoodUart /\ RingOK(uart[n]) /\ RingOK(uart[p])
      /\ Load(uart[n]) \in Nat /\ Load(uart[p]) \in Nat
      /\ Load(uart[n]) + Load(uart[p]) <= 3 /\ Len(uart[n].MsgQueue) <= 3
      /\ Pending(uart[n]) \in 0 .. 1 /\ Pending(uart[p]) \in 0 .. 1
      /\ Len(uart[p].MsgQueue) \in 0 .. 4 /\ Len(uart[n].MsgQueue) \in 0 .. 4
  <2>1. Load(uart[n]) + Load(uart[p]) <= 3 /\ Len(uart[n].MsgQueue) <= 3
    BY FewLoaded
  <2>2. uart[n] \in GoodUart /\ uart[p] \in GoodUart /\ RingOK(uart[n]) /\ RingOK(uart[p])
    BY <1>2 DEF TypeInv, UartInv, LoadInv
  <2> HIDE DEF p
  <2> QED
    BY <2>1, <2>2, LoadType
<1>6. /\ quiet \in GoodUart /\ RingOK(quiet) /\ Load(quiet) = Load(uart[n]) - 1
      /\ Pending(quiet) = Pending(uart[n]) /\ Len(quiet.MsgQueue) < 4
      /\ Load(uart[n]) >= 1
  <2>1. /\ quiet \in GoodUart /\ ~quiet.tx /\ quiet.irq = uart[n].irq
        /\ quiet.MsgQueue = uart[n].MsgQueue /\ quiet.PHY_RxPtr = uart[n].PHY_RxPtr
        /\ quiet.PHY_RxBuf = uart[n].PHY_RxBuf
    BY <1>5 DEF GoodUart, Uart
  <2> HIDE DEF quiet
  <2>2. RingOK(quiet) /\ Pending(quiet) = Pending(uart[n])
    BY <1>5, <2>1 DEF RingOK, Pending
  <2>3. Busy(quiet) = 0 /\ Busy(uart[n]) = 1
    BY <1>2, <2>1 DEF Busy
  <2>4. Load(quiet) = Load(uart[n]) - 1 /\ Load(uart[n]) >= 1
    BY <1>5, <2>1, <2>2, <2>3 DEF Load
  <2> QED
    BY <1>5, <2>1, <2>2, <2>4
<1> HIDE DEF quiet
<1> DEFINE a == Interrupt(quiet, "TX", sw[n])
           filled == Fill(uart[p], got)
           c == Interrupt(filled, "RX", sw[p])
           b == IF lost THEN uart[p] ELSE c
           one == IF sw[p] THEN 1 ELSE 0
<1>7. /\ RingOK(a) /\ Load(a) <= Load(uart[n]) - 1 /\ Pending(a) <= Pending(uart[n])
      /\ Load(a) \in Nat /\ Pending(a) \in 0 .. 1
  <2>1. /\ RingOK(a) /\ Load(a) <= Load(quiet) + 0
        /\ Pending(a) <= Pending(quiet) + (IF sw[n] THEN 0 ELSE 0)
        /\ Load(a) \in Nat /\ Pending(a) \in 0 .. 1
    BY <1>3, <1>6, InterruptLoad
  <2> HIDE DEF a
  <2> QED
    BY <1>5, <1>6, <2>1
<1>8. Len(uart[p].MsgQueue) <= 2
  <2>1. Load(uart[p]) <= 2
    BY <1>5, <1>6
  <2>2. Len(uart[p].MsgQueue) <= Load(uart[p])
    BY <1>5, LoadType DEF Load
  <2> QED
    BY <1>5, <2>1, <2>2
<1>9. /\ RingOK(c) /\ Load(c) <= Load(uart[p]) + 1 /\ Pending(c) <= Pending(uart[p]) + one
      /\ Load(c) \in Nat /\ Pending(c) \in 0 .. 1
  <2>1. /\ filled \in GoodUart /\ RingOK(filled) /\ Load(filled) = Load(uart[p])
        /\ Pending(filled) = Pending(uart[p]) /\ Len(filled.MsgQueue) <= 2
    BY <1>4, <1>5, <1>8, FillLoad
  <2> HIDE DEF filled
  <2>2. Len(filled.MsgQueue) < 4
    <3>1. Len(filled.MsgQueue) \in 0 .. 4
      BY <2>1, LoadType
    <3> QED
      BY <2>1, <3>1
  <2> QED
    BY <1>3, <2>1, <2>2, InterruptLoad
<1>10. /\ RingOK(b) /\ Load(b) <= Load(uart[p]) + 1 /\ Pending(b) <= Pending(uart[p]) + one
       /\ Load(b) \in Nat /\ Pending(b) \in 0 .. 1 /\ one \in 0 .. 1
  BY <1>5, <1>9
<1>11. held' >= held + one /\ held \in Nat /\ held' \in Nat
  <2>1. held \in Nat /\ held' \in Nat
    BY FwBoundAssumption DEF TypeInv, UartInv
  <2>2. Cardinality({m \in Node : sw[m]}) \in Nat
        /\ (sw[p] => Cardinality({m \in Node : sw[m]}) >= 1)
    BY <1>2, SwallowedCount
  <2> QED
    BY <1>1, <2>1, <2>2
<1>12. uart'[n] = a /\ uart'[p] = b
  <2>1. uart' = [uart EXCEPT ![n] = a, ![p] = b]
    BY <1>1
  <2> HIDE DEF a, b, p
  <2> QED
    BY <1>2, <2>1 DEF TypeInv, UartInv
<1>13. late' = late /\ Sessions' = Sessions /\ late \in Nat /\ Sessions \in Nat
  BY FewLoaded DEF Transmitted, Sessions, MasterIn
<1> HIDE DEF a, b, one, c, filled
<1>14. /\ Load(a) + Load(b) <= 1 + held' + late + Sessions
       /\ Pending(a) + Pending(b) <= held'
  <2>1. /\ Load(uart[n]) + Load(uart[p]) <= 1 + held + late + Sessions
        /\ Pending(uart[n]) + Pending(uart[p]) <= held
    BY <1>5 DEF LoadInv
  <2>2. Load(a) + Load(b) <= Load(uart[n]) + Load(uart[p])
    BY <1>5, <1>7, <1>10
  <2>3. Pending(a) + Pending(b) <= held + one
    BY <1>5, <1>7, <1>10, <1>11, <2>1
  <2> DEFINE s == late + Sessions
             x == Load(uart[n]) + Load(uart[p])
             y == Load(a) + Load(b)
             t == Pending(a) + Pending(b)
             h == held
             k == held'
  <2>4. /\ s \in Int /\ x \in Int /\ y \in Int /\ t \in Int
        /\ x <= 1 + held + s /\ y <= x /\ t <= held + one
    BY <1>5, <1>7, <1>10, <1>11, <1>13, <2>1, <2>2, <2>3
  <2>5. 1 + held' + s = 1 + held' + late + Sessions
    BY <1>11, <1>13
  <2> HIDE DEF s, x, y, t
  <2>6. h \in Int /\ k \in Int /\ h + one <= k /\ one \in 0 .. 1
    BY <1>10, <1>11
  <2>7. t <= h + one /\ y <= x /\ x <= 1 + h + s
    BY <2>4
  <2> HIDE DEF h, k
  <2>8. y <= 1 + k + s /\ t <= k
    BY <2>4, <2>6, <2>7
  <2> QED
    BY <2>5, <2>8 DEF y, t, k
<1>15. /\ Load(uart'["master"]) + Load(uart'["slave"]) <= 1 + held' + late' + Sessions'
       /\ Pending(uart'["master"]) + Pending(uart'["slave"]) <= held'
  BY <1>7, <1>10, <1>12, <1>13, <1>14
<1>16. \A m \in Node : RingOK(uart'[m])
  BY <1>7, <1>10, <1>12
<1>17. MasterIn("IDLE")' => pressed'["master"] # 0
  BY DEF LoadInv, MasterIn
<1> QED
  BY <1>15, <1>16, <1>17 DEF LoadInv

(* A step in which nobody is called in, and the master's sessions are not fewer. *)
LEMMA OneNode ==
    ASSUME FewTimes, TypeInv, TypeInv', LoadInv, NEW n \in Node, Loads(n, 0), UNCHANGED late,
           Sessions' >= Sessions, MasterIn("IDLE")' => pressed'["master"] # 0
    PROVE  LoadInv'
<1>1. late \in Nat /\ Sessions \in Nat /\ Sessions' \in Int
  <2>1. late \in Nat /\ Sessions \in Nat
    BY FewLoaded
  <2>2. Sessions' \in Int
    BY FwPressAssumption DEF Sessions, TypeInv
  <2> QED
    BY <2>1, <2>2
<1> DEFINE x == Sessions
           y == Sessions'
<1>2. x \in Int /\ y \in Int /\ late \in Int /\ late' = late /\ y >= x
  BY <1>1
<1> HIDE DEF x, y
<1>3. late' + y >= late + x
  BY <1>2
<1>4. late' + Sessions' >= late + Sessions
  BY <1>3 DEF x, y
<1> QED
  BY <1>4, LoadsKeep

LEMMA MasterLoads ==
    ASSUME FewTimes, TypeInv, TypeInv', LoadInv, MasterStep \/ MasterFails
    PROVE  LoadInv'
<1>1. UNCHANGED pressed
  BY DEF MasterStep, MasterFails
<1>2. pressed["master"] \in Nat /\ late \in Nat /\ Sessions \in Nat
  BY FwPressAssumption, FewLoaded DEF TypeInv
<1>3. ASSUME ~MasterIn("IDLE")', Loads("master", 0), UNCHANGED late
      PROVE  LoadInv'
  <2>1. Sessions' >= Sessions
    BY <1>1, <1>2, <1>3 DEF Sessions
  <2> QED
    BY <1>3, <2>1, OneNode
<1>4. ASSUME MasterIdle PROVE LoadInv'
  <2>1. Loads("master", 1) /\ UNCHANGED late
    BY <1>4, SendLoads DEF MasterIdle
  <2>2. MasterIn("IDLE") /\ ~MasterIn("IDLE")'
    BY <1>4 DEF MasterIdle, MasterIn, TypeInv, MasterTypeOK
  <2>3. Sessions' = Sessions + 1
    BY <1>1, <1>2, <2>2 DEF Sessions
  <2>4. late' + Sessions' >= late + Sessions + 1
    BY <1>2, <2>1, <2>3
  <2>5. late' + Sessions' >= late + Sessions
    BY <1>2, <2>1, <2>3
  <2> QED
    BY <2>1, <2>2, <2>4, <2>5, LoadsKeep
<1>5. ASSUME NEW frame, Send("master", frame), GotMsg("master"), ~MasterIn("IDLE")'
      PROVE  LoadInv'
  BY <1>3, <1>5, SendLoads
<1>6. ASSUME uart' = [uart EXCEPT !["master"] = Popped(@)], UNCHANGED <<held, late>>, ~MasterIn("IDLE")'
      PROVE  LoadInv'
  BY <1>3, <1>6, SameLoads
<1>7. CASE MasterVersionRsp
  <2>1. GotMsg("master") /\ ~MasterIn("IDLE")'
    BY <1>7 DEF MasterVersionRsp, MasterAnswered, GotData, MasterIn, TypeInv, MasterTypeOK
  <2> QED
    BY <1>5, <1>6, <1>7, <2>1 DEF MasterVersionRsp, SendAfterCancel, StopTimer
<1>8. CASE MasterStartRsp \/ MasterDataAck
  <2>1. GotMsg("master") /\ ~MasterIn("IDLE")'
    BY <1>8 DEF MasterStartRsp, MasterDataAck, MasterSendBlock, MasterAnswered, GotData, MasterIn,
       TypeInv, MasterTypeOK
  <2>2. Send("master", DataFrame)
    BY <1>8 DEF MasterStartRsp, MasterDataAck, MasterSendBlock, SendAfterCancel
  <2> QED
    BY <1>5, <2>1, <2>2
<1>9. CASE MasterLastAck
  <2>1. GotMsg("master") /\ ~MasterIn("IDLE")'
    BY <1>9 DEF MasterLastAck, MasterAnswered, GotData, MasterIn, TypeInv, MasterTypeOK
  <2> QED
    BY <1>5, <1>9, <2>1 DEF MasterLastAck, SendAfterCancel
<1>10. CASE MasterEndRsp
  <2>1. ~MasterIn("IDLE")'
    BY <1>10 DEF MasterEndRsp, MasterIn, TypeInv, MasterTypeOK
  <2> QED
    BY <1>6, <1>10, <2>1 DEF MasterEndRsp, StopTimer
<1>11. CASE MasterRetry
  <2>1. GotMsg("master") /\ ~MasterIn("IDLE")'
    BY <1>11 DEF MasterRetry, MasterWaits, MasterIn, TypeInv, MasterTypeOK
  <2>2. CASE MasterCtrl.RetryTimes = FW_UPDATE_RETRY_MAX
    BY <1>6, <1>11, <2>1, <2>2 DEF MasterRetry, PopOnly
  <2>3. CASE MasterCtrl.RetryTimes # FW_UPDATE_RETRY_MAX
    BY <1>5, <1>11, <2>1, <2>3 DEF MasterRetry, SendAgain
  <2> QED
    BY <2>2, <2>3
<1>12. CASE MasterSent
  <2>1. Loads("master", 0) /\ UNCHANGED <<late, MasterCtrl>>
    BY <1>12, SameLoads DEF MasterSent, Sent
  <2>2. Sessions' >= Sessions /\ (MasterIn("IDLE")' => pressed'["master"] # 0)
    BY <1>1, <1>2, <2>1 DEF Sessions, MasterIn, LoadInv
  <2> QED
    BY <2>1, <2>2, OneNode
<1>13. CASE MasterSleep \/ MasterFails
  <2>1. MasterReset
    BY <1>13 DEF MasterSleep, MasterFails, MasterPowerLoss
  <2>2. Loads("master", 0) /\ UNCHANGED late
    BY <2>1, SameLoads DEF MasterReset, UartReset
  <2>3. ~MasterIn("IDLE")'
    BY <2>1 DEF MasterReset, MasterBoot, MasterIn
  <2> QED
    BY <1>3, <2>2, <2>3
<1> QED
  BY <1>4, <1>7, <1>8, <1>9, <1>10, <1>11, <1>12, <1>13 DEF MasterStep, MasterLoop

LEMMA SlaveLoads ==
    ASSUME FewTimes, TypeInv, TypeInv', LoadInv, SlaveStep \/ SlaveFails \/ PressSlave
    PROVE  LoadInv'
<1>1. UNCHANGED MasterCtrl /\ pressed'["master"] = pressed["master"]
  BY DEF SlaveStep, SlaveFails, PressSlave, Press, TypeInv
<1>2. Sessions' = Sessions /\ Sessions \in Nat /\ (MasterIn("IDLE")' => pressed'["master"] # 0)
  BY <1>1, FewLoaded DEF Sessions, MasterIn, LoadInv
<1>3. ASSUME Loads("slave", 0), UNCHANGED late PROVE LoadInv'
  BY <1>2, <1>3, OneNode
<1>4. ASSUME NEW frame, SendAfterCancel("slave", frame), GotMsg("slave") PROVE LoadInv'
  BY <1>3, <1>4, SendLoads DEF SendAfterCancel
<1>5. ASSUME uart' = [uart EXCEPT !["slave"] = Popped(@)], UNCHANGED <<held, late>>
      PROVE  LoadInv'
  BY <1>3, <1>5, SameLoads
<1>6. ASSUME UartReset("slave") PROVE LoadInv'
  BY <1>3, <1>6, SameLoads DEF UartReset
<1>7. ASSUME UNCHANGED uartVars PROVE LoadInv'
  BY <1>2, <1>7 DEF uartVars, LoadInv
<1>8. CASE SlaveIdle \/ SlaveRetry \/ SlaveVerify
  BY <1>5, <1>8 DEF SlaveIdle, SlaveRetry, SlaveVerify, RestartTimer, PopOnly
<1>9. CASE SlaveVersionReq \/ SlaveRepeat \/ SlaveStartReq
  BY <1>4, <1>9 DEF SlaveVersionReq, SlaveRepeat, SlaveStartReq, SlaveGotCmd, SlaveGotBlock, GotData
<1>10. CASE SlaveBlock
  BY <1>4, <1>10 DEF SlaveBlock, SlaveGotBlock, GotData
<1>11. CASE SlaveEndReq
  BY <1>4, <1>5, <1>11 DEF SlaveEndReq, SlaveGotCmd, GotData, StopTimer
<1>12. CASE SlaveSent
  BY <1>3, <1>12, SameLoads DEF SlaveSent, Sent
<1>13. CASE SlaveClearFlag
  BY <1>7, <1>13 DEF SlaveClearFlag
<1>14. CASE SlaveReboot \/ SlaveError \/ SlaveFails
  BY <1>6, <1>14 DEF SlaveReboot, SlaveError, SlaveFails, SlaveReset, SlavePowerLoss,
     SlavePowerLossInErase
<1>15. CASE PressSlave
  <2>1. CASE FW_UPDATE_SlaveInit
    BY <1>3, <2>1, SameLoads DEF FW_UPDATE_SlaveInit, FW_UPDATE_PHY_Init
  <2>2. CASE SlaveLowBattery
    BY <1>7, <2>2 DEF SlaveLowBattery
  <2> QED
    BY <1>15, <2>1, <2>2 DEF PressSlave
<1> QED
  BY <1>8, <1>9, <1>10, <1>11, <1>12, <1>13, <1>14, <1>15 DEF SlaveStep, SlaveLoop

LEMMA PressMasterLoads ==
    ASSUME FewTimes, TypeInv, TypeInv', LoadInv, PressMaster
    PROVE  LoadInv'
<1>1. /\ pressed["master"] \in Nat /\ pressed'["master"] = pressed["master"] + 1
      /\ MasterIn("APP") /\ ~MasterIn("IDLE")
  BY FwPressAssumption DEF PressMaster, Press, TypeInv, FW_UPDATE_MasterInit, MasterLowBattery, MasterIn
<1>2. Sessions' >= Sessions /\ pressed'["master"] # 0 /\ Sessions \in Int /\ Sessions' \in Int
  BY <1>1 DEF Sessions
<1>3. CASE FW_UPDATE_MasterInit
  <2>1. Loads("master", 0) /\ UNCHANGED late
    BY <1>3, SameLoads DEF FW_UPDATE_MasterInit, FW_UPDATE_PHY_Init
  <2> QED
    BY <1>2, <2>1, OneNode
<1>4. CASE MasterLowBattery
  <2>1. UNCHANGED <<uart, held, late>>
    BY <1>4 DEF MasterLowBattery, uartVars
  <2>2. Loads("master", 0)
    <3>1. Load(uart["master"]) \in Nat /\ Pending(uart["master"]) \in 0 .. 1
      <4>1. uart["master"] \in GoodUart
        BY DEF TypeInv, UartInv
      <4> QED
        BY <4>1, LoadType
    <3> QED
      BY <2>1, <3>1 DEF Loads, LoadInv
  <2> QED
    BY <1>2, <2>1, <2>2, OneNode
<1> QED
  BY <1>3, <1>4 DEF PressMaster

LEMMA NextLoads ==
    ASSUME FewTimes, TypeInv, TypeInv', LoadInv, [Next]_vars
    PROVE  LoadInv'
<1>1. CASE UNCHANGED vars
  BY <1>1 DEF vars, uartVars, LoadInv, Sessions, MasterIn
<1>2. ASSUME NEW n \in Node, UartStep(n) PROVE LoadInv'
  BY <1>2, TransmittedLoads DEF UartStep
<1>3. ASSUME NEW n \in Node, TimerStep(n) PROVE LoadInv'
  BY <1>3, TimerLoads DEF TimerStep
<1> QED
  BY <1>1, <1>2, <1>3, MasterLoads, SlaveLoads, PressMasterLoads DEF Next

LEMMA InitLoads == Init => LoadInv
<1> SUFFICES ASSUME Init PROVE LoadInv
  OBVIOUS
<1>1. /\ \A n \in Node : uart[n] = UartOff
      /\ held = 0 /\ late = 0 /\ pressed["master"] = 0 /\ ~MasterIn("IDLE")
  BY DEF Init, UartInit, MasterInit, MasterBoot, MasterIn
<1>2. UartOff.MsgQueue = << >> /\ UartOff.irq = {} /\ ~UartOff.tx
  BY DEF UartOff
<1>3. Load(UartOff) = 0 /\ Pending(UartOff) = 0 /\ RingOK(UartOff)
  BY <1>2 DEF Load, Pending, Busy, RingOK
<1> QED
  BY <1>1, <1>3 DEF LoadInv, Sessions

LEMMA LoadMeans == TypeInv /\ LoadInv => BuffersIntact
BY DEF LoadInv, RingOK, BuffersIntact, MsgQueue

(* The DMA overwrites no message that waits in the queue, as long as there are
   few sessions, early timeouts and swallowed interrupts: the line cannot then be
   two exchanges ahead of a main loop.  It can with more: the master's request and
   three retries, while the slave erases, are three early timeouts. *)
LEMMA FewFramesUnread ==
    ASSUME FewTimes
    PROVE  Spec => []BuffersIntact
<1>1. Init => LoadInv
  BY InitLoads
<1>2. TypeInv /\ TypeInv' /\ LoadInv /\ [Next]_vars => LoadInv'
  BY NextLoads
<1>3. TypeInv /\ LoadInv => BuffersIntact
  BY LoadMeans
<1> QED
  BY <1>1, <1>2, <1>3, Invariant, PTL DEF Spec

(* The two theorems above without conditions on the behaviour: in the first
   session of each node, with one early timeout or one interrupt swallowed by a
   held button (fw_update.c, and irq_handler of the two main.c), the counts of
   blocks stay together and the image received is the image sent. *)
THEOREM FwFirstSessions ==
    ASSUME MaxPress = 1, MaxLate + MaxHeld <= 1
    PROVE  Spec => [](BlockSync /\ ReceivedIsSent)
<1>1. FewTimes
  BY FwBoundAssumption DEF FewTimes
<1>2. Spec => []BuffersIntact
  BY <1>1, FewFramesUnread
<1> QED
  BY <1>2, FirstSessions, PTL
=============================================================================
