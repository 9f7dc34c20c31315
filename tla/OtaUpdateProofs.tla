-------------------------- MODULE OtaUpdateProofs ---------------------------
(***************************************************************************)
(* Theorems about OtaUpdate, for every set of images, any number of button *)
(* presses and swallowed interrupts, and any size of banks and blocks.     *)
(***************************************************************************)
EXTENDS OtaUpdate, TLAPS

USE DEF Node, Peer, SlaveCtrlType

(* The message at the head of a queue, and what copying it to RxFrame gives. *)
LEMMA RxType ==
    ASSUME MacTypeOK, NEW n \in Node
    PROVE  /\ Rx(n) \in Frame
           /\ RxLen(n) \in Int
<1>1. CASE GotData(n)
  <2>1. Msg(n) \in Message
    BY <1>1 DEF GotData, GotMsg, Msg, MacTypeOK
  <2>2. Msg(n).Data.Frame \in Frame /\ Msg(n).Data.Len \in Int
    BY <2>1 DEF Message, Packet
  <2>3. RxFrame[n] \in Frame
    BY DEF MacTypeOK
  <2>4. Received(RxFrame[n], Msg(n).Data) \in Frame
    BY <2>2, <2>3 DEF Received, Frame
  <2> QED
    BY <1>1, <2>2, <2>4 DEF Rx, RxLen
<1>2. CASE ~GotData(n)
  BY <1>2 DEF Rx, RxLen, MacTypeOK
<1> QED
  BY <1>1, <1>2

(* Popping a message keeps the queue and RxFrame well typed. *)
LEMMA PopType ==
    ASSUME MacTypeOK, NEW n \in Node, Pop(n) \/ Drop(n)
    PROVE  /\ MsgQueue' \in [Node -> Seq(Message)]
           /\ \A m \in Node : Len(MsgQueue'[m]) <= MSG_QUEUE_LEN
           /\ RxFrame' \in [Node -> Frame]
<1>1. MsgQueue[n] \in Seq(Message) /\ Len(MsgQueue[n]) <= MSG_QUEUE_LEN
  BY DEF MacTypeOK
<1>2. MsgQueue[n] # << >> => /\ Tail(MsgQueue[n]) \in Seq(Message)
                             /\ Len(Tail(MsgQueue[n])) <= MSG_QUEUE_LEN
  BY <1>1 DEF MSG_QUEUE_LEN
<1>3. MsgQueue' = [MsgQueue EXCEPT ![n] = IF @ = << >> THEN @ ELSE Tail(@)]
  BY DEF Pop, Drop
<1>4. RxFrame' \in [Node -> Frame]
  BY RxType DEF Pop, Drop, MacTypeOK
<1> QED
  BY <1>1, <1>2, <1>3, <1>4 DEF MacTypeOK

(* Handing a frame to the radio. *)
LEMMA SendType ==
    ASSUME MacTypeOK, NEW n \in Node, NEW frame \in Frame, NEW len \in Int,
           MAC_SendData(n, frame, len)
    PROVE  /\ TxFrame' \in [Node -> Frame]
           /\ mac_TxBuf' \in [Node -> Packet]
           /\ radio' \in [Node -> {"off", "tx", "rx"}]
BY DEF MacTypeOK, MAC_SendData, Packet

LEMMA NoSendType ==
    ASSUME MacTypeOK, NoSend
    PROVE  /\ TxFrame' \in [Node -> Frame]
           /\ mac_TxBuf' \in [Node -> Packet]
           /\ radio' \in [Node -> {"off", "tx", "rx"}]
BY DEF MacTypeOK, NoSend

LEMMA RecvType ==
    ASSUME MacTypeOK, NEW n \in Node, MAC_RecvData(n)
    PROVE  /\ TxFrame' \in [Node -> Frame]
           /\ mac_TxBuf' \in [Node -> Packet]
           /\ radio' \in [Node -> {"off", "tx", "rx"}]
BY DEF MacTypeOK, MAC_RecvData

LEMMA LenType ==
    ASSUME MacTypeOK, NEW n \in Node, NEW len \in Int, SetLen(n, len)
    PROVE  FrameLen' \in [Node -> Int]
BY DEF MacTypeOK, SetLen

LEMMA CmdFrameType ==
    ASSUME MacTypeOK, NEW n \in Node, NEW id \in Nat, NEW val \in Nat
    PROVE  CmdFrame(n, id) \in Frame /\ CmdFrameWith(n, id, val) \in Frame
BY DEF MacTypeOK, CmdFrame, CmdFrameWith, Frame, FrameType,
       OTA_FRAME_TYPE_CMD, OTA_FRAME_TYPE_DATA, OTA_FRAME_TYPE_ACK

LEMMA MacResetType ==
    ASSUME MacTypeOK, NEW n \in Node, MacReset(n)
    PROVE  MacTypeOK'
<1>1. NoFrame \in Frame /\ NoPacket \in Packet
  BY DEF NoFrame, NoPacket, Frame, Packet
<1> QED
  BY <1>1 DEF MacTypeOK, MacReset, MSG_QUEUE_LEN

(* An interrupt adds at most one message to a queue that is not full. *)
LEMMA IrqType ==
    ASSUME MacTypeOK, NEW n \in Node, NEW msg \in Message, Irq(n, msg)
    PROVE  /\ MsgQueue' \in [Node -> Seq(Message)]
           /\ \A m \in Node : Len(MsgQueue'[m]) <= MSG_QUEUE_LEN
           /\ held' \in 0 .. MaxHeld
<1>1. CASE MsgQueue' = [MsgQueue EXCEPT ![n] = Push(@, msg)] /\ UNCHANGED held
  <2>1. MsgQueue[n] \in Seq(Message) /\ Len(MsgQueue[n]) <= MSG_QUEUE_LEN
    BY DEF MacTypeOK
  <2>2. /\ Push(MsgQueue[n], msg) \in Seq(Message)
        /\ Len(Push(MsgQueue[n], msg)) <= MSG_QUEUE_LEN
    BY <2>1 DEF Push, MSG_QUEUE_LEN
  <2> QED
    BY <1>1, <2>2 DEF MacTypeOK
<1>2. CASE held < MaxHeld /\ held' = held + 1 /\ UNCHANGED MsgQueue
  BY <1>2, HeldAssumption DEF MacTypeOK
<1> QED
  BY <1>1, <1>2 DEF Irq

(* The messages that an interrupt may push. *)
LEMMA MessageType ==
    ASSUME MacTypeOK
    PROVE  /\ INVALID_DATA \in Message
           /\ TIMEOUT \in Message
           /\ \A m \in Node : [Type |-> "DATA", Data |-> mac_TxBuf[m]] \in Message
<1>1. NoPacket \in Packet
  BY DEF NoFrame, NoPacket, Frame, Packet
<1> QED
  BY <1>1 DEF MacTypeOK, INVALID_DATA, TIMEOUT, Message

(* The radio keeps the MAC well typed. *)
LEMMA AirType ==
    ASSUME MacTypeOK, NEW n \in Node, Air(n)
    PROVE  MacTypeOK'
<1>1. Peer(n) \in Node
  OBVIOUS
<1>3. /\ INVALID_DATA \in Message
      /\ TIMEOUT \in Message
      /\ \A m \in Node : [Type |-> "DATA", Data |-> mac_TxBuf[m]] \in Message
  BY MessageType
<1>4. CASE Heard(n)
  <2>1. /\ MsgQueue' \in [Node -> Seq(Message)]
        /\ \A m \in Node : Len(MsgQueue'[m]) <= MSG_QUEUE_LEN
        /\ held' \in 0 .. MaxHeld
    BY <1>1, <1>3, <1>4, IrqType DEF Heard
  <2> QED
    BY <1>4, <2>1 DEF Heard, MacTypeOK
<1>5. CASE Lost(n)
  BY <1>5 DEF Lost, MacTypeOK
<1>6. CASE Corrupted(n)
  <2>1. /\ MsgQueue' \in [Node -> Seq(Message)]
        /\ \A m \in Node : Len(MsgQueue'[m]) <= MSG_QUEUE_LEN
        /\ held' \in 0 .. MaxHeld
    BY <1>3, <1>6, IrqType DEF Corrupted
  <2>2. radio' \in [Node -> {"off", "tx", "rx"}]
    BY <1>6 DEF Corrupted, MacTypeOK
  <2> QED
    BY <1>6, <2>1, <2>2 DEF Corrupted, MacTypeOK
<1>7. CASE RxTimeout(n)
  <2>1. /\ MsgQueue' \in [Node -> Seq(Message)]
        /\ \A m \in Node : Len(MsgQueue'[m]) <= MSG_QUEUE_LEN
        /\ held' \in 0 .. MaxHeld
    BY <1>3, <1>7, IrqType DEF RxTimeout
  <2> QED
    BY <1>7, <2>1 DEF RxTimeout, MacTypeOK
<1> QED
  BY <1>4, <1>5, <1>6, <1>7 DEF Air
-----------------------------------------------------------------------------
USE DEF OTA_CMD_ID_START_REQ, OTA_CMD_ID_START_RSP, OTA_CMD_ID_END_REQ, OTA_CMD_ID_END_RSP,
        OTA_CMD_ID_VERSION_REQ, OTA_CMD_ID_VERSION_RSP

(* A popped message, a radio command and a new Len make a well-typed MAC. *)
LEMMA StepType ==
    ASSUME MacTypeOK, NEW n \in Node, Pop(n) \/ Drop(n), UNCHANGED held,
           \/ \E frame \in Frame, len \in Int : MAC_SendData(n, frame, len)
           \/ MAC_RecvData(n)
           \/ NoSend,
           \/ \E len \in Int : SetLen(n, len)
           \/ UNCHANGED FrameLen
    PROVE  MacTypeOK'
<1>1. /\ MsgQueue' \in [Node -> Seq(Message)]
      /\ \A m \in Node : Len(MsgQueue'[m]) <= MSG_QUEUE_LEN
      /\ RxFrame' \in [Node -> Frame]
  BY PopType
<1>2. /\ TxFrame' \in [Node -> Frame]
      /\ mac_TxBuf' \in [Node -> Packet]
      /\ radio' \in [Node -> {"off", "tx", "rx"}]
  BY SendType, RecvType, NoSendType
<1>3. FrameLen' \in [Node -> Int]
  BY LenType DEF MacTypeOK
<1> QED
  BY <1>1, <1>2, <1>3 DEF MacTypeOK

(* The master's own data, read off the binary in its flash. *)
LEMMA BinType ==
    ASSUME MasterTypeOK
    PROVE  /\ MaxBlockNum(MasterCtrl.Bin) \in Nat
           /\ Size[MasterCtrl.Bin] \in Nat
           /\ DataFrame \in Frame
           /\ DataLen \in Int
<1>1. MasterCtrl.Bin \in Image /\ MasterCtrl.BlockNum + 1 \in Nat
  BY ImageAssumption DEF MasterTypeOK
<1>2. DataFrame \in Frame
  BY <1>1 DEF DataFrame, Frame, FrameType, Block, BlockOf, OTA_FRAME_TYPE_DATA
<1>3. DataLen \in Int
  BY <1>1, BlockBytesType DEF DataLen
<1> QED
  BY <1>1, <1>2, <1>3, MaxBlockNumType, ImageAssumption

LEMMA MasterSendBlockType ==
    ASSUME MasterTypeOK, MasterSendBlock
    PROVE  MasterTypeOK'
<1> DEFINE last == MasterCtrl.BlockNum + 1 >= MaxBlockNum(MasterCtrl.Bin)
           finish == MasterCtrl.FinishFlag \/ last
<1>1. MasterCtrl' = [MasterCtrl EXCEPT !.State = "DATA_ACK_WAIT", !.RetryTimes = 0,
                                       !.BlockNum = MasterCtrl.BlockNum + 1, !.FinishFlag = finish]
  BY DEF MasterSendBlock
<1>2. MasterCtrl.BlockNum + 1 \in Nat /\ 0 \in 0 .. OTA_RETRY_MAX
  BY DEF MasterTypeOK, OTA_RETRY_MAX
<1>3. finish \in BOOLEAN
  BY Zenon DEF MasterTypeOK
<1> HIDE DEF finish
<1> QED
  BY <1>1, <1>2, <1>3 DEF MasterTypeOK, MasterState

(* What most steps change in MasterCtrl. *)
LEMMA MasterMoveType ==
    ASSUME MasterTypeOK, NEW state \in MasterState,
           MasterCtrl' = [MasterCtrl EXCEPT !.State = state, !.RetryTimes = 0]
    PROVE  MasterTypeOK'
<1>1. 0 \in 0 .. OTA_RETRY_MAX
  BY DEF OTA_RETRY_MAX
<1> QED
  BY <1>1 DEF MasterTypeOK

LEMMA MasterStartType ==
    ASSUME MasterTypeOK, MacTypeOK, OTA_MasterStart
    PROVE  MasterTypeOK' /\ MacTypeOK'
<1> DEFINE mst == "master"
<1>0. /\ mst \in Node
      /\ Rx(mst) \in Frame
      /\ RxLen(mst) \in Int
      /\ TxFrame[mst] \in Frame
      /\ \A len \in {0, 2, 4} : CmdLen(len) \in Int
  BY RxType DEF MacTypeOK, CmdLen
<1>1. CASE MasterIdle
  <2>1. CmdFrame(mst, OTA_CMD_ID_VERSION_REQ) \in Frame
    BY CmdFrameType
  <2>2. MacTypeOK'
    BY <1>0, <1>1, <2>1, StepType DEF MasterIdle, MasterSend
  <2> QED
    BY <1>1, <2>2 DEF MasterIdle, MasterTypeOK, MasterState
<1>2. CASE MasterVersionRsp
  <2>1. CmdFrameWith(mst, OTA_CMD_ID_START_REQ, MaxBlockNum(MasterCtrl.Bin)) \in Frame
    BY CmdFrameType, BinType
  <2>2. MacTypeOK'
    BY <1>0, <1>2, <2>1, StepType DEF MasterVersionRsp, MasterSend
  <2> QED
    BY <1>2, <2>2, MasterMoveType, Zenon DEF MasterVersionRsp, MasterState
<1>3. CASE MasterStartRsp \/ MasterDataAck
  <2>1. MacTypeOK'
    BY <1>0, <1>3, BinType, StepType DEF MasterStartRsp, MasterDataAck, MasterSendBlock, MasterSend
  <2> QED
    BY <1>3, <2>1, MasterSendBlockType DEF MasterStartRsp, MasterDataAck
<1>4. CASE MasterLastAck
  <2>1. CmdFrameWith(mst, OTA_CMD_ID_END_REQ, Size[MasterCtrl.Bin]) \in Frame
    BY CmdFrameType, BinType
  <2>2. MacTypeOK'
    BY <1>0, <1>4, <2>1, StepType DEF MasterLastAck, MasterSend
  <2> QED
    BY <1>4, <2>2, MasterMoveType, Zenon DEF MasterLastAck, MasterState
<1>5. CASE MasterEndRsp
  <2>1. MacTypeOK'
    BY <1>0, <1>5, StepType DEF MasterEndRsp
  <2> QED
    BY <1>5, <2>1, MasterMoveType DEF MasterEndRsp, MasterState
<1>6. CASE MasterRetry
  <2>1. MacTypeOK'
    BY <1>0, <1>6, StepType DEF MasterRetry
  <2> QED
    BY <1>6, <2>1 DEF MasterRetry, MasterTypeOK, MasterState, OTA_RETRY_MAX
<1>7. CASE MasterReboot
  <2>1. MacTypeOK'
    BY <1>7, MacResetType DEF MasterReboot, MasterReset
  <2> QED
    BY <1>7, <2>1 DEF MasterReboot, MasterReset, MasterBoot, MasterTypeOK, MasterState, OTA_RETRY_MAX
<1> QED
  BY <1>1, <1>2, <1>3, <1>4, <1>5, <1>6, <1>7 DEF OTA_MasterStart
-----------------------------------------------------------------------------
LEMMA PayloadType == Payload \in CellContent
BY DEF Payload, CellContent

LEMMA WriteBlockType ==
    ASSUME NEW bank \in BankContent
    PROVE  /\ WriteBlock(bank) \in BankContent
           /\ WriteBlock(bank).flag = bank.flag
<1> DEFINE at == SlaveCtrl.TotalBinSize
           new(i) == IF (i - 1) * BlockLen <= at /\ at < i * BlockLen
                     THEN Program(bank.cell[i], IF at = (i - 1) * BlockLen THEN Payload ELSE Garbage)
                     ELSE bank.cell[i]
<1>1. \A i \in 1 .. MaxBlock : bank.cell[i] \in CellContent
  BY DEF BankContent
<1>2. Garbage \in CellContent
  BY DEF CellContent
<1>3. ASSUME NEW i \in 1 .. MaxBlock
      PROVE  new(i) \in CellContent
  BY <1>1, <1>2, PayloadType DEF Program
<1>4. WriteBlock(bank) = [bank EXCEPT !.cell = [i \in 1 .. MaxBlock |-> new(i)]]
  BY DEF WriteBlock
<1> HIDE DEF new
<1> QED
  BY <1>3, <1>4 DEF BankContent

(* What most steps change in SlaveCtrl. *)
LEMMA SlaveMoveType ==
    ASSUME SlaveTypeOK, NEW state \in SlaveState,
           \/ SlaveCtrl' = [SlaveCtrl EXCEPT !.State = state]
           \/ SlaveCtrl' = [SlaveCtrl EXCEPT !.State = state, !.RetryTimes = 0]
           \/ SlaveCtrl' = [SlaveCtrl EXCEPT !.RetryTimes = 0]
    PROVE  SlaveTypeOK'
<1>1. 0 \in 0 .. OTA_RETRY_MAX
  BY DEF OTA_RETRY_MAX
<1> QED
  BY <1>1 DEF SlaveTypeOK

LEMMA SlaveBootType == SlaveBoot \in SlaveCtrlType
<1>1. /\ << >> \in Seq(CellContent)
      /\ 0 \in 0 .. OTA_RETRY_MAX /\ 0 \in Bank /\ "APP" \in SlaveState
  BY DEF OTA_RETRY_MAX, Bank, SlaveState
<1> QED
  BY <1>1 DEF SlaveBoot

LEMMA SlaveResetType ==
    ASSUME MacTypeOK, SlaveReset
    PROVE  SlaveTypeOK' /\ MacTypeOK'
<1>2. SlaveTypeOK'
  BY SlaveBootType DEF SlaveReset, SlaveTypeOK
<1> QED
  BY <1>2, MacResetType DEF SlaveReset

LEMMA SlaveStartType ==
    ASSUME SlaveTypeOK, FlashTypeOK, MacTypeOK, OTA_SlaveStart
    PROVE  SlaveTypeOK' /\ FlashTypeOK' /\ MacTypeOK'
<1> DEFINE slv == "slave"
<1>0. /\ slv \in Node
      /\ Rx(slv) \in Frame
      /\ RxLen(slv) \in Int
      /\ TxFrame[slv] \in Frame
      /\ \A len \in {0, 2, 4} : CmdLen(len) \in Int
      /\ SlaveCtrl.FlashAddr \in Bank /\ Other(SlaveCtrl.FlashAddr) \in Bank
  BY RxType DEF MacTypeOK, CmdLen, SlaveTypeOK, Bank, Other
<1>1. CASE SlaveIdle
  <2>1. MacTypeOK'
    BY <1>0, <1>1, StepType DEF SlaveIdle
  <2> QED
    BY <1>1, <2>1, SlaveMoveType DEF SlaveIdle, SlaveState, FlashTypeOK
<1>2. CASE SlaveVersionReq
  <2>1. CmdFrameWith(slv, OTA_CMD_ID_VERSION_RSP, SlaveCtrl.FwVersion) \in Frame
    BY CmdFrameType DEF SlaveTypeOK
  <2>2. MacTypeOK'
    BY <1>0, <1>2, <2>1, StepType DEF SlaveVersionReq, SlaveSend
  <2> QED
    BY <1>2, <2>2, SlaveMoveType, Zenon DEF SlaveVersionReq, SlaveState, FlashTypeOK
<1>3. CASE SlaveRepeat
  <2>1. MacTypeOK'
    BY <1>0, <1>3, StepType DEF SlaveRepeat, SlaveSend
  <2>2. UNCHANGED flash /\ SlaveCtrl' = [SlaveCtrl EXCEPT !.RetryTimes = 0]
    BY <1>3 DEF SlaveRepeat
  <2>3. SlaveCtrl.State \in SlaveState
    BY DEF SlaveTypeOK
  <2> QED
    BY <2>1, <2>2, <2>3, SlaveMoveType DEF FlashTypeOK
<1>4. CASE SlaveStartReq
  <2>1. CmdFrame(slv, OTA_CMD_ID_START_RSP) \in Frame
    BY CmdFrameType
  <2>2. MacTypeOK'
    BY <1>0, <1>4, <2>1, StepType DEF SlaveStartReq, SlaveSend
  <2>3. Rx(slv).Val \in Nat /\ 0 \in 0 .. OTA_RETRY_MAX
    BY <1>0 DEF Frame, OTA_RETRY_MAX
  <2>4. SlaveTypeOK'
    BY <1>4, <2>3 DEF SlaveStartReq, SlaveTypeOK, SlaveState
  <2> QED
    BY <1>4, <2>2, <2>4 DEF SlaveStartReq, FlashTypeOK
<1>5. CASE SlaveBlock
  <2>1. SlaveCtrl.BlockNum + 1 \in Nat /\ 3 \in Int
    BY DEF SlaveTypeOK
  <2>2. AckFrame(SlaveCtrl.BlockNum + 1) \in Frame
    BY <2>1 DEF AckFrame, Frame, FrameType, OTA_FRAME_TYPE_ACK
  <2>3. MacTypeOK'
    BY <1>0, <1>5, <2>1, <2>2, StepType DEF SlaveBlock
  <2>4. FlashTypeOK'
    BY <1>0, <1>5, WriteBlockType DEF SlaveBlock, FlashTypeOK
  <2>5. /\ SlaveCtrl.TotalBinSize + RxLen(slv) - 3 \in Int
        /\ Append(SlaveCtrl.PktCRC, Payload) \in Seq(CellContent)
        /\ 0 \in 0 .. OTA_RETRY_MAX
    BY <1>0, PayloadType DEF SlaveTypeOK, OTA_RETRY_MAX
  <2>6. SlaveTypeOK'
    BY <1>5, <2>1, <2>5 DEF SlaveBlock, SlaveTypeOK, SlaveState
  <2> QED
    BY <2>3, <2>4, <2>6
<1>6. CASE SlaveEndReq
  <2>1. CmdFrame(slv, OTA_CMD_ID_END_RSP) \in Frame
    BY CmdFrameType
  <2>2. MacTypeOK'
    BY <1>0, <1>6, <2>1, StepType DEF SlaveEndReq, SlaveSend
  <2> QED
    BY <1>6, <2>2, SlaveMoveType, Zenon DEF SlaveEndReq, SlaveState, FlashTypeOK
<1>7. CASE SlaveRetry
  <2>1. MacTypeOK'
    BY <1>0, <1>7, StepType DEF SlaveRetry
  <2>2. SlaveTypeOK'
    BY <1>7 DEF SlaveRetry, SlaveTypeOK, SlaveState, OTA_RETRY_MAX
  <2> QED
    BY <1>7, <2>1, <2>2 DEF SlaveRetry, FlashTypeOK
<1>8. CASE SlaveVerify
  <2>1. MacTypeOK'
    BY <1>0, <1>8, StepType DEF SlaveVerify
  <2>2. FlashTypeOK'
    BY <1>0, <1>8, FlagType DEF SlaveVerify, FlashTypeOK
  <2> QED
    BY <1>8, <2>1, <2>2, SlaveMoveType, Zenon DEF SlaveVerify, SlaveState
<1>9. CASE SlaveClearFlag
  <2>1. FlashTypeOK'
    BY <1>0, <1>9, FlagType DEF SlaveClearFlag, FlashTypeOK
  <2>2. MacTypeOK'
    BY <1>9 DEF SlaveClearFlag, macVars, MacTypeOK
  <2> QED
    BY <1>9, <2>1, <2>2, SlaveMoveType, Zenon DEF SlaveClearFlag, SlaveState
<1>10. CASE SlaveReboot
  BY <1>10, SlaveResetType DEF SlaveReboot, FlashTypeOK
<1>11. CASE SlaveError
  BY <1>0, <1>11, SlaveResetType, EraseType DEF SlaveError, FlashTypeOK
<1> QED
  BY <1>1, <1>2, <1>3, <1>4, <1>5, <1>6, <1>7, <1>8, <1>9, <1>10, <1>11 DEF OTA_SlaveStart
-----------------------------------------------------------------------------
USE DEF FlashTypeOK

LEMMA InitType == Init => TypeOK
<1> SUFFICES ASSUME Init PROVE TypeOK
  OBVIOUS
<1>1. MasterTypeOK
  BY DEF Init, MasterInit, MasterBoot, MasterTypeOK, MasterState, OTA_RETRY_MAX
<1>2. SlaveTypeOK
  BY SlaveBootType DEF Init, SlaveInit, SlaveTypeOK
<1>3. FlashTypeOK
  <2>1. ASSUME NEW im \in Image, NEW flag \in {"blank", "set", "cleared"}
        PROVE  Factory(flag, im) \in BankContent
    BY MaxBlockNumType DEF Factory, BankContent, CellContent, Block, BlockOf
  <2>2. BlankBank \in BankContent
    BY DEF BlankBank, BankContent, CellContent
  <2> QED
    BY <2>1, <2>2, FactoryAssumption DEF Init, FlashInit
<1>4. MacTypeOK
  <2>1. NoFrame \in Frame /\ NoPacket \in Packet
    BY DEF NoFrame, NoPacket, Frame, Packet
  <2> QED
    BY <2>1, HeldAssumption DEF Init, MacInit, MacTypeOK, MSG_QUEUE_LEN
<1>5. pressed \in [Node -> 0 .. MaxPress] /\ delivered \subseteq Image \X (0 .. MaxPress)
  BY PressAssumption DEF Init
<1> QED
  BY <1>1, <1>2, <1>3, <1>4, <1>5 DEF TypeOK

LEMMA PressType ==
    ASSUME TypeOK, NEW n \in Node, Press(n)
    PROVE  pressed' \in [Node -> 0 .. MaxPress]
BY PressAssumption DEF TypeOK, Press

LEMMA EraseInType ==
    ASSUME TypeOK, SlavePowerLossInErase
    PROVE  SlaveTypeOK' /\ FlashTypeOK' /\ MacTypeOK'
<1>1. PICK bank \in Bank : \E torn \in TornErases(flash[bank]) :
                               flash' = [flash EXCEPT ![bank] = torn]
  BY DEF SlavePowerLossInErase
<1>2. flash[bank] \in BankContent
  BY DEF TypeOK
<1>3. FlashTypeOK'
  BY <1>1, <1>2, EraseType DEF TypeOK
<1> QED
  BY <1>3, SlaveResetType DEF SlavePowerLossInErase, TypeOK

LEMMA NextType == TypeOK /\ [Next]_vars => TypeOK'
<1> SUFFICES ASSUME TypeOK, [Next]_vars PROVE TypeOK'
  OBVIOUS
<1> USE DEF TypeOK
<1>1. CASE PressMaster
  <2>1. MasterTypeOK' /\ UNCHANGED macVars
    BY <1>1 DEF PressMaster, OTA_MasterInit, MasterLowBattery, MasterTypeOK, MasterState
  <2> QED
    BY <1>1, <2>1, PressType DEF PressMaster, SlaveTypeOK, MacTypeOK, macVars
<1>2. CASE MasterStep
  BY <1>2, MasterStartType DEF MasterStep, SlaveTypeOK
<1>3. CASE MasterFails
  <2>1. MasterTypeOK' /\ MacTypeOK'
    BY <1>3, MacResetType DEF MasterFails, MasterPowerLoss, MasterReset, MasterBoot,
                              MasterTypeOK, MasterState, OTA_RETRY_MAX
  <2> QED
    BY <1>3, <2>1 DEF MasterFails, SlaveTypeOK
<1>4. CASE PressSlave
  <2>1. CASE OTA_SlaveInit
    <3>1. PICK im \in Image : SlaveCtrl' = [SlaveBoot EXCEPT !.State = "IDLE",
                                                            !.FlashAddr = Other(BootBank),
                                                            !.FwVersion = Version[im]]
      BY <2>1 DEF OTA_SlaveInit
    <3>2. /\ Other(BootBank) \in Bank /\ "IDLE" \in SlaveState
          /\ Version[im] \in Nat
      BY ImageAssumption DEF Bank, SlaveState, BootBank, Other
    <3>3. SlaveTypeOK'
      <4>1. SlaveBoot \in SlaveCtrlType
        BY <3>2, SlaveBootType
      <4> QED
        BY <3>1, <3>2, <4>1 DEF SlaveTypeOK
    <3>4. FlashTypeOK'
      BY <2>1, <3>2, EraseType DEF OTA_SlaveInit
    <3> QED
      BY <1>4, <2>1, <3>3, <3>4, PressType DEF OTA_SlaveInit, PressSlave, MasterTypeOK, MacTypeOK, macVars
  <2>2. CASE SlaveLowBattery
    <3>1. SlaveTypeOK'
      BY <2>2, SlaveMoveType DEF SlaveLowBattery, SlaveState
    <3> QED
      BY <1>4, <2>2, <3>1, PressType DEF SlaveLowBattery, PressSlave, MasterTypeOK, MacTypeOK, macVars
  <2>3. CASE SlavePowerLossInErase
    BY <1>4, <2>3, EraseInType, PressType DEF PressSlave, MasterTypeOK
  <2> QED
    BY <1>4, <2>1, <2>2, <2>3 DEF PressSlave
<1>5. CASE SlaveStep
  <2>1. delivered' \subseteq Image \X (0 .. MaxPress)
    BY <1>5 DEF SlaveStep, Complete
  <2> QED
    BY <1>5, <2>1, SlaveStartType DEF SlaveStep, MasterTypeOK
<1>6. CASE SlaveFails
  <2>1. CASE SlavePowerLoss
    BY <1>6, <2>1, SlaveResetType DEF SlaveFails, SlavePowerLoss, MasterTypeOK
  <2>2. CASE SlavePowerLossInErase
    BY <1>6, <2>2, EraseInType DEF SlaveFails, MasterTypeOK
  <2> QED
    BY <1>6, <2>1, <2>2 DEF SlaveFails
<1>7. CASE \E n \in Node : RadioStep(n)
  BY <1>7, AirType DEF RadioStep, MasterTypeOK, SlaveTypeOK
<1>8. CASE UNCHANGED vars
  BY <1>8 DEF vars, macVars, MasterTypeOK, SlaveTypeOK, MacTypeOK
<1> QED
  BY <1>1, <1>2, <1>3, <1>4, <1>5, <1>6, <1>7, <1>8 DEF Next

(* Every reachable state is well typed: retries stay within OTA_RETRY_MAX, the
   queues within MSG_QUEUE_LEN, the flash is made of blocks. *)
THEOREM TypeCorrect == Spec => []TypeOK
<1>1. Init => TypeOK
  BY InitType
<1>2. TypeOK /\ [Next]_vars => TypeOK'
  BY NextType
<1> QED
  BY <1>1, <1>2, PTL DEF Spec
-----------------------------------------------------------------------------
(***************************************************************************)
(* The running firmware.  While an update is under way the slave writes to *)
(* the bank that does not boot, and that bank's flag is blank; only when   *)
(* all of an image is verified to be there is its flag set, and only then  *)
(* is the other flag cleared.                                              *)
(***************************************************************************)
Updating == SlaveCtrl.State \in {"IDLE", "FW_VERSION_READY", "START_READY", "DATA_READY",
                                 "END_READY", "END", "ERROR"}

BootInv ==
    /\ BootSafe
    /\ Updating => /\ SlaveCtrl.FlashAddr = Other(BootBank)
                   /\ Target.flag = "blank"
    /\ SlaveIn("END") => Complete \subseteq ReceivedWhole
    /\ SlaveIn("FLAG_SET") =>
         /\ Target.flag = "set"
         /\ flash[0].flag = "set"
         /\ \E im \in ReceivedWhole \cap Image : Sealed[im] /\ Holds(Target.cell, im)

LEMMA OneComplete ==
    ASSUME NEW im1 \in Complete, NEW im2 \in Complete
    PROVE  im1 = im2
BY OneBlocks DEF Complete

(* The check of the END state: the three CRCs agree only if what is in flash is
   a whole image, the one received, with its own CRC in its trailer. *)
LEMMA VerifiedImage ==
    ASSUME SlaveTypeOK, Verified
    PROVE  \E im \in Complete : Sealed[im] /\ Holds(Target.cell, im)
<1> DEFINE blk == Target.cell[Written]
<1>1. SlaveCtrl.PktCRC # BadCRC
  BY SentinelAssumption DEF SlaveTypeOK
<1>2. /\ FwCRC = [i \in 1 .. Written |-> Target.cell[i]]
      /\ FwCRC = SlaveCtrl.PktCRC
      /\ TrailerCRC(blk) = FwCRC
      /\ Written \in Nat
  BY <1>1 DEF Verified, FwCRC
<1>3. /\ blk \in BlockOf
      /\ Sealed[blk.im]
      /\ TrailerCRC(blk) = Blocks(blk.im)
  BY <1>1, <1>2 DEF TrailerCRC
<1>4. blk.im \in Image
  BY <1>3 DEF BlockOf
<1>5. Blocks(blk.im) = [i \in 1 .. Written |-> Target.cell[i]]
  BY <1>2, <1>3
<1>6. 1 .. MaxBlockNum(blk.im) = 1 .. Written
  BY <1>5 DEF Blocks
<1>7. \A i \in 1 .. MaxBlockNum(blk.im) : Target.cell[i] = Block(blk.im, i)
  BY <1>5, <1>6 DEF Blocks
<1> QED
  BY <1>2, <1>3, <1>4, <1>7 DEF Complete, Holds

(* What a step has to show: the running firmware is not written to, and what
   boots changes as AtomicUpdate says. *)
AtomicStep ==
    \/ UNCHANGED <<Running, ReceivedWhole>>
    \/ \E im \in Image : Update!Receive(im) \/ Update!Install(im)

LEMMA KeptSafe ==
    ASSUME BootSafe, BootKept
    PROVE  BootSafe' /\ CellsKept /\ UNCHANGED Running
BY DEF BootSafe, BootKept, CellsKept, Running

LEMMA KeptAtomic ==
    ASSUME BootSafe, BootKept, UNCHANGED delivered
    PROVE  BootSafe' /\ CellsKept /\ AtomicStep
BY KeptSafe DEF AtomicStep, ReceivedWhole

(* Steps that change neither the flash nor SlaveCtrl. *)
LEMMA OthersStep ==
    ASSUME BootInv, UNCHANGED <<SlaveCtrl, flash, delivered>>
    PROVE  BootInv' /\ CellsKept /\ AtomicStep
<1>1. BootKept
  BY DEF BootKept, BootBank
<1>2. Complete' = Complete /\ ReceivedWhole' = ReceivedWhole /\ Target' = Target
      /\ BootBank' = BootBank
  BY DEF Complete, ReceivedWhole, Target, BootBank
<1>3. BootSafe' /\ CellsKept /\ AtomicStep
  BY <1>1, KeptAtomic DEF BootInv
<1> QED
  BY <1>2, <1>3 DEF BootInv, Updating, SlaveIn

(* Steps after which the slave is in main()'s first loop again. *)
LEMMA ResetStep ==
    ASSUME BootInv, BootKept, SlaveReset, UNCHANGED delivered
    PROVE  BootInv' /\ CellsKept /\ AtomicStep
<1>1. SlaveCtrl'.State = "APP"
  BY DEF SlaveReset, SlaveBoot
<1>2. BootSafe' /\ CellsKept /\ AtomicStep
  BY KeptAtomic DEF BootInv
<1> QED
  BY <1>1, <1>2 DEF BootInv, Updating, SlaveIn

(* Power fails within an erasure. *)
LEMMA EraseFailsStep ==
    ASSUME TypeOK, BootInv, SlavePowerLossInErase, UNCHANGED delivered
    PROVE  BootInv' /\ CellsKept /\ AtomicStep
<1>1. PICK bank \in Bank :
        /\ \/ SlaveIn("ERROR") /\ bank = SlaveCtrl.FlashAddr
           \/ SlaveIn("APP") /\ bank = Other(BootBank)
        /\ \E torn \in TornErases(flash[bank]) : flash' = [flash EXCEPT ![bank] = torn]
  BY DEF SlavePowerLossInErase
<1>2. bank = Other(BootBank)
  BY <1>1 DEF BootInv, Updating, SlaveIn
<1>3. PICK torn \in TornErases(flash[bank]) : flash' = [flash EXCEPT ![bank] = torn]
  BY <1>1
<1>4. torn.flag = "set" => flash[bank].flag = "set"
  BY <1>3, EraseFlag
<1>5. BootKept
  BY <1>2, <1>3, <1>4, OtherBankKept DEF TypeOK
<1> QED
  BY <1>5, ResetStep DEF SlavePowerLossInErase

LEMMA InitStep ==
    ASSUME TypeOK, BootInv, OTA_SlaveInit, UNCHANGED delivered
    PROVE  BootInv' /\ CellsKept /\ AtomicStep
<1>1. /\ flash' = [flash EXCEPT ![Other(BootBank)] = Erase(flash[Other(BootBank)])]
      /\ SlaveCtrl'.State = "IDLE" /\ SlaveCtrl'.FlashAddr = Other(BootBank)
  BY DEF OTA_SlaveInit, SlaveBoot
<1>2. BootKept
  BY <1>1, EraseFlag, OtherBankKept DEF TypeOK
<1>3. BootSafe' /\ CellsKept /\ AtomicStep
  BY <1>2, KeptAtomic DEF BootInv
<1>4. SlaveCtrl'.FlashAddr = Other(BootBank)' /\ Target'.flag = "blank"
  BY <1>1, <1>2, EraseFlag, BankType DEF BootKept, Other, Target, TypeOK
<1> QED
  BY <1>1, <1>3, <1>4 DEF BootInv, SlaveIn

(* The END state: verification, and the flag of the bank written to. *)
LEMMA VerifyStep ==
    ASSUME TypeOK, BootInv, SlaveVerify, UNCHANGED delivered
    PROVE  BootInv' /\ CellsKept /\ AtomicStep
<1> DEFINE t == SlaveCtrl.FlashAddr
<1>0. /\ t \in Bank /\ t = Other(BootBank) /\ flash[t].flag = "blank"
      /\ Complete \subseteq ReceivedWhole
      /\ flash \in [Bank -> BankContent]
  BY DEF SlaveVerify, BootInv, Updating, SlaveIn, Target, TypeOK, SlaveTypeOK
<1>1. CASE Verified
  <2>1. /\ flash' = [flash EXCEPT ![t] = SetFlag(flash[t])]
        /\ SlaveCtrl'.State = "FLAG_SET" /\ SlaveCtrl'.FlashAddr = t
    BY <1>1 DEF SlaveVerify, TypeOK, SlaveTypeOK
  <2>2. PICK im \in Complete : Sealed[im] /\ Holds(flash[t].cell, im)
    BY <1>1, VerifiedImage DEF TypeOK, Target
  <2>3. im \in Image /\ im \in ReceivedWhole
    BY <1>0 DEF Complete
  <2>4. /\ flash'[t].flag = "set" /\ flash'[t].cell = flash[t].cell
        /\ flash'[BootBank] = flash[BootBank]
    <3>1. flash[t] \in BankContent /\ flash[t].flag = "blank"
      BY <1>0
    <3>2. SetFlag(flash[t]).flag = "set" /\ SetFlag(flash[t]).cell = flash[t].cell
      BY <3>1 DEF SetFlag, BankContent
    <3>3. BootBank # t /\ BootBank \in Bank
      BY <1>0, BankType DEF Other, Bank
    <3> QED
      BY <1>0, <2>1, <3>2, <3>3
  <2>5. Bootable(flash'[t])
    BY <2>2, <2>3, <2>4 DEF Bootable
  <2>6. ReceivedWhole' = ReceivedWhole
    BY DEF ReceivedWhole
  <2>7. flash'[0].flag = "set"
    BY <1>0, <2>4, BankType DEF BootInv, BootSafe, Bootable, BootBank, Other, Bank
  <2>8. BootBank' = 0
    BY <2>7 DEF BootBank
  <2>9. CASE t = 0
    <3>1. BootSafe'
      BY <2>5, <2>8, <2>9 DEF BootSafe
    <3>2. Running' = im
      BY <2>2, <2>3, <2>4, <2>8, <2>9, ImageInHeld DEF Running
    <3>3. AtomicStep
      BY <2>2, <2>3, <2>6, <3>2 DEF AtomicStep, Update!Install
    <3> QED
      BY <2>1, <2>2, <2>3, <2>4, <2>6, <2>7, <3>1, <3>3
      DEF BootInv, Updating, SlaveIn, Target, CellsKept
  <2>10. CASE t = 1
    <3>1. BootKept
      BY <1>0, <2>4, <2>8, <2>10, BankType DEF BootKept, Other
    <3>2. BootSafe' /\ CellsKept /\ AtomicStep
      BY <3>1, KeptAtomic DEF BootInv
    <3> QED
      BY <2>1, <2>2, <2>3, <2>4, <2>6, <2>7, <3>2 DEF BootInv, Updating, SlaveIn, Target
  <2> QED
    BY <1>0, <2>9, <2>10 DEF Bank
<1>2. CASE ~Verified
  <2>1. UNCHANGED flash /\ SlaveCtrl'.State = "ERROR" /\ SlaveCtrl'.FlashAddr = t
    BY <1>2 DEF SlaveVerify, TypeOK, SlaveTypeOK
  <2>2. BootKept
    BY <2>1 DEF BootKept, BootBank
  <2>3. BootSafe' /\ CellsKept /\ AtomicStep
    BY <2>2, KeptAtomic DEF BootInv
  <2> QED
    BY <1>0, <2>1, <2>2, <2>3 DEF BootInv, Updating, SlaveIn, Target, BootKept, Other
<1> QED
  BY <1>1, <1>2

(* Then the flag of the bank that ran is cleared. *)
LEMMA ClearFlagStep ==
    ASSUME TypeOK, BootInv, SlaveClearFlag, UNCHANGED delivered
    PROVE  BootInv' /\ CellsKept /\ AtomicStep
<1> DEFINE t == SlaveCtrl.FlashAddr
<1>0. /\ t \in Bank /\ flash[t].flag = "set" /\ flash[0].flag = "set"
      /\ flash \in [Bank -> BankContent]
  BY DEF SlaveClearFlag, BootInv, SlaveIn, Target, TypeOK, SlaveTypeOK
<1>1. /\ flash' = [flash EXCEPT ![Other(t)] = ClearFlag(flash[Other(t)])]
      /\ SlaveCtrl'.State = "FLAG_CLEARED"
  BY DEF SlaveClearFlag, TypeOK, SlaveTypeOK
<1>2. PICK im \in ReceivedWhole \cap Image : Sealed[im] /\ Holds(flash[t].cell, im)
  BY DEF SlaveClearFlag, BootInv, SlaveIn, Target
<1>3. flash'[t] = flash[t] /\ Bootable(flash[t])
  BY <1>0, <1>1, <1>2 DEF Other, Bank, Bootable
<1>4. flash'[Other(t)].cell = flash[Other(t)].cell /\ flash'[Other(t)].flag = "cleared"
  BY <1>0, <1>1 DEF Other, Bank, ClearFlag, BankContent
<1>5. BootBank' = t
  BY <1>0, <1>3, <1>4 DEF BootBank, Bank, Other
<1>6. BootSafe'
  BY <1>3, <1>5 DEF BootSafe
<1>7. CellsKept
  BY <1>0, <1>3, <1>4, BankType DEF CellsKept, Bank, Other, BootBank
<1>8. Running' = im
  BY <1>2, <1>3, <1>5, ImageInHeld DEF Running
<1>9. AtomicStep
  BY <1>2, <1>8 DEF AtomicStep, Update!Install, ReceivedWhole
<1> QED
  BY <1>1, <1>6, <1>7, <1>9 DEF BootInv, Updating, SlaveIn

(* The steps of a session that do not touch the flash, nor verify. *)
LEMMA SessionStep ==
    ASSUME TypeOK, BootInv, UNCHANGED flash, Updating,
           SlaveCtrl'.FlashAddr = SlaveCtrl.FlashAddr,
           SlaveCtrl'.State \in {"FW_VERSION_READY", "START_READY", "DATA_READY", "END_READY", "ERROR"},
           UNCHANGED delivered
    PROVE  BootInv' /\ CellsKept /\ AtomicStep
<1>1. BootKept
  BY DEF BootKept, BootBank
<1>2. BootSafe' /\ CellsKept /\ AtomicStep
  BY <1>1, KeptAtomic DEF BootInv
<1>3. Target' = Target /\ Other(BootBank)' = Other(BootBank)
  BY <1>1 DEF Target, BootKept, Other
<1> QED
  BY <1>2, <1>3 DEF BootInv, Updating, SlaveIn

(* A block is written to the bank that does not boot. *)
LEMMA BlockStep ==
    ASSUME TypeOK, BootInv, SlaveBlock, UNCHANGED delivered
    PROVE  BootInv' /\ CellsKept /\ AtomicStep
<1> DEFINE t == SlaveCtrl.FlashAddr
<1>0. /\ t = Other(BootBank) /\ t \in Bank /\ flash[t].flag = "blank"
      /\ flash[t] \in BankContent
  BY DEF SlaveBlock, BootInv, Updating, SlaveIn, Target, TypeOK, SlaveTypeOK
<1>1. /\ flash' = [flash EXCEPT ![t] = WriteBlock(flash[t])]
      /\ SlaveCtrl'.State \in {"DATA_READY", "END_READY"}
      /\ SlaveCtrl'.FlashAddr = t
  BY DEF SlaveBlock, SlaveIn, TypeOK, SlaveTypeOK
<1>2. WriteBlock(flash[t]).flag = "blank"
  BY <1>0, WriteBlockType
<1>3. BootKept
  BY <1>0, <1>1, <1>2, OtherBankKept DEF TypeOK
<1>4. BootSafe' /\ CellsKept /\ AtomicStep
  BY <1>3, KeptAtomic DEF BootInv
<1>5. Target'.flag = "blank" /\ SlaveCtrl'.FlashAddr = Other(BootBank)'
  BY <1>0, <1>1, <1>2, <1>3 DEF Target, BootKept, Other, TypeOK
<1> QED
  BY <1>1, <1>4, <1>5 DEF BootInv, Updating, SlaveIn

(* The END request: from here on the image is known to be received whole. *)
LEMMA EndReqStep ==
    ASSUME TypeOK, BootInv, SlaveEndReq, SlaveStep
    PROVE  BootInv' /\ CellsKept /\ AtomicStep
<1>0. /\ UNCHANGED flash
      /\ SlaveIn("END_READY") /\ Updating
      /\ SlaveCtrl'.State \in {"END", "ERROR"}
      /\ SlaveCtrl'.FlashAddr = SlaveCtrl.FlashAddr
      /\ SlaveCtrl'.PktCRC = SlaveCtrl.PktCRC
  BY DEF SlaveEndReq, SlaveIn, Updating, TypeOK, SlaveTypeOK
<1>1. CASE SlaveCtrl'.State = "END"
  <2>1. delivered' = delivered \cup {<<im, pressed["master"]>> : im \in Complete}
    BY <1>0, <1>1 DEF SlaveStep
  <2>2. ReceivedWhole' = ReceivedWhole \cup Complete
    <3> DEFINE new == {<<im, pressed["master"]>> : im \in Complete}
    <3>1. {d[1] : d \in new} = Complete
      <4>1. ASSUME NEW d \in new PROVE d[1] \in Complete
        OBVIOUS
      <4>2. ASSUME NEW im \in Complete PROVE \E d \in new : d[1] = im
        <5>1. <<im, pressed["master"]>> \in new /\ <<im, pressed["master"]>>[1] = im
          OBVIOUS
        <5> QED
          BY <5>1
      <4> QED
        BY <4>1, <4>2
    <3>2. ReceivedWhole' = {d[1] : d \in delivered \cup new}
      BY <2>1 DEF ReceivedWhole
    <3> HIDE DEF new
    <3> QED
      BY <3>1, <3>2 DEF ReceivedWhole
  <2>3. Complete' = Complete
    BY <1>0 DEF Complete
  <2>4. BootKept
    BY <1>0 DEF BootKept, BootBank
  <2>5. BootSafe' /\ CellsKept /\ UNCHANGED Running
    BY <2>4, KeptSafe DEF BootInv
  <2>6. AtomicStep
    <3>1. CASE Complete = {}
      BY <2>2, <2>5, <3>1 DEF AtomicStep
    <3>2. CASE Complete # {}
      <4>1. PICK im \in Complete : TRUE
        BY <3>2
      <4>2. im \in Image /\ Complete = {im}
        BY <4>1, OneComplete DEF Complete
      <4>3. Update!Receive(im)
        BY <2>2, <2>5, <4>2 DEF Update!Receive
      <4> QED
        BY <4>2, <4>3 DEF AtomicStep
    <3> QED
      BY <3>1, <3>2
  <2>7. Target' = Target /\ Other(BootBank)' = Other(BootBank)
    BY <1>0, <2>4 DEF Target, BootKept, Other
  <2> QED
    BY <1>0, <1>1, <2>2, <2>3, <2>5, <2>6, <2>7 DEF BootInv, Updating, SlaveIn
<1>2. CASE SlaveCtrl'.State = "ERROR"
  <2>1. UNCHANGED delivered
    BY <1>2 DEF SlaveStep
  <2> QED
    BY <1>0, <1>2, <2>1, SessionStep
<1> QED
  BY <1>0, <1>1, <1>2

LEMMA SlaveBootStep ==
    ASSUME TypeOK, BootInv, SlaveStep
    PROVE  BootInv' /\ CellsKept /\ AtomicStep
<1>0. (SlaveIn("END_READY") /\ SlaveCtrl'.State = "END") \/ UNCHANGED delivered
  BY DEF SlaveStep
<1>1. CASE SlaveIdle \/ SlaveVersionReq \/ SlaveRepeat \/ SlaveStartReq \/ SlaveRetry
  <2>1. /\ UNCHANGED flash /\ Updating
        /\ SlaveCtrl'.FlashAddr = SlaveCtrl.FlashAddr
        /\ SlaveCtrl'.State \in {"FW_VERSION_READY", "START_READY", "DATA_READY", "END_READY", "ERROR"}
    BY <1>1 DEF SlaveIdle, SlaveVersionReq, SlaveRepeat, SlaveStartReq, SlaveRetry, SlaveWaits,
                SlaveIn, Updating, TypeOK, SlaveTypeOK
  <2> QED
    BY <1>0, <2>1, SessionStep
<1>2. CASE SlaveBlock
  BY <1>0, <1>2, BlockStep DEF SlaveBlock, SlaveIn
<1>3. CASE SlaveEndReq
  BY <1>3, EndReqStep
<1>4. CASE SlaveVerify
  BY <1>0, <1>4, VerifyStep DEF SlaveVerify, SlaveIn
<1>5. CASE SlaveClearFlag
  BY <1>0, <1>5, ClearFlagStep DEF SlaveClearFlag, SlaveIn
<1>6. CASE SlaveReboot
  <2>1. BootKept /\ UNCHANGED delivered
    BY <1>0, <1>6 DEF SlaveReboot, SlaveIn, BootKept, BootBank
  <2> QED
    BY <1>6, <2>1, ResetStep DEF SlaveReboot
<1>7. CASE SlaveError
  <2>1. SlaveCtrl.FlashAddr = Other(BootBank)
    BY <1>7 DEF SlaveError, SlaveIn, BootInv, Updating
  <2>2. BootKept
    BY <1>7, <2>1, EraseFlag, OtherBankKept DEF SlaveError, TypeOK
  <2> QED
    BY <1>0, <1>7, <2>2, ResetStep DEF SlaveError, SlaveIn
<1> QED
  BY <1>1, <1>2, <1>3, <1>4, <1>5, <1>6, <1>7 DEF SlaveStep, OTA_SlaveStart

LEMMA InitBoot == Init => BootInv
<1> SUFFICES ASSUME Init PROVE BootInv
  OBVIOUS
<1>1. PICK im \in Image : flash[0] = Factory("set", im)
  BY FactoryAssumption DEF Init, FlashInit, Bank
<1>2. Holds(flash[0].cell, im) /\ flash[0].flag = "set"
  BY <1>1, FlashAssumption, MaxBlockNumType DEF Holds, Factory
<1>3. BootSafe
  BY <1>2 DEF BootSafe, Bootable, BootBank
<1>4. SlaveCtrl.State = "APP"
  BY DEF Init, SlaveInit, SlaveBoot
<1> QED
  BY <1>3, <1>4 DEF BootInv, Updating, SlaveIn

LEMMA NextBoot == TypeOK /\ BootInv /\ [Next]_vars => BootInv' /\ CellsKept /\ AtomicStep
<1> SUFFICES ASSUME TypeOK, BootInv, [Next]_vars PROVE BootInv' /\ CellsKept /\ AtomicStep
  OBVIOUS
<1>1. CASE PressMaster \/ MasterStep \/ MasterFails \/ UNCHANGED vars
  BY <1>1, OthersStep DEF PressMaster, MasterStep, MasterFails, vars
<1>2. CASE PressSlave
  <2>1. CASE SlaveLowBattery
    <3>1. /\ SlaveCtrl'.State = "LOW_BATT" /\ UNCHANGED delivered
          /\ BootKept
      BY <1>2, <2>1 DEF PressSlave, SlaveLowBattery, BootKept, BootBank, TypeOK, SlaveTypeOK
    <3>2. BootSafe' /\ CellsKept /\ AtomicStep
      BY <3>1, KeptAtomic DEF BootInv
    <3> QED
      BY <3>1, <3>2 DEF BootInv, Updating, SlaveIn
  <2> QED
    BY <1>2, <2>1, InitStep, EraseFailsStep DEF PressSlave
<1>3. CASE SlaveStep
  BY <1>3, SlaveBootStep
<1>4. CASE SlaveFails
  <2>1. CASE SlavePowerLoss
    <3>1. BootKept /\ UNCHANGED delivered
      BY <1>4, <2>1 DEF SlaveFails, SlavePowerLoss, BootKept, BootBank
    <3> QED
      BY <2>1, <3>1, ResetStep DEF SlavePowerLoss
  <2> QED
    BY <1>4, <2>1, EraseFailsStep DEF SlaveFails
<1>5. CASE \E n \in Node : RadioStep(n)
  BY <1>5, OthersStep DEF RadioStep
<1> QED
  BY <1>1, <1>2, <1>3, <1>4, <1>5 DEF Next

LEMMA BootInvariant == Spec => [](TypeOK /\ BootInv)
<1>1. Init => TypeOK /\ BootInv
  BY InitType, InitBoot
<1>2. (TypeOK /\ BootInv) /\ [Next]_vars => (TypeOK /\ BootInv)'
  BY NextType, NextBoot
<1> QED
  BY <1>1, <1>2, PTL DEF Spec

(* Wherever the power fails, the bank that boots holds a whole image. *)
THEOREM AlwaysBootable == Spec => []BootSafe
<1>1. BootInv => BootSafe
  BY DEF BootInv
<1> QED
  BY <1>1, BootInvariant, PTL

(* No step writes to the cells of the bank that boots. *)
THEOREM RunningFirmwareKept == Spec => RunningBankUntouched
<1>1. TypeOK /\ BootInv /\ [Next]_vars => [flash'[BootBank].cell = flash[BootBank].cell]_vars
  BY NextBoot DEF CellsKept
<1> QED
  BY <1>1, BootInvariant, PTL DEF Spec, RunningBankUntouched

(* The update implements AtomicUpdate: the firmware that boots changes in one
   step, to an image received from beginning to end with its CRC in its
   trailer. *)
THEOREM ImplementsAtomicUpdate == Spec => UpdateIsAtomic
<1>1. Init => Update!Init
  <2> SUFFICES ASSUME Init PROVE Update!Init
    OBVIOUS
  <2>1. \E im \in Image : Holds(flash[BootBank].cell, im)
    BY InitBoot DEF BootInv, BootSafe, Bootable
  <2>2. Running \in Image
    BY <2>1, ImageInHeld DEF Running
  <2>3. ReceivedWhole = {}
    BY DEF Init, ReceivedWhole
  <2> QED
    BY <2>2, <2>3 DEF Update!Init
<1>2. TypeOK /\ BootInv /\ [Next]_vars => [Update!Next]_<<Running, ReceivedWhole>>
  BY NextBoot DEF AtomicStep, Update!Next
<1> QED
  BY <1>1, <1>2, BootInvariant, PTL DEF Spec, UpdateIsAtomic, Update!Spec
-----------------------------------------------------------------------------
(***************************************************************************)
(* One thing in flight at each node.  A node starts its radio only when it *)
(* has just popped the only message there was, or for the first time.      *)
(***************************************************************************)
Quiet(n) == radio[n] = "off" /\ MsgQueue[n] = << >>

Alone(n) ==
    /\ radio[n] = "off" \/ MsgQueue[n] = << >>
    /\ Len(MsgQueue[n]) <= 1

FlightInv ==
    /\ \A n \in Node : Alone(n)
    /\ MasterCtrl.State \in {"APP", "LOW_BATT", "IDLE"} => Quiet("master")
    /\ SlaveCtrl.State \in {"APP", "LOW_BATT", "IDLE"} => Quiet("slave")

LEMMA AloneMeansOne ==
    ASSUME MacTypeOK, \A n \in Node : Alone(n)
    PROVE  OneOutstanding
<1> SUFFICES ASSUME NEW n \in Node
             PROVE  Len(MsgQueue[n]) + (IF radio[n] = "off" THEN 0 ELSE 1) <= 1
  BY DEF OneOutstanding
<1>1. MsgQueue[n] \in Seq(Message) /\ Alone(n)
  BY DEF MacTypeOK
<1>2. Len(MsgQueue[n]) \in Nat
  BY <1>1
<1>3. CASE radio[n] = "off"
  BY <1>1, <1>2, <1>3 DEF Alone
<1>4. CASE radio[n] # "off"
  <2>1. Len(MsgQueue[n]) = 0
    BY <1>1, <1>4 DEF Alone
  <2> QED
    BY <2>1, <1>4
<1> QED
  BY <1>3, <1>4

(* A queue of at most one message is empty once popped. *)
LEMMA PopEmpties ==
    ASSUME MacTypeOK, NEW n \in Node, Alone(n), Pop(n) \/ Drop(n)
    PROVE  MsgQueue'[n] = << >> /\ MsgQueue'[Peer(n)] = MsgQueue[Peer(n)]
<1>1. MsgQueue[n] \in Seq(Message) /\ Len(MsgQueue[n]) <= 1
  BY DEF MacTypeOK, Alone
<1>2. MsgQueue[n] # << >> => Tail(MsgQueue[n]) = << >>
  BY <1>1
<1>3. MsgQueue' = [MsgQueue EXCEPT ![n] = IF @ = << >> THEN @ ELSE Tail(@)]
  BY DEF Pop, Drop
<1> QED
  BY <1>2, <1>3 DEF MacTypeOK

(* The main loop of n took the only message there was; what it starts now is
   alone. *)
LEMMA LoopFlight ==
    ASSUME MacTypeOK, NEW n \in Node, \A m \in Node : Alone(m), Pop(n) \/ Drop(n),
           \/ \E frame, len : MAC_SendData(n, frame, len)
           \/ MAC_RecvData(n)
           \/ NoSend
    PROVE  /\ \A m \in Node : Alone(m)'
           /\ Quiet(Peer(n)) => Quiet(Peer(n))'
<1>1. MsgQueue'[n] = << >> /\ MsgQueue'[Peer(n)] = MsgQueue[Peer(n)]
  BY PopEmpties
<1>2. radio'[Peer(n)] = radio[Peer(n)]
  BY DEF MAC_SendData, MAC_RecvData, NoSend, MacTypeOK
<1>3. Alone(n)'
  BY <1>1 DEF Alone
<1>4. Alone(Peer(n))'
  BY <1>1, <1>2 DEF Alone
<1> QED
  BY <1>1, <1>2, <1>3, <1>4 DEF Quiet

LEMMA ResetFlight ==
    ASSUME MacTypeOK, NEW n \in Node, \A m \in Node : Alone(m), MacReset(n)
    PROVE  /\ \A m \in Node : Alone(m)'
           /\ Quiet(n)'
           /\ Quiet(Peer(n)) => Quiet(Peer(n))'
<1>1. MsgQueue'[n] = << >> /\ MsgQueue'[Peer(n)] = MsgQueue[Peer(n)]
  BY DEF MacReset, MacTypeOK
<1>2. radio'[n] = "off" /\ radio'[Peer(n)] = radio[Peer(n)]
  BY DEF MacReset, MacTypeOK
<1>3. Alone(n)' /\ Quiet(n)'
  BY <1>1, <1>2 DEF Alone, Quiet
<1>4. Alone(Peer(n))'
  BY <1>1, <1>2 DEF Alone
<1> QED
  BY <1>1, <1>2, <1>3, <1>4 DEF Quiet

(* An interrupt pushes its message to the empty queue of a node that was
   receiving, and the node's radio is off by then. *)
LEMMA IrqFlight ==
    ASSUME MacTypeOK, NEW n \in Node, Alone(n), radio[n] # "off", radio'[n] = "off",
           NEW msg \in Message, Irq(n, msg)
    PROVE  Alone(n)' /\ MsgQueue'[Peer(n)] = MsgQueue[Peer(n)]
<1>1. MsgQueue[n] = << >> /\ MsgQueue[n] \in Seq(Message)
  BY DEF Alone, MacTypeOK
<1>2. Len(MsgQueue[n]) = 0
  BY <1>1
<1>3. Len(Push(MsgQueue[n], msg)) = 1
  BY <1>1, <1>2 DEF Push, MSG_QUEUE_LEN
<1>4. MsgQueue'[n] = Push(MsgQueue[n], msg) \/ MsgQueue'[n] = MsgQueue[n]
  BY DEF Irq, MacTypeOK
<1>5. Len(MsgQueue'[n]) <= 1
  <2>1. CASE MsgQueue'[n] = Push(MsgQueue[n], msg)
    <3>1. Len(MsgQueue'[n]) = 1
      BY <1>3, <2>1, Zenon
    <3> QED
      BY <3>1
  <2>2. CASE MsgQueue'[n] = MsgQueue[n]
    BY <1>2, <2>2
  <2> QED
    BY <1>4, <2>1, <2>2
<1>6. MsgQueue'[Peer(n)] = MsgQueue[Peer(n)]
  BY DEF Irq, MacTypeOK
<1> QED
  BY <1>5, <1>6 DEF Alone

(* A packet, its loss or a timeout leaves every node alone. *)
LEMMA AirFlight ==
    ASSUME MacTypeOK, NEW n \in Node, \A m \in Node : Alone(m), Air(n)
    PROVE  \A m \in Node : Alone(m)' /\ (Quiet(m) => Quiet(m)')
<1> DEFINE p == Peer(n)
<1>0. /\ p \in Node /\ p # n /\ Peer(p) = n
      /\ Alone(n) /\ Alone(p)
      /\ DOMAIN radio = Node
  BY DEF MacTypeOK
<1>1. CASE Heard(n)
  <2>1. radio[n] = "tx" /\ radio[p] = "rx" /\ radio'[n] = "rx" /\ radio'[p] = "off"
    BY <1>0, <1>1 DEF Heard
  <2>2. Alone(p)' /\ MsgQueue'[n] = MsgQueue[n]
    BY <1>0, <1>1, <2>1, MessageType, IrqFlight DEF Heard
  <2>3. Alone(n)' /\ ~Quiet(n) /\ ~Quiet(p)
    BY <1>0, <2>1, <2>2 DEF Alone, Quiet
  <2> QED
    BY <2>2, <2>3
<1>2. CASE Lost(n)
  BY <1>0, <1>2 DEF Lost, Alone, Quiet
<1>3. CASE Corrupted(n)
  <2>1. /\ radio[n] = "rx" /\ radio'[n] = "off"
        /\ radio'[p] = "off" => radio[p] = "off"
        /\ radio[p] = "off" => radio'[p] = "off"
    BY <1>0, <1>3 DEF Corrupted
  <2>2. Alone(n)' /\ MsgQueue'[p] = MsgQueue[p]
    BY <1>0, <1>3, <2>1, MessageType, IrqFlight DEF Corrupted
  <2>3. Alone(p)' /\ ~Quiet(n) /\ (Quiet(p) => Quiet(p)')
    BY <1>0, <2>1, <2>2 DEF Alone, Quiet
  <2> QED
    BY <2>2, <2>3
<1>4. CASE RxTimeout(n)
  <2>1. radio[n] = "rx" /\ radio'[n] = "off" /\ radio'[p] = radio[p]
    BY <1>0, <1>4 DEF RxTimeout
  <2>2. Alone(n)' /\ MsgQueue'[p] = MsgQueue[p]
    BY <1>0, <1>4, <2>1, MessageType, IrqFlight DEF RxTimeout
  <2>3. Alone(p)' /\ ~Quiet(n) /\ (Quiet(p) => Quiet(p)')
    BY <1>0, <2>1, <2>2 DEF Alone, Quiet
  <2> QED
    BY <2>2, <2>3
<1> QED
  BY <1>1, <1>2, <1>3, <1>4 DEF Air

(* A node that has not started its radio yet has nothing in its queue. *)
LEMMA InitFlight == Init => FlightInv
<1> SUFFICES ASSUME Init PROVE FlightInv
  OBVIOUS
<1>1. \A n \in Node : radio[n] = "off" /\ MsgQueue[n] = << >> /\ Len(MsgQueue[n]) = 0
  BY DEF Init, MacInit
<1> QED
  BY <1>1 DEF FlightInv, Alone, Quiet

(* Each call of OTA_MasterStart takes the only message and starts the radio at
   most once. *)
LEMMA MasterFlight ==
    ASSUME TypeOK, FlightInv, MasterStep
    PROVE  FlightInv'
<1>0. MacTypeOK /\ (\A n \in Node : Alone(n)) /\ "master" \in Node /\ Peer("master") = "slave"
      /\ UNCHANGED SlaveCtrl /\ OTA_MasterStart
  BY DEF TypeOK, FlightInv, MasterStep
<1>1. CASE MasterIdle
  <2>1. Drop("master") /\ (\E frame, len : MAC_SendData("master", frame, len))
        /\ MasterCtrl'.State = "FW_VER_WAIT"
    BY <1>1 DEF MasterIdle, MasterSend, TypeOK, MasterTypeOK
  <2> QED
    BY <1>0, <2>1, LoopFlight DEF FlightInv
<1>2. CASE MasterReboot
  <2>1. MacReset("master")
    BY <1>2 DEF MasterReboot, MasterReset
  <2> QED
    BY <1>0, <2>1, ResetFlight DEF FlightInv
<1>3. CASE ~MasterIdle /\ ~MasterReboot
  <2>1. Pop("master") /\ ((\E frame, len : MAC_SendData("master", frame, len)) \/ NoSend)
    BY <1>0, <1>3 DEF OTA_MasterStart, MasterVersionRsp, MasterStartRsp, MasterDataAck,
       MasterLastAck, MasterEndRsp, MasterRetry, MasterSendBlock, MasterSend
  <2>2. MasterCtrl'.State \notin {"APP", "LOW_BATT", "IDLE"}
    <3>0. MasterTypeOK
      BY DEF TypeOK
    <3>1. CASE MasterRetry
      BY <3>0, <3>1 DEF MasterRetry, MasterWaits, MasterTypeOK
    <3>2. CASE MasterStartRsp \/ MasterDataAck
      BY <3>0, <3>2 DEF MasterStartRsp, MasterDataAck, MasterSendBlock, MasterTypeOK
    <3>3. CASE MasterVersionRsp
      BY <3>0, <3>3 DEF MasterVersionRsp, MasterTypeOK
    <3>4. CASE MasterLastAck
      BY <3>0, <3>4 DEF MasterLastAck, MasterTypeOK
    <3>5. CASE MasterEndRsp
      BY <3>0, <3>5 DEF MasterEndRsp, MasterTypeOK
    <3> QED
      BY <1>0, <1>3, <3>1, <3>2, <3>3, <3>4, <3>5 DEF OTA_MasterStart
  <2> QED
    BY <1>0, <2>1, <2>2, LoopFlight DEF FlightInv
<1> QED
  BY <1>1, <1>2, <1>3

(* So does each call of OTA_SlaveStart. *)
LEMMA SlaveFlight ==
    ASSUME TypeOK, FlightInv, SlaveStep
    PROVE  FlightInv'
<1>0. MacTypeOK /\ (\A n \in Node : Alone(n)) /\ "slave" \in Node /\ Peer("slave") = "master"
      /\ UNCHANGED MasterCtrl /\ OTA_SlaveStart
  BY DEF TypeOK, FlightInv, SlaveStep
<1>1. CASE SlaveReboot \/ SlaveError
  <2>1. MacReset("slave")
    BY <1>1 DEF SlaveReboot, SlaveError, SlaveReset
  <2> QED
    BY <1>0, <2>1, ResetFlight DEF FlightInv
<1>2. CASE SlaveClearFlag
  <2>1. UNCHANGED macVars /\ SlaveCtrl'.State = "FLAG_CLEARED"
    BY <1>2 DEF SlaveClearFlag, TypeOK, SlaveTypeOK
  <2> QED
    BY <1>0, <2>1 DEF FlightInv, Alone, Quiet, macVars
<1>3. CASE ~SlaveReboot /\ ~SlaveError /\ ~SlaveClearFlag
  <2>1. /\ Pop("slave") \/ Drop("slave")
        /\ \/ \E frame, len : MAC_SendData("slave", frame, len)
           \/ MAC_RecvData("slave")
           \/ NoSend
    BY <1>0, <1>3 DEF OTA_SlaveStart, SlaveIdle, SlaveVersionReq, SlaveRepeat, SlaveStartReq,
       SlaveBlock, SlaveEndReq, SlaveRetry, SlaveVerify, SlaveSend
  <2>2. SlaveCtrl'.State \notin {"APP", "LOW_BATT", "IDLE"}
    BY <1>0, <1>3 DEF OTA_SlaveStart, SlaveIdle, SlaveVersionReq, SlaveRepeat, SlaveStartReq,
       SlaveBlock, SlaveEndReq, SlaveRetry, SlaveVerify, SlaveIn, SlaveWaits, TypeOK, SlaveTypeOK
  <2> QED
    BY <1>0, <2>1, <2>2, LoopFlight DEF FlightInv
<1> QED
  BY <1>1, <1>2, <1>3

LEMMA NextFlight == TypeOK /\ FlightInv /\ [Next]_vars => FlightInv'
<1> SUFFICES ASSUME TypeOK, FlightInv, [Next]_vars PROVE FlightInv'
  OBVIOUS
<1>0. MacTypeOK /\ (\A n \in Node : Alone(n))
  BY DEF TypeOK, FlightInv
<1>1. CASE PressMaster
  <2>1. UNCHANGED <<macVars, SlaveCtrl>> /\ MasterIn("APP")
    BY <1>1 DEF PressMaster, OTA_MasterInit, MasterLowBattery
  <2> QED
    BY <2>1 DEF FlightInv, Alone, Quiet, macVars, MasterIn
<1>2. CASE MasterStep
  BY <1>2, MasterFlight
<1>3. CASE MasterFails
  <2>1. MacReset("master") /\ UNCHANGED SlaveCtrl
    BY <1>3 DEF MasterFails, MasterPowerLoss, MasterReset
  <2> QED
    BY <1>0, <2>1, ResetFlight DEF FlightInv
<1>4. CASE PressSlave
  <2>1. CASE SlavePowerLossInErase
    <3>1. MacReset("slave") /\ UNCHANGED MasterCtrl
      BY <1>4, <2>1 DEF PressSlave, SlavePowerLossInErase, SlaveReset
    <3> QED
      BY <1>0, <3>1, ResetFlight DEF FlightInv
  <2>2. CASE OTA_SlaveInit \/ SlaveLowBattery
    <3>1. UNCHANGED <<macVars, MasterCtrl>> /\ SlaveIn("APP")
      BY <1>4, <2>2 DEF PressSlave, OTA_SlaveInit, SlaveLowBattery
    <3> QED
      BY <3>1 DEF FlightInv, Alone, Quiet, macVars, SlaveIn
  <2> QED
    BY <1>4, <2>1, <2>2 DEF PressSlave
<1>5. CASE SlaveStep
  BY <1>5, SlaveFlight
<1>6. CASE SlaveFails
  <2>1. MacReset("slave") /\ UNCHANGED MasterCtrl
    BY <1>6 DEF SlaveFails, SlavePowerLoss, SlavePowerLossInErase, SlaveReset
  <2> QED
    BY <1>0, <2>1, ResetFlight DEF FlightInv
<1>7. CASE \E n \in Node : RadioStep(n)
  <2>1. PICK n \in Node : Air(n) /\ UNCHANGED <<MasterCtrl, SlaveCtrl>>
    BY <1>7 DEF RadioStep
  <2>2. \A m \in Node : Alone(m)' /\ (Quiet(m) => Quiet(m)')
    BY <1>0, <2>1, AirFlight
  <2> QED
    BY <2>1, <2>2 DEF FlightInv
<1>8. CASE UNCHANGED vars
  BY <1>8 DEF FlightInv, Alone, Quiet, vars, macVars
<1> QED
  BY <1>1, <1>2, <1>3, <1>4, <1>5, <1>6, <1>7, <1>8 DEF Next

(* At no time does a node have two of: a message to pop, a started radio. *)
THEOREM NeverTwoOutstanding == Spec => []OneOutstanding
<1>1. Init => TypeOK /\ FlightInv
  BY InitType, InitFlight
<1>2. (TypeOK /\ FlightInv) /\ [Next]_vars => (TypeOK /\ FlightInv)'
  BY NextType, NextFlight
<1>3. TypeOK /\ FlightInv => OneOutstanding
  BY AloneMeansOne DEF TypeOK, FlightInv
<1> QED
  BY <1>1, <1>2, <1>3, PTL DEF Spec
-----------------------------------------------------------------------------
(***************************************************************************)
(* The two ends in step.  Asked is the frame that the master sent last and *)
(* Answer the slave's.  A frame that opens a session says nothing of the   *)
(* slave, which may still be in the session before.  From then on a packet *)
(* that waits at the slave is the very one that the master sent last, and  *)
(* an answer that is on its way, or waits at the master, is the answer to  *)
(* it: so a repeated packet keeps its length, and no answer is ever taken  *)
(* for that of another packet.                                             *)
(***************************************************************************)
Asked == TxFrame["master"]
Answer == TxFrame["slave"]

Opening(frame) == frame = NoFrame \/ IsCmd(frame, OTA_CMD_ID_VERSION_REQ)

BlockPacket(im, k) ==
    [Frame |-> [Type |-> OTA_FRAME_TYPE_DATA, Id |-> k, Val |-> 0, Data |-> Block(im, k)],
     Len |-> 3 + BlockBytes(im, k)]

Request(p, im) ==
    \/ Opening(p.Frame)
    \/ IsCmd(p.Frame, OTA_CMD_ID_START_REQ)
    \/ \E k \in 1 .. MaxBlockNum(im) : p = BlockPacket(im, k)
    \/ IsCmd(p.Frame, OTA_CMD_ID_END_REQ)

Answers(ask, ans) ==
    \/ IsCmd(ask, OTA_CMD_ID_START_REQ) /\ IsCmd(ans, OTA_CMD_ID_START_RSP)
    \/ /\ ask.Type = OTA_FRAME_TYPE_DATA
       /\ ans.Type = OTA_FRAME_TYPE_ACK /\ ans.Id = ask.Id
    \/ IsCmd(ask, OTA_CMD_ID_END_REQ) /\ IsCmd(ans, OTA_CMD_ID_END_RSP)

FirstBlocks(im, n) == [i \in 1 .. n |-> Block(im, i)]

(* The slave answers requests that do not open a session. *)
Active == SlaveCtrl.State \in {"START_READY", "DATA_READY", "END_READY", "END"}

(* The slave has answered frame, or the request before it. *)
InStep(frame, im) ==
    Active =>
      /\ IsCmd(frame, OTA_CMD_ID_START_REQ) =>
           SlaveIn("START_READY") \/ (SlaveIn("DATA_READY") /\ SlaveCtrl.BlockNum = 0)
      /\ frame.Type = OTA_FRAME_TYPE_DATA =>
           /\ SlaveCtrl.State \in {"DATA_READY", "END_READY"}
           /\ SlaveCtrl.BlockNum \in {frame.Id - 1, frame.Id}
           /\ SlaveCtrl.PktCRC = FirstBlocks(im, SlaveCtrl.BlockNum)
      /\ IsCmd(frame, OTA_CMD_ID_END_REQ) =>
           SlaveCtrl.State # "START_READY" /\ SlaveCtrl.PktCRC = Blocks(im)

SameFrame == \A n \in Node : mac_TxBuf[n].Frame = TxFrame[n]

MasterPlace ==
    /\ MasterCtrl.State \in {"APP", "LOW_BATT", "IDLE", "FW_VER_WAIT"} => Opening(Asked)
    /\ MasterIn("START_RSP_WAIT") => IsCmd(Asked, OTA_CMD_ID_START_REQ)
    /\ MasterIn("DATA_ACK_WAIT") =>
         /\ mac_TxBuf["master"] = BlockPacket(MasterCtrl.Bin, MasterCtrl.BlockNum)
         /\ MasterCtrl.BlockNum \in 1 .. MaxBlockNum(MasterCtrl.Bin)
         /\ MasterCtrl.FinishFlag <=> MasterCtrl.BlockNum = MaxBlockNum(MasterCtrl.Bin)
    /\ MasterCtrl.State \in {"START_RSP_WAIT", "DATA_ACK_WAIT", "END_RSP_WAIT"} =>
         FrameLen["master"] = mac_TxBuf["master"].Len
    /\ MasterCtrl.State \in {"END_RSP_WAIT", "END"} => IsCmd(Asked, OTA_CMD_ID_END_REQ)
    /\ MasterCtrl.State \in {"APP", "LOW_BATT", "IDLE", "FW_VER_WAIT", "START_RSP_WAIT"} =>
         MasterCtrl.BlockNum = 0 /\ ~MasterCtrl.FinishFlag

SlavePlace ==
    /\ SlaveCtrl.State \in {"APP", "LOW_BATT", "IDLE", "FW_VERSION_READY", "START_READY"} =>
         SlaveCtrl.BlockNum = 0
    /\ SlaveCtrl.BlockNum = 0 => SlaveCtrl.PktCRC = << >>
    /\ SlaveIn("START_READY") => IsCmd(Answer, OTA_CMD_ID_VERSION_RSP)
    /\ SlaveCtrl.State \in {"DATA_READY", "END_READY"} =>
         IF SlaveCtrl.BlockNum = 0
         THEN IsCmd(Answer, OTA_CMD_ID_START_RSP)
         ELSE Answer.Type = OTA_FRAME_TYPE_ACK /\ Answer.Id = SlaveCtrl.BlockNum
    /\ SlaveIn("END") => IsCmd(Answer, OTA_CMD_ID_END_RSP)

AskedPlace ==
    /\ Request(mac_TxBuf["master"], MasterCtrl.Bin)
    /\ ~Opening(Asked) => InStep(Asked, MasterCtrl.Bin)

HeardPlace ==
    GotData("slave") =>
      /\ \E im \in Image : Request(Msg("slave").Data, im) /\ InStep(Msg("slave").Data.Frame, im)
      /\ ~Opening(Asked) => Msg("slave").Data = mac_TxBuf["master"]

SendingPlace ==
    radio["slave"] = "tx" => Active /\ (~Opening(Asked) => Answers(Asked, Answer))

AnswerPlace ==
    GotData("master") =>
      /\ radio["slave"] # "tx" /\ ~GotData("slave")
      /\ Active => Msg("master").Data.Frame = Answer
      /\ ~Opening(Asked) => Answers(Asked, Msg("master").Data.Frame)

DeliveredPlace ==
    /\ IsCmd(Asked, OTA_CMD_ID_END_REQ) /\ (SlaveIn("END") \/ GotData("master")) =>
         <<MasterCtrl.Bin, pressed["master"]>> \in delivered
    /\ EndMeansDelivered

SyncInv ==
    /\ SameFrame /\ MasterPlace /\ SlavePlace /\ AskedPlace /\ HeardPlace
    /\ SendingPlace /\ AnswerPlace /\ DeliveredPlace /\ PrefixReceived

(* What the steps of the other node leave alone. *)
Kept(n) ==
    /\ MsgQueue'[n] = MsgQueue[n] /\ radio'[n] = radio[n]
    /\ TxFrame'[n] = TxFrame[n] /\ mac_TxBuf'[n] = mac_TxBuf[n] /\ FrameLen'[n] = FrameLen[n]

(* A step of the master that takes its message, then opens a session, repeats
   the last frame, or asks for the next thing once it has an answer. *)
LEMMA AskStep ==
    ASSUME SyncInv, Kept("slave"), UNCHANGED <<SlaveCtrl, pressed, delivered>>,
           ~GotData("master")', SameFrame', MasterPlace', EndMeansDelivered',
           Request(mac_TxBuf["master"], MasterCtrl.Bin)',
           \/ Opening(Asked)'
           \/ mac_TxBuf'["master"] = mac_TxBuf["master"] /\ MasterCtrl'.Bin = MasterCtrl.Bin
           \/ /\ GotData("master")
              /\ InStep(Asked, MasterCtrl.Bin)'
              /\ ~(IsCmd(Asked, OTA_CMD_ID_END_REQ)' /\ SlaveIn("END"))
    PROVE  SyncInv'
<1>1. SlavePlace' /\ PrefixReceived'
  BY DEF SyncInv, Kept, SlavePlace, PrefixReceived, SlaveIn, Answer
<1>2. /\ GotData("slave")' = GotData("slave") /\ Msg("slave")' = Msg("slave")
      /\ Active' = Active /\ Answer' = Answer /\ radio'["slave"] = radio["slave"]
      /\ \A frame, im : InStep(frame, im)' = InStep(frame, im)
  BY DEF Kept, GotData, GotMsg, Msg, Active, Answer, InStep, SlaveIn
<1>3. AnswerPlace'
  BY DEF AnswerPlace
<1>4. (\E im \in Image : Request(Msg("slave").Data, im) /\ InStep(Msg("slave").Data.Frame, im))
      => (\E im \in Image : Request(Msg("slave").Data, im) /\ InStep(Msg("slave").Data.Frame, im))'
  BY <1>2 DEF Request
<1>5. CASE Opening(Asked)'
  <2>1. ~IsCmd(Asked, OTA_CMD_ID_END_REQ)'
    BY <1>5 DEF Opening, IsCmd, NoFrame, OTA_FRAME_TYPE_CMD
  <2>2. AskedPlace' /\ HeardPlace' /\ SendingPlace' /\ DeliveredPlace'
    BY <1>2, <1>4, <1>5, <2>1 DEF SyncInv, AskedPlace, HeardPlace, SendingPlace, DeliveredPlace
  <2> QED
    BY <1>1, <1>3, <2>2 DEF SyncInv
<1>6. CASE mac_TxBuf'["master"] = mac_TxBuf["master"] /\ MasterCtrl'.Bin = MasterCtrl.Bin
  <2>1. Asked' = Asked
    BY <1>6 DEF SyncInv, SameFrame, Asked
  <2>2. SlaveIn("END")' = SlaveIn("END")
    BY DEF SlaveIn
  <2>3. AskedPlace' /\ HeardPlace' /\ SendingPlace' /\ DeliveredPlace'
    BY <1>2, <1>4, <1>6, <2>1, <2>2 DEF SyncInv, AskedPlace, HeardPlace, SendingPlace, DeliveredPlace
  <2> QED
    BY <1>1, <1>3, <2>3 DEF SyncInv
<1>7. CASE /\ GotData("master")
           /\ InStep(Asked, MasterCtrl.Bin)'
           /\ ~(IsCmd(Asked, OTA_CMD_ID_END_REQ)' /\ SlaveIn("END"))
  <2>1. radio["slave"] # "tx" /\ ~GotData("slave")
    BY <1>7 DEF SyncInv, AnswerPlace
  <2>2. SlaveIn("END")' = SlaveIn("END")
    BY DEF SlaveIn
  <2>3. AskedPlace' /\ HeardPlace' /\ SendingPlace' /\ DeliveredPlace'
    BY <1>2, <1>7, <2>1, <2>2 DEF AskedPlace, HeardPlace, SendingPlace, DeliveredPlace
  <2> QED
    BY <1>1, <1>3, <2>3 DEF SyncInv
<1> QED
  BY <1>5, <1>6, <1>7

(* A step of the slave that sends nothing and leaves nothing new to hear. *)
LEMMA SilentStep ==
    ASSUME SyncInv, Kept("master"), UNCHANGED <<MasterCtrl, delivered>>,
           pressed'["master"] = pressed["master"],
           ~GotData("slave")' \/ MsgQueue'["slave"] = MsgQueue["slave"],
           radio'["slave"] # "tx", SameFrame', SlavePlace', PrefixReceived',
           \/ ~Active'
           \/ /\ TxFrame'["slave"] = TxFrame["slave"]
              /\ SlaveCtrl'.State = SlaveCtrl.State
              /\ SlaveCtrl'.BlockNum = SlaveCtrl.BlockNum
              /\ SlaveCtrl'.PktCRC = SlaveCtrl.PktCRC
    PROVE  SyncInv'
<1>1. /\ GotData("master")' = GotData("master") /\ Msg("master")' = Msg("master")
      /\ Asked' = Asked /\ mac_TxBuf'["master"] = mac_TxBuf["master"]
  BY DEF Kept, GotData, GotMsg, Msg, Asked
<1>2. MasterPlace'
  BY <1>1 DEF SyncInv, MasterPlace, MasterIn, Kept
<1>3. GotData("slave")' => GotData("slave") /\ Msg("slave")' = Msg("slave")
  BY DEF GotData, GotMsg, Msg
<1>4. /\ \A frame, im : InStep(frame, im) => InStep(frame, im)'
      /\ SlaveIn("END")' => SlaveIn("END")
      /\ Active' => Active /\ Answer' = Answer
  BY DEF InStep, Active, SlaveIn, Answer
<1>5. HeardPlace'
  BY <1>1, <1>3, <1>4 DEF SyncInv, HeardPlace, Request
<1>6. SendingPlace' /\ AskedPlace'
  BY <1>1, <1>4 DEF SyncInv, SendingPlace, AskedPlace, Request
<1>7. AnswerPlace'
  BY <1>1, <1>3, <1>4 DEF SyncInv, AnswerPlace
<1>8. DeliveredPlace'
  BY <1>1, <1>4 DEF SyncInv, DeliveredPlace, EndMeansDelivered, MasterIn
<1> QED
  BY <1>2, <1>5, <1>6, <1>7, <1>8 DEF SyncInv

(* A step of the slave that takes a packet and answers it. *)
LEMMA ReplyStep ==
    ASSUME SyncInv, Kept("master"), UNCHANGED <<MasterCtrl, pressed>>, delivered \subseteq delivered',
           GotData("slave"), ~GotData("slave")', Active', SameFrame', SlavePlace', PrefixReceived',
           ~Opening(Asked) => /\ Answers(Asked, Answer')
                              /\ InStep(Asked, MasterCtrl.Bin)'
                              /\ IsCmd(Asked, OTA_CMD_ID_END_REQ) /\ SlaveIn("END")' =>
                                   <<MasterCtrl.Bin, pressed["master"]>> \in delivered'
    PROVE  SyncInv'
<1>1. /\ GotData("master")' = GotData("master")
      /\ Asked' = Asked /\ mac_TxBuf'["master"] = mac_TxBuf["master"]
  BY DEF Kept, GotData, GotMsg, Msg, Asked
<1>2. MasterPlace'
  BY <1>1 DEF SyncInv, MasterPlace, MasterIn, Kept
<1>3. ~GotData("master")
  BY DEF SyncInv, AnswerPlace
<1>4. HeardPlace' /\ AnswerPlace'
  BY <1>1, <1>3 DEF HeardPlace, AnswerPlace
<1>5. SendingPlace'
  BY <1>1 DEF SendingPlace
<1>6. AskedPlace'
  BY <1>1 DEF SyncInv, AskedPlace, Request
<1>7. IsCmd(Asked, OTA_CMD_ID_END_REQ) => ~Opening(Asked)
  BY DEF IsCmd, Opening, NoFrame, OTA_FRAME_TYPE_CMD
<1>8. DeliveredPlace'
  BY <1>1, <1>3, <1>7 DEF SyncInv, DeliveredPlace, EndMeansDelivered, MasterIn
<1> QED
  BY <1>2, <1>4, <1>5, <1>6, <1>8 DEF SyncInv
-----------------------------------------------------------------------------
(* The only message that can wait after an interrupt is the interrupt's. *)
LEMMA IrqBrings ==
    ASSUME MacTypeOK, NEW n \in Node, MsgQueue[n] = << >>, NEW msg \in Message, Irq(n, msg)
    PROVE  /\ GotData(n)' => msg.Type = "DATA" /\ Msg(n)' = msg
           /\ MsgQueue'[Peer(n)] = MsgQueue[Peer(n)]
<1>1. Len(MsgQueue[n]) = 0
  OBVIOUS
<1>2. Push(MsgQueue[n], msg) = Append(<< >>, msg)
  BY <1>1 DEF Push, MSG_QUEUE_LEN
<1>3. /\ MsgQueue'[n] = Append(<< >>, msg) \/ MsgQueue'[n] = << >>
      /\ MsgQueue'[Peer(n)] = MsgQueue[Peer(n)]
  BY <1>2 DEF Irq, MacTypeOK
<1>4. Head(Append(<< >>, msg)) = msg
  OBVIOUS
<1> QED
  BY <1>3, <1>4 DEF GotData, GotMsg, Msg

(* What the steps of the radio change: who sends, and what waits at a node,
   which is nothing new, no packet, or the packet that the peer was sending. *)
LEMMA AirStep ==
    ASSUME TypeOK, SyncInv, UNCHANGED <<MasterCtrl, SlaveCtrl, pressed, delivered>>,
           UNCHANGED <<mac_TxBuf, TxFrame, RxFrame, FrameLen>>,
           radio'["slave"] = "tx" => radio["slave"] = "tx",
           \/ ~GotData("slave")'
           \/ MsgQueue'["slave"] = MsgQueue["slave"]
           \/ /\ ~GotData("master")'
              /\ Msg("slave")'.Data = mac_TxBuf["master"],
           \/ ~GotData("master")'
           \/ MsgQueue'["master"] = MsgQueue["master"] /\ MsgQueue'["slave"] = MsgQueue["slave"]
           \/ MsgQueue'["master"] = MsgQueue["master"] /\ ~GotData("slave")'
           \/ /\ ~GotData("slave")' /\ radio["slave"] = "tx" /\ radio'["slave"] # "tx"
              /\ Msg("master")'.Data = mac_TxBuf["slave"]
    PROVE  SyncInv'
<1>1. SameFrame' /\ MasterPlace' /\ SlavePlace' /\ AskedPlace' /\ SendingPlace' /\ PrefixReceived'
  BY DEF SyncInv, SameFrame, MasterPlace, MasterIn, SlavePlace, SlaveIn, AskedPlace, Request, InStep,
         Active, SendingPlace, PrefixReceived, Asked, Answer
<1>2. /\ Asked' = Asked /\ Answer' = Answer /\ Active' = Active
      /\ mac_TxBuf["master"].Frame = Asked /\ mac_TxBuf["slave"].Frame = Answer
      /\ \A frame, im : InStep(frame, im)' = InStep(frame, im)
  BY DEF Asked, Answer, Active, SyncInv, SameFrame, InStep, SlaveIn
<1>3. HeardPlace'
  <2> SUFFICES ASSUME GotData("slave")'
               PROVE  /\ \E im \in Image : Request(Msg("slave").Data, im)' /\ InStep(Msg("slave").Data.Frame, im)'
                      /\ ~Opening(Asked) => Msg("slave")'.Data = mac_TxBuf["master"]
    BY <1>2 DEF HeardPlace
  <2>1. CASE MsgQueue'["slave"] = MsgQueue["slave"]
    <3>1. GotData("slave") /\ Msg("slave")' = Msg("slave")
      BY <2>1 DEF GotData, GotMsg, Msg
    <3> QED
      BY <1>2, <3>1 DEF SyncInv, HeardPlace, Request
  <2>2. CASE Msg("slave")'.Data = mac_TxBuf["master"]
    <3>1. Request(mac_TxBuf["master"], MasterCtrl.Bin) /\ (~Opening(Asked) => InStep(Asked, MasterCtrl.Bin))
      BY DEF SyncInv, AskedPlace
    <3>2. Opening(Asked) => InStep(Asked, MasterCtrl.Bin)
      BY DEF Opening, InStep, IsCmd, NoFrame, OTA_FRAME_TYPE_CMD, OTA_FRAME_TYPE_DATA
    <3>3. MasterCtrl.Bin \in Image
      BY ImageAssumption DEF TypeOK, MasterTypeOK
    <3> QED
      BY <1>2, <2>2, <3>1, <3>2, <3>3 DEF Request
  <2> QED
    BY <2>1, <2>2
<1>4. AnswerPlace'
  <2> SUFFICES ASSUME GotData("master")'
               PROVE  /\ radio'["slave"] # "tx" /\ ~GotData("slave")'
                      /\ Active => Msg("master")'.Data.Frame = Answer
                      /\ ~Opening(Asked) => Answers(Asked, Msg("master")'.Data.Frame)
    BY <1>2 DEF AnswerPlace
  <2>1. CASE /\ MsgQueue'["master"] = MsgQueue["master"]
             /\ MsgQueue'["slave"] = MsgQueue["slave"] \/ ~GotData("slave")'
    <3>1. GotData("master") /\ Msg("master")' = Msg("master")
      BY <2>1 DEF GotData, GotMsg, Msg
    <3>2. ~GotData("slave")'
      BY <2>1, <3>1 DEF GotData, GotMsg, Msg, SyncInv, AnswerPlace
    <3> QED
      BY <3>1, <3>2 DEF SyncInv, AnswerPlace
  <2>2. CASE /\ ~GotData("slave")' /\ radio["slave"] = "tx" /\ radio'["slave"] # "tx"
             /\ Msg("master")'.Data = mac_TxBuf["slave"]
    BY <1>2, <2>2 DEF SyncInv, SendingPlace
  <2> QED
    BY <2>1, <2>2
<1>5. DeliveredPlace'
  <2>1. EndMeansDelivered' /\ (SlaveIn("END")' <=> SlaveIn("END"))
    BY DEF SyncInv, DeliveredPlace, EndMeansDelivered, MasterIn, SlaveIn
  <2>2. GotData("master")' /\ IsCmd(Asked, OTA_CMD_ID_END_REQ) => GotData("master") \/ SlaveIn("END")
    <3>1. CASE MsgQueue'["master"] = MsgQueue["master"]
      BY <3>1 DEF GotData, GotMsg, Msg
    <3>2. CASE radio["slave"] = "tx"
      <4>1. ASSUME IsCmd(Asked, OTA_CMD_ID_END_REQ) PROVE SlaveIn("END")
        <5>1. ~Opening(Asked)
          BY <4>1 DEF IsCmd, Opening, NoFrame, OTA_FRAME_TYPE_CMD
        <5>2. Active /\ IsCmd(Answer, OTA_CMD_ID_END_RSP)
          BY <3>2, <4>1, <5>1 DEF SyncInv, SendingPlace, Answers, IsCmd,
                                  OTA_FRAME_TYPE_CMD, OTA_FRAME_TYPE_DATA
        <5> QED
          BY <5>2 DEF Active, SyncInv, SlavePlace, SlaveIn, IsCmd, OTA_FRAME_TYPE_CMD, OTA_FRAME_TYPE_ACK
      <4> QED
        BY <4>1
    <3> QED
      BY <3>1, <3>2
  <2> QED
    BY <1>2, <2>1, <2>2 DEF SyncInv, DeliveredPlace
<1> QED
  BY <1>1, <1>3, <1>4, <1>5 DEF SyncInv

LEMMA RadioSync ==
    ASSUME TypeOK, FlightInv, SyncInv, NEW n \in Node, RadioStep(n)
    PROVE  SyncInv'
<1>0. /\ MacTypeOK /\ UNCHANGED <<MasterCtrl, SlaveCtrl, pressed, delivered>>
      /\ UNCHANGED <<mac_TxBuf, TxFrame, RxFrame, FrameLen>>
      /\ n \in {"master", "slave"} /\ Peer(n) \in Node /\ Peer(Peer(n)) = n /\ Peer(n) # n
      /\ DOMAIN radio = Node
      /\ \A m \in Node : radio[m] # "off" => MsgQueue[m] = << >>
  BY DEF TypeOK, RadioStep, Air, Heard, Lost, Corrupted, RxTimeout, MacTypeOK, FlightInv, Alone
<1>1. /\ INVALID_DATA \in Message /\ TIMEOUT \in Message
      /\ INVALID_DATA.Type # "DATA" /\ TIMEOUT.Type # "DATA"
      /\ \A m \in Node : [Type |-> "DATA", Data |-> mac_TxBuf[m]] \in Message
  BY <1>0, MessageType DEF INVALID_DATA, TIMEOUT
<1>2. CASE Heard(n)
  <2>1. radio[n] = "tx" /\ radio[Peer(n)] = "rx" /\ radio'[n] = "rx" /\ radio'[Peer(n)] = "off"
    BY <1>0, <1>2 DEF Heard
  <2>2. MsgQueue[Peer(n)] = << >> /\ MsgQueue[n] = << >>
    BY <1>0, <2>1
  <2>3. /\ GotData(Peer(n))' => Msg(Peer(n))' = [Type |-> "DATA", Data |-> mac_TxBuf[n]]
        /\ MsgQueue'[n] = MsgQueue[n]
    BY <1>0, <1>1, <1>2, <2>2, IrqBrings DEF Heard
  <2>4. ~GotData(n)'
    BY <2>2, <2>3 DEF GotData, GotMsg
  <2>5. GotData(Peer(n))' => Msg(Peer(n))'.Data = mac_TxBuf[n]
    BY <2>3
  <2>6. CASE n = "master"
    BY <1>0, <2>1, <2>4, <2>5, <2>6, AirStep
  <2>7. CASE n = "slave"
    BY <1>0, <2>1, <2>4, <2>5, <2>7, AirStep
  <2> QED
    BY <1>0, <2>6, <2>7
<1>3. CASE Lost(n)
  <2>1. UNCHANGED MsgQueue /\ (radio'["slave"] = "tx" => radio["slave"] = "tx")
    BY <1>0, <1>3 DEF Lost
  <2> QED
    BY <1>0, <2>1, AirStep
<1>4. CASE Corrupted(n) \/ RxTimeout(n)
  <2>1. MsgQueue[n] = << >> /\ (radio'["slave"] = "tx" => radio["slave"] = "tx")
    BY <1>0, <1>4 DEF Corrupted, RxTimeout
  <2>2. ~GotData(n)' /\ MsgQueue'[Peer(n)] = MsgQueue[Peer(n)]
    BY <1>0, <1>1, <1>4, <2>1, IrqBrings DEF Corrupted, RxTimeout
  <2>3. CASE n = "master"
    BY <1>0, <2>1, <2>2, <2>3, AirStep
  <2>4. CASE n = "slave"
    BY <1>0, <2>1, <2>2, <2>4, AirStep
  <2> QED
    BY <1>0, <2>3, <2>4
<1> QED
  BY <1>2, <1>3, <1>4 DEF RadioStep, Air

(* A call of the main loop that takes the message and uses the radio changes
   nothing at the other node. *)
LEMMA LoopKeeps ==
    ASSUME TypeOK, FlightInv, NEW n \in Node, Pop(n) \/ Drop(n),
           \/ \E frame, len : MAC_SendData(n, frame, len)
           \/ MAC_RecvData(n)
           \/ NoSend,
           (\E len : SetLen(n, len)) \/ UNCHANGED FrameLen
    PROVE  Kept(Peer(n)) /\ ~GotData(n)'
<1>0. /\ Peer(n) \in Node /\ Peer(n) # n
      /\ DOMAIN radio = Node /\ DOMAIN TxFrame = Node /\ DOMAIN mac_TxBuf = Node
      /\ DOMAIN FrameLen = Node
  BY DEF TypeOK, MacTypeOK
<1>1. MsgQueue'[n] = << >> /\ MsgQueue'[Peer(n)] = MsgQueue[Peer(n)]
  BY PopEmpties DEF TypeOK, FlightInv
<1>2. /\ radio'[Peer(n)] = radio[Peer(n)] /\ TxFrame'[Peer(n)] = TxFrame[Peer(n)]
      /\ mac_TxBuf'[Peer(n)] = mac_TxBuf[Peer(n)]
  BY <1>0 DEF MAC_SendData, MAC_RecvData, NoSend
<1>3. FrameLen'[Peer(n)] = FrameLen[Peer(n)]
  BY <1>0 DEF SetLen
<1> QED
  BY <1>1, <1>2, <1>3 DEF Kept, GotData, GotMsg

LEMMA SendGives ==
    ASSUME TypeOK, SameFrame, NEW n \in Node, NEW frame, NEW len, MAC_SendData(n, frame, len)
    PROVE  /\ TxFrame'[n] = frame /\ mac_TxBuf'[n] = [Frame |-> frame, Len |-> len]
           /\ mac_TxBuf'[n].Frame = frame /\ mac_TxBuf'[n].Len = len
           /\ radio'[n] = "tx"
           /\ SameFrame'
<1>1. /\ TxFrame'[n] = frame /\ mac_TxBuf'[n] = [Frame |-> frame, Len |-> len]
      /\ radio'[n] = "tx"
      /\ \A m \in Node \ {n} : TxFrame'[m] = TxFrame[m] /\ mac_TxBuf'[m] = mac_TxBuf[m]
  BY DEF MAC_SendData, TypeOK, MacTypeOK
<1>2. mac_TxBuf'[n].Frame = frame /\ mac_TxBuf'[n].Len = len
  BY <1>1
<1> QED
  BY <1>1, <1>2 DEF SameFrame

LEMMA ResetGives ==
    ASSUME TypeOK, SameFrame, NEW n \in Node, MacReset(n)
    PROVE  /\ TxFrame'[n] = NoFrame /\ mac_TxBuf'[n] = NoPacket /\ radio'[n] = "off"
           /\ ~GotData(n)'
           /\ Kept(Peer(n)) /\ SameFrame'
<1>1. /\ TxFrame'[n] = NoFrame /\ mac_TxBuf'[n] = NoPacket /\ radio'[n] = "off"
      /\ MsgQueue'[n] = << >>
      /\ Kept(Peer(n))
  BY DEF MacReset, Kept, TypeOK, MacTypeOK
<1>2. SameFrame'
  BY <1>1 DEF SameFrame, Kept, NoPacket
<1> QED
  BY <1>1, <1>2 DEF GotData, GotMsg

(* What is read of a packet, but for the value of a command. *)
LEMMA RxGives ==
    ASSUME TypeOK, NEW n \in Node, GotData(n)
    PROVE  /\ Rx(n).Type = Msg(n).Data.Frame.Type /\ Rx(n).Id = Msg(n).Data.Frame.Id
           /\ Rx(n).Type # OTA_FRAME_TYPE_CMD => Rx(n) = Msg(n).Data.Frame
           /\ RxLen(n) = Msg(n).Data.Len
<1>1. Msg(n) \in Message
  BY DEF GotData, GotMsg, Msg, TypeOK, MacTypeOK
<1>2. Msg(n).Data.Frame \in Frame
  BY <1>1 DEF Message, Packet
<1>3. Rx(n) = Received(RxFrame[n], Msg(n).Data) /\ RxLen(n) = Msg(n).Data.Len
  BY DEF Rx, RxLen
<1> QED
  BY <1>2, <1>3 DEF Received, Frame

LEMMA CmdGives ==
    ASSUME TypeOK, NEW n \in Node, NEW id \in Nat, NEW val
    PROVE  IsCmd(CmdFrame(n, id), id) /\ IsCmd(CmdFrameWith(n, id, val), id)
BY DEF TypeOK, MacTypeOK, Frame, IsCmd, CmdFrame, CmdFrameWith

LEMMA FirstBlock == ASSUME NEW im PROVE FirstBlocks(im, 0) = << >>
BY DEF FirstBlocks

LEMMA NextBlock ==
    ASSUME NEW im, NEW k \in Nat
    PROVE  Append(FirstBlocks(im, k), Block(im, k + 1)) = FirstBlocks(im, k + 1)
BY DEF FirstBlocks

-----------------------------------------------------------------------------
LEMMA MasterIdleSync ==
    ASSUME TypeOK, FlightInv, SyncInv, MasterIdle, UNCHANGED <<SlaveCtrl, pressed, delivered>>
    PROVE  SyncInv'
<1> DEFINE frame == CmdFrame("master", OTA_CMD_ID_VERSION_REQ)
<1>1. /\ MAC_SendData("master", frame, CmdLen(0)) /\ SetLen("master", CmdLen(0)) /\ Drop("master")
      /\ MasterCtrl' = [MasterCtrl EXCEPT !.State = "FW_VER_WAIT"] /\ MasterIn("IDLE")
  BY DEF MasterIdle, MasterSend
<1> HIDE DEF frame
<1>2. Kept("slave") /\ ~GotData("master")'
  BY <1>1, LoopKeeps
<1>3. Asked' = frame /\ mac_TxBuf'["master"].Frame = frame /\ SameFrame'
  BY <1>1, SendGives DEF SyncInv, Asked
<1>4. Opening(Asked)'
  BY <1>3, CmdGives DEF Opening, frame
<1>5. /\ MasterCtrl'.State = "FW_VER_WAIT" /\ MasterCtrl'.BlockNum = MasterCtrl.BlockNum
      /\ MasterCtrl'.FinishFlag = MasterCtrl.FinishFlag
  BY <1>1 DEF TypeOK, MasterTypeOK
<1>6. MasterCtrl.BlockNum = 0 /\ ~MasterCtrl.FinishFlag
  BY <1>1 DEF SyncInv, MasterPlace, MasterIn
<1>7. MasterPlace' /\ EndMeansDelivered'
  BY <1>4, <1>5, <1>6 DEF MasterPlace, MasterIn, EndMeansDelivered
<1>8. Request(mac_TxBuf["master"], MasterCtrl.Bin)'
  BY <1>3, <1>4 DEF Request
<1> QED
  BY <1>2, <1>3, <1>4, <1>7, <1>8, AskStep

LEMMA MasterVersionSync ==
    ASSUME TypeOK, FlightInv, SyncInv, MasterVersionRsp, UNCHANGED <<SlaveCtrl, pressed, delivered>>
    PROVE  SyncInv'
<1> DEFINE frame == CmdFrameWith("master", OTA_CMD_ID_START_REQ, MaxBlockNum(MasterCtrl.Bin))
<1>1. MasterIn("FW_VER_WAIT") /\ GotData("master") /\ IsCmd(Rx("master"), OTA_CMD_ID_VERSION_RSP)
  BY DEF MasterVersionRsp, MasterAnswered, MasterExpects, MasterIn
<1>2. IsCmd(Msg("master").Data.Frame, OTA_CMD_ID_VERSION_RSP)
  BY <1>1, RxGives DEF IsCmd
<1>3. Pop("master")
  BY DEF MasterVersionRsp
<1>4. MasterCtrl.BlockNum = 0 /\ ~MasterCtrl.FinishFlag /\ Opening(Asked)
  BY <1>1 DEF SyncInv, MasterPlace, MasterIn
<1>5. CASE /\ MasterSend(frame, CmdLen(2))
           /\ MasterCtrl' = [MasterCtrl EXCEPT !.State = "START_RSP_WAIT", !.RetryTimes = 0]
  <2> HIDE DEF frame
  <2>1. MAC_SendData("master", frame, CmdLen(2)) /\ SetLen("master", CmdLen(2))
    BY <1>5 DEF MasterSend
  <2>2. Kept("slave") /\ ~GotData("master")'
    BY <1>3, <2>1, LoopKeeps
  <2>3. /\ Asked' = frame /\ SameFrame'
        /\ mac_TxBuf'["master"].Frame = frame /\ mac_TxBuf'["master"].Len = CmdLen(2)
    BY <2>1, SendGives DEF SyncInv, Asked
  <2>4. FrameLen'["master"] = CmdLen(2)
    BY <2>1 DEF SetLen, TypeOK, MacTypeOK
  <2>5. /\ MasterCtrl'.State = "START_RSP_WAIT" /\ MasterCtrl'.BlockNum = MasterCtrl.BlockNum
        /\ MasterCtrl'.FinishFlag = MasterCtrl.FinishFlag
    BY <1>5 DEF TypeOK, MasterTypeOK
  <2>6. IsCmd(Asked', OTA_CMD_ID_START_REQ)
    BY <2>3, CmdGives, BinType DEF frame, TypeOK
  <2>7. MasterPlace' /\ EndMeansDelivered'
    BY <1>4, <2>3, <2>4, <2>5, <2>6 DEF MasterPlace, MasterIn, EndMeansDelivered
  <2>8. Request(mac_TxBuf["master"], MasterCtrl.Bin)'
    BY <2>3, <2>6 DEF Request
  <2>9. Active => SlaveIn("START_READY")
    <3>1. Active => IsCmd(Answer, OTA_CMD_ID_VERSION_RSP)
      BY <1>1, <1>2 DEF SyncInv, AnswerPlace
    <3> QED
      BY <3>1 DEF Active, SyncInv, SlavePlace, SlaveIn, IsCmd, OTA_FRAME_TYPE_CMD, OTA_FRAME_TYPE_ACK
  <2>10. InStep(Asked, MasterCtrl.Bin)'
    BY <2>6, <2>9 DEF InStep, Active, SlaveIn, IsCmd, OTA_FRAME_TYPE_CMD, OTA_FRAME_TYPE_DATA
  <2>11. ~IsCmd(Asked, OTA_CMD_ID_END_REQ)'
    BY <2>6 DEF IsCmd
  <2> QED
    BY <1>1, <2>2, <2>3, <2>7, <2>8, <2>10, <2>11, AskStep
<1>6. CASE /\ NoSend /\ SetLen("master", RxLen("master"))
           /\ MasterCtrl' = [MasterCtrl EXCEPT !.State = "ERROR", !.RetryTimes = 0]
  <2>1. Kept("slave") /\ ~GotData("master")'
    BY <1>3, <1>6, LoopKeeps
  <2>2. UNCHANGED <<mac_TxBuf, TxFrame>>
    BY <1>6 DEF NoSend
  <2>3. MasterCtrl'.State = "ERROR" /\ MasterCtrl'.Bin = MasterCtrl.Bin
    BY <1>6 DEF TypeOK, MasterTypeOK
  <2>4. MasterPlace' /\ EndMeansDelivered'
    BY <2>3 DEF MasterPlace, MasterIn, EndMeansDelivered
  <2>5. SameFrame' /\ Request(mac_TxBuf["master"], MasterCtrl.Bin)'
    BY <2>2, <2>3 DEF SyncInv, SameFrame, AskedPlace, Request
  <2> QED
    BY <2>1, <2>2, <2>3, <2>4, <2>5, AskStep
<1> QED
  BY <1>5, <1>6 DEF MasterVersionRsp

LEMMA MasterBlockSync ==
    ASSUME TypeOK, FlightInv, SyncInv, MasterStartRsp \/ MasterDataAck,
           UNCHANGED <<SlaveCtrl, pressed, delivered>>
    PROVE  SyncInv'
<1> DEFINE bin == MasterCtrl.Bin
           num == MasterCtrl.BlockNum + 1
<1>0. bin \in Image /\ MasterCtrl.BlockNum \in Nat /\ num \in Nat /\ MaxBlockNum(bin) \in Nat \ {0}
  BY ImageAssumption, MaxBlockNumPositive DEF TypeOK, MasterTypeOK
<1>1. GotData("master") /\ MasterExpects(Rx("master")) /\ Pop("master")
  BY DEF MasterStartRsp, MasterDataAck, MasterAnswered
<1>2. /\ MAC_SendData("master", DataFrame, DataLen) /\ SetLen("master", DataLen)
      /\ MasterCtrl' = [MasterCtrl EXCEPT !.State = "DATA_ACK_WAIT", !.RetryTimes = 0,
                                          !.BlockNum = num,
                                          !.FinishFlag = MasterCtrl.FinishFlag \/ num >= MaxBlockNum(bin)]
  BY DEF MasterStartRsp, MasterDataAck, MasterSendBlock, MasterSend
<1>3. Kept("slave") /\ ~GotData("master")'
  BY <1>1, <1>2, LoopKeeps
<1>4. /\ Asked' = DataFrame /\ SameFrame'
      /\ mac_TxBuf'["master"] = [Frame |-> DataFrame, Len |-> DataLen]
      /\ mac_TxBuf'["master"].Len = DataLen
  BY <1>2, SendGives DEF SyncInv, Asked
<1>5. FrameLen'["master"] = DataLen
  BY <1>2 DEF SetLen, TypeOK, MacTypeOK
<1>6. mac_TxBuf'["master"] = BlockPacket(bin, num)
  BY <1>4 DEF BlockPacket, DataFrame, DataLen
<1>7. Asked'.Type = OTA_FRAME_TYPE_DATA /\ Asked'.Id = num
  BY <1>4 DEF DataFrame
<1>8. /\ ~MasterCtrl.FinishFlag
      /\ num \in 1 .. MaxBlockNum(bin)
      /\ Active => /\ SlaveCtrl.State \in {"DATA_READY", "END_READY"}
                   /\ SlaveCtrl.BlockNum = MasterCtrl.BlockNum
                   /\ SlaveCtrl.PktCRC = FirstBlocks(bin, MasterCtrl.BlockNum)
  <2>1. CASE MasterStartRsp
    <3>1. MasterIn("START_RSP_WAIT") /\ IsCmd(Rx("master"), OTA_CMD_ID_START_RSP)
      BY <1>1, <2>1 DEF MasterStartRsp, MasterExpects, MasterIn
    <3>2. IsCmd(Msg("master").Data.Frame, OTA_CMD_ID_START_RSP)
      BY <1>1, <3>1, RxGives DEF IsCmd
    <3>3. MasterCtrl.BlockNum = 0 /\ ~MasterCtrl.FinishFlag /\ IsCmd(Asked, OTA_CMD_ID_START_REQ)
      BY <3>1 DEF SyncInv, MasterPlace, MasterIn
    <3>4. Active => IsCmd(Answer, OTA_CMD_ID_START_RSP)
      BY <1>1, <3>2 DEF SyncInv, AnswerPlace
    <3>5. Active => SlaveCtrl.State \in {"DATA_READY", "END_READY"} /\ SlaveCtrl.BlockNum = 0
      BY <3>4 DEF SyncInv, SlavePlace, Active, SlaveIn, IsCmd, OTA_FRAME_TYPE_CMD, OTA_FRAME_TYPE_ACK
    <3>6. Active => SlaveCtrl.PktCRC = FirstBlocks(bin, 0)
      BY <3>5, FirstBlock DEF SyncInv, SlavePlace
    <3> QED
      BY <1>0, <3>3, <3>5, <3>6
  <2>2. CASE MasterDataAck
    <3>1. /\ MasterIn("DATA_ACK_WAIT") /\ ~MasterCtrl.FinishFlag
          /\ Rx("master").Type = OTA_FRAME_TYPE_ACK /\ Rx("master").Id = MasterCtrl.BlockNum
      BY <1>1, <2>2 DEF MasterDataAck, MasterExpects, MasterIn
    <3>2. /\ Msg("master").Data.Frame.Type = OTA_FRAME_TYPE_ACK
          /\ Msg("master").Data.Frame.Id = MasterCtrl.BlockNum
      BY <1>1, <3>1, RxGives
    <3>3. /\ mac_TxBuf["master"] = BlockPacket(bin, MasterCtrl.BlockNum)
          /\ MasterCtrl.BlockNum \in 1 .. MaxBlockNum(bin)
          /\ MasterCtrl.BlockNum # MaxBlockNum(bin)
      BY <3>1 DEF SyncInv, MasterPlace, MasterIn
    <3>4. Active => Answer.Type = OTA_FRAME_TYPE_ACK /\ Answer.Id = MasterCtrl.BlockNum
      BY <1>1, <3>2 DEF SyncInv, AnswerPlace
    <3>5. Active => /\ SlaveCtrl.State \in {"DATA_READY", "END_READY"}
                   /\ SlaveCtrl.BlockNum = MasterCtrl.BlockNum
      BY <3>4 DEF SyncInv, SlavePlace, Active, SlaveIn, IsCmd, OTA_FRAME_TYPE_CMD, OTA_FRAME_TYPE_ACK
    <3>6. Asked.Type = OTA_FRAME_TYPE_DATA
      BY <3>3 DEF BlockPacket, SyncInv, SameFrame, Asked
    <3>7. ~Opening(Asked)
      BY <3>6 DEF Opening, NoFrame, IsCmd, OTA_FRAME_TYPE_DATA, OTA_FRAME_TYPE_CMD
    <3>8. Active => SlaveCtrl.PktCRC = FirstBlocks(bin, SlaveCtrl.BlockNum)
      BY <3>6, <3>7 DEF SyncInv, AskedPlace, InStep
    <3>9. num \in 1 .. MaxBlockNum(bin)
      BY <1>0, <3>3
    <3> QED
      BY <3>1, <3>5, <3>8, <3>9
  <2> QED
    BY <2>1, <2>2
<1>9. /\ MasterCtrl'.State = "DATA_ACK_WAIT" /\ MasterCtrl'.BlockNum = num /\ MasterCtrl'.Bin = bin
      /\ MasterCtrl'.FinishFlag = (MasterCtrl.FinishFlag \/ num >= MaxBlockNum(bin))
  BY <1>2 DEF TypeOK, MasterTypeOK
<1>10. MasterCtrl'.FinishFlag <=> num = MaxBlockNum(bin)
  <2>1. num >= MaxBlockNum(bin) <=> num = MaxBlockNum(bin)
    BY <1>0, <1>8
  <2> QED
    BY <1>8, <1>9, <2>1, Zenon
<1>11. MasterPlace' /\ EndMeansDelivered'
  BY <1>4, <1>5, <1>6, <1>8, <1>9, <1>10 DEF MasterPlace, MasterIn, EndMeansDelivered
<1>12. Request(mac_TxBuf["master"], MasterCtrl.Bin)'
  BY <1>6, <1>8, <1>9 DEF Request
<1>13. InStep(Asked, MasterCtrl.Bin)'
  BY <1>0, <1>7, <1>8, <1>9
  DEF InStep, Active, SlaveIn, IsCmd, OTA_FRAME_TYPE_CMD, OTA_FRAME_TYPE_DATA
<1>14. ~IsCmd(Asked, OTA_CMD_ID_END_REQ)'
  BY <1>7 DEF IsCmd, OTA_FRAME_TYPE_CMD, OTA_FRAME_TYPE_DATA
<1> QED
  BY <1>1, <1>3, <1>4, <1>11, <1>12, <1>13, <1>14, AskStep

(* All blocks are acknowledged: the slave has the image of the master's binary. *)
LEMMA MasterLastAckSync ==
    ASSUME TypeOK, FlightInv, SyncInv, MasterLastAck, UNCHANGED <<SlaveCtrl, pressed, delivered>>
    PROVE  SyncInv'
<1> DEFINE bin == MasterCtrl.Bin
           frame == CmdFrameWith("master", OTA_CMD_ID_END_REQ, Size[bin])
<1>1. /\ GotData("master") /\ MasterExpects(Rx("master")) /\ Pop("master")
      /\ MasterIn("DATA_ACK_WAIT") /\ MasterCtrl.FinishFlag
      /\ MAC_SendData("master", frame, CmdLen(4)) /\ SetLen("master", CmdLen(4))
      /\ MasterCtrl' = [MasterCtrl EXCEPT !.State = "END_RSP_WAIT", !.RetryTimes = 0]
  BY DEF MasterLastAck, MasterAnswered, MasterSend
<1>2. IsCmd(frame, OTA_CMD_ID_END_REQ)
  BY CmdGives
<1> HIDE DEF frame
<1>3. Kept("slave") /\ ~GotData("master")'
  BY <1>1, LoopKeeps
<1>4. /\ Asked' = frame /\ SameFrame' /\ mac_TxBuf'["master"].Frame = frame
      /\ mac_TxBuf'["master"].Len = CmdLen(4)
  BY <1>1, SendGives DEF SyncInv, Asked
<1>5. FrameLen'["master"] = CmdLen(4)
  BY <1>1 DEF SetLen, TypeOK, MacTypeOK
<1>6. MasterCtrl'.State = "END_RSP_WAIT" /\ MasterCtrl'.Bin = bin
  BY <1>1 DEF TypeOK, MasterTypeOK
<1>7. Rx("master").Type = OTA_FRAME_TYPE_ACK /\ Rx("master").Id = MasterCtrl.BlockNum
  BY <1>1 DEF MasterExpects, MasterIn
<1>8. /\ Msg("master").Data.Frame.Type = OTA_FRAME_TYPE_ACK
      /\ Msg("master").Data.Frame.Id = MasterCtrl.BlockNum
  BY <1>1, <1>7, RxGives
<1>9. /\ mac_TxBuf["master"] = BlockPacket(bin, MasterCtrl.BlockNum)
      /\ MasterCtrl.BlockNum = MaxBlockNum(bin)
  BY <1>1 DEF SyncInv, MasterPlace, MasterIn
<1>10. Active => Answer.Type = OTA_FRAME_TYPE_ACK /\ Answer.Id = MasterCtrl.BlockNum
  BY <1>1, <1>8 DEF SyncInv, AnswerPlace
<1>11. Active => /\ SlaveCtrl.State \in {"DATA_READY", "END_READY"}
                 /\ SlaveCtrl.BlockNum = MasterCtrl.BlockNum
  BY <1>10 DEF SyncInv, SlavePlace, Active, SlaveIn, IsCmd, OTA_FRAME_TYPE_CMD, OTA_FRAME_TYPE_ACK
<1>12. Asked.Type = OTA_FRAME_TYPE_DATA
  BY <1>9 DEF BlockPacket, SyncInv, SameFrame, Asked
<1>13. ~Opening(Asked)
  BY <1>12 DEF Opening, NoFrame, IsCmd, OTA_FRAME_TYPE_DATA, OTA_FRAME_TYPE_CMD
<1>14. Active => SlaveCtrl.PktCRC = Blocks(bin)
  BY <1>9, <1>11, <1>12, <1>13 DEF SyncInv, AskedPlace, InStep, Blocks, FirstBlocks
<1>15. InStep(Asked, MasterCtrl.Bin)'
  BY <1>2, <1>4, <1>6, <1>11, <1>14
  DEF InStep, Active, SlaveIn, IsCmd, OTA_FRAME_TYPE_CMD, OTA_FRAME_TYPE_DATA
<1>16. MasterPlace' /\ EndMeansDelivered'
  BY <1>2, <1>4, <1>5, <1>6 DEF MasterPlace, MasterIn, EndMeansDelivered
<1>17. Request(mac_TxBuf["master"], MasterCtrl.Bin)'
  BY <1>2, <1>4 DEF Request
<1>18. ~SlaveIn("END")
  BY <1>11 DEF Active, SlaveIn
<1> QED
  BY <1>1, <1>3, <1>4, <1>15, <1>16, <1>17, <1>18, AskStep

LEMMA MasterEndSync ==
    ASSUME TypeOK, FlightInv, SyncInv, MasterEndRsp, UNCHANGED <<SlaveCtrl, pressed, delivered>>
    PROVE  SyncInv'
<1>1. /\ MasterIn("END_RSP_WAIT") /\ GotData("master") /\ Pop("master") /\ NoSend
      /\ SetLen("master", RxLen("master"))
      /\ MasterCtrl' = [MasterCtrl EXCEPT !.State = "END", !.RetryTimes = 0]
  BY DEF MasterEndRsp, MasterAnswered
<1>2. Kept("slave") /\ ~GotData("master")'
  BY <1>1, LoopKeeps
<1>3. mac_TxBuf' = mac_TxBuf /\ TxFrame' = TxFrame
  BY <1>1 DEF NoSend
<1>4. MasterCtrl'.State = "END" /\ MasterCtrl'.Bin = MasterCtrl.Bin
  BY <1>1 DEF TypeOK, MasterTypeOK
<1>5. IsCmd(Asked, OTA_CMD_ID_END_REQ)
  BY <1>1 DEF SyncInv, MasterPlace, MasterIn
<1>6. MasterPlace'
  BY <1>3, <1>4, <1>5 DEF MasterPlace, MasterIn, Asked
<1>7. EndMeansDelivered'
  BY <1>1, <1>4, <1>5 DEF SyncInv, DeliveredPlace, EndMeansDelivered
<1>8. SameFrame' /\ Request(mac_TxBuf["master"], MasterCtrl.Bin)'
  BY <1>3, <1>4 DEF SyncInv, SameFrame, AskedPlace, Request
<1> QED
  BY <1>2, <1>3, <1>4, <1>6, <1>7, <1>8, AskStep

(* A packet that waits at the master is the answer it waits for: so what makes
   it send again is no packet, and Len is still that of the frame it sent. *)
LEMMA MasterRetrySync ==
    ASSUME TypeOK, FlightInv, SyncInv, MasterRetry, UNCHANGED <<SlaveCtrl, pressed, delivered>>
    PROVE  SyncInv'
<1>1. /\ MasterWaits /\ GotMsg("master") /\ ~MasterAnswered
      /\ Pop("master") /\ SetLen("master", RxLen("master"))
  BY DEF MasterRetry
<1>2. ~MasterIn("FW_VER_WAIT") => ~Opening(Asked)
  BY <1>1 DEF MasterWaits, MasterIn, SyncInv, MasterPlace, Opening, IsCmd, NoFrame, BlockPacket,
              SameFrame, Asked, OTA_FRAME_TYPE_CMD, OTA_FRAME_TYPE_DATA
<1>3. ~MasterIn("FW_VER_WAIT") => ~GotData("master")
  <2> SUFFICES ASSUME ~MasterIn("FW_VER_WAIT"), GotData("master") PROVE MasterAnswered
    BY <1>1
  <2> DEFINE p == Msg("master").Data.Frame
  <2>1. Answers(Asked, p)
    BY <1>2 DEF SyncInv, AnswerPlace
  <2>2. Rx("master").Type = p.Type /\ Rx("master").Id = p.Id
    BY RxGives
  <2>3. CASE MasterIn("START_RSP_WAIT")
    <3>1. IsCmd(Asked, OTA_CMD_ID_START_REQ)
      BY <2>3 DEF SyncInv, MasterPlace
    <3> QED
      BY <2>1, <2>2, <2>3, <3>1 DEF MasterAnswered, MasterExpects, Answers, IsCmd,
                                    OTA_FRAME_TYPE_CMD, OTA_FRAME_TYPE_DATA
  <2>4. CASE MasterIn("DATA_ACK_WAIT")
    <3>1. Asked.Type = OTA_FRAME_TYPE_DATA /\ Asked.Id = MasterCtrl.BlockNum
      BY <2>4 DEF SyncInv, MasterPlace, BlockPacket, SameFrame, Asked
    <3> QED
      BY <2>1, <2>2, <2>4, <3>1 DEF MasterAnswered, MasterExpects, Answers, IsCmd,
                                    OTA_FRAME_TYPE_CMD, OTA_FRAME_TYPE_DATA
  <2>5. CASE MasterIn("END_RSP_WAIT")
    <3>1. IsCmd(Asked, OTA_CMD_ID_END_REQ)
      BY <2>5 DEF SyncInv, MasterPlace, MasterIn
    <3> QED
      BY <2>1, <2>2, <2>5, <3>1 DEF MasterAnswered, MasterExpects, Answers, IsCmd,
                                    OTA_FRAME_TYPE_CMD, OTA_FRAME_TYPE_DATA
  <2> QED
    BY <1>1, <2>3, <2>4, <2>5 DEF MasterWaits, MasterIn
<1>4. ~MasterIn("FW_VER_WAIT") => RxLen("master") = mac_TxBuf["master"].Len
  BY <1>1, <1>3 DEF RxLen, SyncInv, MasterPlace, MasterWaits, MasterIn
<1>5. CASE MasterCtrl.RetryTimes = OTA_RETRY_MAX
  <2>1. MasterCtrl' = [MasterCtrl EXCEPT !.State = "ERROR"] /\ NoSend
    BY <1>5 DEF MasterRetry
  <2>2. Kept("slave") /\ ~GotData("master")'
    BY <1>1, <2>1, LoopKeeps
  <2>3. mac_TxBuf' = mac_TxBuf /\ TxFrame' = TxFrame
    BY <2>1 DEF NoSend
  <2>4. MasterCtrl'.State = "ERROR" /\ MasterCtrl'.Bin = MasterCtrl.Bin
    BY <2>1 DEF TypeOK, MasterTypeOK
  <2>5. MasterPlace' /\ EndMeansDelivered'
    BY <2>4 DEF MasterPlace, MasterIn, EndMeansDelivered
  <2>6. SameFrame' /\ Request(mac_TxBuf["master"], MasterCtrl.Bin)'
    BY <2>3, <2>4 DEF SyncInv, SameFrame, AskedPlace, Request
  <2> QED
    BY <2>2, <2>3, <2>4, <2>5, <2>6, AskStep
<1>6. CASE MasterCtrl.RetryTimes # OTA_RETRY_MAX
  <2>1. /\ MasterCtrl' = [MasterCtrl EXCEPT !.RetryTimes = @ + 1]
        /\ MAC_SendData("master", TxFrame["master"], RxLen("master"))
    BY <1>6 DEF MasterRetry
  <2>2. Kept("slave") /\ ~GotData("master")'
    BY <1>1, <2>1, LoopKeeps
  <2>3. /\ Asked' = Asked /\ SameFrame' /\ mac_TxBuf'["master"].Frame = Asked
        /\ mac_TxBuf'["master"].Len = RxLen("master")
        /\ mac_TxBuf'["master"] = [Frame |-> Asked, Len |-> RxLen("master")]
    BY <2>1, SendGives DEF SyncInv, Asked
  <2>4. FrameLen'["master"] = RxLen("master")
    BY <1>1 DEF SetLen, TypeOK, MacTypeOK
  <2>5. /\ MasterCtrl'.State = MasterCtrl.State /\ MasterCtrl'.Bin = MasterCtrl.Bin
        /\ MasterCtrl'.BlockNum = MasterCtrl.BlockNum
        /\ MasterCtrl'.FinishFlag = MasterCtrl.FinishFlag
    BY <2>1 DEF TypeOK, MasterTypeOK
  <2>6. ~MasterIn("FW_VER_WAIT") => mac_TxBuf'["master"] = mac_TxBuf["master"]
    <3>1. mac_TxBuf["master"] = [Frame |-> Asked, Len |-> mac_TxBuf["master"].Len]
      <4>1. mac_TxBuf["master"] \in Packet /\ mac_TxBuf["master"].Frame = Asked
        BY DEF TypeOK, MacTypeOK, SyncInv, SameFrame, Asked
      <4> QED
        BY <4>1 DEF Packet
    <3> QED
      BY <1>4, <2>3, <3>1
  <2>7. MasterPlace'
    <3>1. CASE MasterIn("FW_VER_WAIT")
      BY <2>3, <2>5, <3>1 DEF SyncInv, MasterPlace, MasterIn
    <3>2. CASE ~MasterIn("FW_VER_WAIT")
      BY <1>1, <2>3, <2>4, <2>5, <2>6, <3>2 DEF SyncInv, MasterPlace, MasterIn, MasterWaits
    <3> QED
      BY <3>1, <3>2
  <2>8. EndMeansDelivered'
    BY <1>1, <2>5 DEF EndMeansDelivered, MasterWaits, MasterIn
  <2>9. CASE MasterIn("FW_VER_WAIT")
    <3>1. Opening(Asked)'
      BY <2>3, <2>9 DEF SyncInv, MasterPlace, MasterIn
    <3>2. Request(mac_TxBuf["master"], MasterCtrl.Bin)'
      BY <2>3, <3>1 DEF Request
    <3> QED
      BY <2>2, <2>3, <2>7, <2>8, <3>1, <3>2, AskStep
  <2>10. CASE ~MasterIn("FW_VER_WAIT")
    <3>1. Request(mac_TxBuf["master"], MasterCtrl.Bin)'
      BY <2>5, <2>6, <2>10 DEF SyncInv, AskedPlace, Request
    <3> QED
      BY <2>2, <2>3, <2>5, <2>6, <2>7, <2>8, <2>10, <3>1, AskStep
  <2> QED
    BY <2>9, <2>10
<1> QED
  BY <1>5, <1>6

(* A restart of the master, perhaps with another binary. *)
LEMMA MasterResetSync ==
    ASSUME TypeOK, SyncInv, MasterReset, UNCHANGED <<SlaveCtrl, pressed, delivered>>
    PROVE  SyncInv'
<1>1. PICK bin \in MasterImage : MasterCtrl' = MasterBoot(bin)
  BY DEF MasterReset
<1>2. Asked' = NoFrame /\ mac_TxBuf'["master"] = NoPacket /\ ~GotData("master")'
      /\ Kept("slave") /\ SameFrame'
  BY ResetGives DEF MasterReset, SyncInv, Asked
<1>3. Opening(Asked)'
  BY <1>2 DEF Opening
<1>4. MasterPlace' /\ EndMeansDelivered'
  BY <1>1, <1>3 DEF MasterPlace, MasterIn, MasterBoot, EndMeansDelivered
<1>5. Request(mac_TxBuf["master"], MasterCtrl.Bin)'
  BY <1>2 DEF Request, Opening, NoPacket
<1> QED
  BY <1>2, <1>3, <1>4, <1>5, AskStep

LEMMA PressMasterSync ==
    ASSUME TypeOK, FlightInv, SyncInv, PressMaster
    PROVE  SyncInv'
<1>1. /\ MasterIn("APP") /\ UNCHANGED <<macVars, SlaveCtrl, delivered>>
      /\ MasterCtrl'.State \in {"IDLE", "LOW_BATT"} /\ MasterCtrl'.Bin = MasterCtrl.Bin
      /\ MasterCtrl'.BlockNum = MasterCtrl.BlockNum /\ MasterCtrl'.FinishFlag = MasterCtrl.FinishFlag
  BY DEF PressMaster, OTA_MasterInit, MasterLowBattery, TypeOK, MasterTypeOK
<1>2. Opening(Asked)
  BY <1>1 DEF SyncInv, MasterPlace, MasterIn
<1>3. ~IsCmd(Asked, OTA_CMD_ID_END_REQ)
  BY <1>2 DEF Opening, IsCmd, NoFrame, OTA_FRAME_TYPE_CMD
<1>4. UNCHANGED <<radio, mac_TxBuf, MsgQueue, TxFrame, FrameLen>>
  BY <1>1 DEF macVars
<1>5. /\ GotData("slave")' = GotData("slave") /\ Msg("slave")' = Msg("slave")
      /\ GotData("master")' = GotData("master") /\ Msg("master")' = Msg("master")
      /\ Active' = Active /\ Answer' = Answer /\ Asked' = Asked
      /\ \A frame, im : InStep(frame, im)' = InStep(frame, im)
  BY <1>1, <1>4 DEF GotData, GotMsg, Msg, Active, Answer, Asked, InStep, SlaveIn
<1>6. SameFrame' /\ MasterPlace'
  BY <1>1, <1>4, <1>5 DEF SyncInv, SameFrame, MasterPlace, MasterIn
<1>7. SlavePlace' /\ PrefixReceived' /\ SendingPlace'
  BY <1>1, <1>4, <1>5 DEF SyncInv, SlavePlace, PrefixReceived, SendingPlace, SlaveIn
<1>8. AskedPlace' /\ HeardPlace'
  BY <1>1, <1>4, <1>5 DEF SyncInv, AskedPlace, HeardPlace, Request
<1>9. AnswerPlace'
  BY <1>4, <1>5 DEF SyncInv, AnswerPlace
<1>10. DeliveredPlace'
  BY <1>1, <1>3, <1>5 DEF DeliveredPlace, EndMeansDelivered, MasterIn
<1> QED
  BY <1>6, <1>7, <1>8, <1>9, <1>10 DEF SyncInv

LEMMA MasterSync ==
    ASSUME TypeOK, FlightInv, SyncInv, MasterStep \/ MasterFails
    PROVE  SyncInv'
<1>1. /\ UNCHANGED <<SlaveCtrl, pressed, delivered>>
      /\ OTA_MasterStart \/ MasterReset
  BY DEF MasterStep, MasterFails, MasterPowerLoss
<1> QED
  BY <1>1, MasterIdleSync, MasterVersionSync, MasterBlockSync, MasterLastAckSync, MasterEndSync,
     MasterRetrySync, MasterResetSync DEF OTA_MasterStart, MasterReboot

-----------------------------------------------------------------------------
(* What the slave knows of the request it answers: it is the master's last, or
   the master has started over. *)
LEMMA RequestKnown ==
    ASSUME TypeOK, SyncInv, GotData("slave"), ~Opening(Asked)
    PROVE  /\ Msg("slave").Data = mac_TxBuf["master"]
           /\ Msg("slave").Data.Frame = Asked
           /\ Rx("slave").Type = Asked.Type /\ Rx("slave").Id = Asked.Id
           /\ Request(mac_TxBuf["master"], MasterCtrl.Bin) /\ InStep(Asked, MasterCtrl.Bin)
<1>1. Msg("slave").Data = mac_TxBuf["master"]
  BY DEF SyncInv, HeardPlace
<1>2. Msg("slave").Data.Frame = Asked
  BY <1>1 DEF SyncInv, SameFrame, Asked
<1> QED
  BY <1>1, <1>2, RxGives DEF SyncInv, AskedPlace

LEMMA RequestBlock ==
    ASSUME NEW p, NEW im, Request(p, im), p.Frame.Type = OTA_FRAME_TYPE_DATA
    PROVE  p = BlockPacket(im, p.Frame.Id)
<1>1. PICK k \in 1 .. MaxBlockNum(im) : p = BlockPacket(im, k)
  BY DEF Request, Opening, NoFrame, IsCmd, OTA_FRAME_TYPE_DATA, OTA_FRAME_TYPE_CMD
<1>2. p.Frame.Id = k
  BY <1>1 DEF BlockPacket
<1> QED
  BY <1>1, <1>2

LEMMA PrefixKept ==
    ASSUME SyncInv, SlaveCtrl'.PktCRC = SlaveCtrl.PktCRC
    PROVE  PrefixReceived'
BY DEF SyncInv, PrefixReceived

LEMMA PrefixEmpty ==
    ASSUME TypeOK, SlaveCtrl'.PktCRC = << >>
    PROVE  PrefixReceived'
BY ImageAssumption DEF TypeOK, MasterTypeOK, PrefixReceived

LEMMA SlaveIdleSync ==
    ASSUME TypeOK, FlightInv, SyncInv, SlaveIdle, UNCHANGED <<MasterCtrl, pressed, delivered>>
    PROVE  SyncInv'
<1>1. SlaveIn("IDLE") /\ Drop("slave") /\ MAC_RecvData("slave") /\ UNCHANGED FrameLen
  BY DEF SlaveIdle
<1>2. Kept("master") /\ ~GotData("slave")'
  BY <1>1, LoopKeeps
<1>3. radio'["slave"] = "rx" /\ SameFrame'
  BY <1>1 DEF MAC_RecvData, SyncInv, SameFrame, TypeOK, MacTypeOK
<1>4. /\ SlaveCtrl'.State = "FW_VERSION_READY" /\ SlaveCtrl'.BlockNum = SlaveCtrl.BlockNum
      /\ SlaveCtrl'.PktCRC = SlaveCtrl.PktCRC
  BY DEF SlaveIdle, TypeOK, SlaveTypeOK
<1>5. SlavePlace' /\ ~Active'
  BY <1>1, <1>4 DEF SyncInv, SlavePlace, SlaveIn, Active
<1> QED
  BY <1>2, <1>3, <1>4, <1>5, PrefixKept, SilentStep

LEMMA SlaveVersionSync ==
    ASSUME TypeOK, FlightInv, SyncInv, SlaveVersionReq, UNCHANGED <<MasterCtrl, pressed, delivered>>
    PROVE  SyncInv'
<1> DEFINE frame == CmdFrameWith("slave", OTA_CMD_ID_VERSION_RSP, SlaveCtrl.FwVersion)
<1>1. /\ SlaveIn("FW_VERSION_READY") /\ Pop("slave") /\ GotData("slave")
      /\ IsCmd(Rx("slave"), OTA_CMD_ID_VERSION_REQ)
      /\ MAC_SendData("slave", frame, CmdLen(2)) /\ SetLen("slave", CmdLen(2))
  BY DEF SlaveVersionReq, SlaveGotCmd, SlaveSend, IsCmd
<1>2. IsCmd(frame, OTA_CMD_ID_VERSION_RSP)
  BY CmdGives
<1> HIDE DEF frame
<1>3. Kept("master") /\ ~GotData("slave")'
  BY <1>1, LoopKeeps
<1>4. Answer' = frame /\ SameFrame'
  BY <1>1, SendGives DEF SyncInv, Answer
<1>5. /\ SlaveCtrl'.State = "START_READY" /\ SlaveCtrl'.BlockNum = SlaveCtrl.BlockNum
      /\ SlaveCtrl'.PktCRC = SlaveCtrl.PktCRC
  BY DEF SlaveVersionReq, TypeOK, SlaveTypeOK
<1>6. SlavePlace' /\ Active'
  BY <1>1, <1>2, <1>4, <1>5 DEF SyncInv, SlavePlace, SlaveIn, Active
<1>7. Opening(Asked)
  BY <1>1, RequestKnown DEF IsCmd, Opening
<1> QED
  BY <1>1, <1>3, <1>4, <1>5, <1>6, <1>7, PrefixKept, ReplyStep

(* A request that was answered before is answered with the same frame. *)
LEMMA SlaveRepeatSync ==
    ASSUME TypeOK, FlightInv, SyncInv, SlaveRepeat, UNCHANGED <<MasterCtrl, pressed, delivered>>
    PROVE  SyncInv'
<1>1. /\ Pop("slave") /\ GotData("slave")
      /\ MAC_SendData("slave", TxFrame["slave"], RxLen("slave")) /\ SetLen("slave", RxLen("slave"))
  BY DEF SlaveRepeat, SlaveGotCmd, SlaveGotBlock, SlaveSend
<1>2. Kept("master") /\ ~GotData("slave")'
  BY <1>1, LoopKeeps
<1>3. Answer' = Answer /\ SameFrame'
  BY <1>1, SendGives DEF SyncInv, Answer
<1>4. /\ SlaveCtrl'.State = SlaveCtrl.State /\ SlaveCtrl'.BlockNum = SlaveCtrl.BlockNum
      /\ SlaveCtrl'.PktCRC = SlaveCtrl.PktCRC
  BY DEF SlaveRepeat, TypeOK, SlaveTypeOK
<1>5. SlavePlace'
  BY <1>3, <1>4 DEF SyncInv, SlavePlace, SlaveIn
<1>6. Active /\ Active' /\ ~SlaveIn("END") /\ ~SlaveIn("END")'
  BY <1>4 DEF SlaveRepeat, SlaveIn, Active
<1>7. ASSUME ~Opening(Asked)
      PROVE  Answers(Asked, Answer') /\ InStep(Asked, MasterCtrl.Bin)'
  <2>1. /\ Rx("slave").Type = Asked.Type /\ Rx("slave").Id = Asked.Id
        /\ Request(mac_TxBuf["master"], MasterCtrl.Bin) /\ InStep(Asked, MasterCtrl.Bin)
    BY <1>1, <1>7, RequestKnown
  <2>2. Asked' = Asked
    BY <1>2 DEF Kept, Asked
  <2>3. InStep(Asked, MasterCtrl.Bin)'
    BY <1>4, <2>1, <2>2 DEF InStep, Active, SlaveIn
  <2>4. CASE SlaveIn("START_READY") /\ SlaveGotCmd(OTA_CMD_ID_VERSION_REQ)
    BY <1>7, <2>1, <2>4 DEF SlaveGotCmd, Opening, IsCmd
  <2>5. CASE SlaveIn("DATA_READY") /\ SlaveGotCmd(OTA_CMD_ID_START_REQ)
    <3>1. IsCmd(Asked, OTA_CMD_ID_START_REQ)
      BY <2>1, <2>5 DEF SlaveGotCmd, IsCmd
    <3>2. SlaveCtrl.BlockNum = 0
      BY <1>6, <2>1, <2>5, <3>1 DEF InStep, SlaveIn
    <3>3. IsCmd(Answer, OTA_CMD_ID_START_RSP)
      BY <2>5, <3>2 DEF SyncInv, SlavePlace, SlaveIn
    <3> QED
      BY <1>3, <2>3, <3>1, <3>3 DEF Answers
  <2>6. CASE SlaveCtrl.State \in {"DATA_READY", "END_READY"} /\ SlaveGotBlock(SlaveCtrl.BlockNum)
    <3>1. Asked.Type = OTA_FRAME_TYPE_DATA /\ Asked.Id = SlaveCtrl.BlockNum
      BY <2>1, <2>6 DEF SlaveGotBlock
    <3>2. PICK k \in 1 .. MaxBlockNum(MasterCtrl.Bin) : mac_TxBuf["master"] = BlockPacket(MasterCtrl.Bin, k)
      BY <1>7, <2>1, <3>1 DEF Request, SyncInv, SameFrame, Asked, IsCmd,
                              OTA_FRAME_TYPE_DATA, OTA_FRAME_TYPE_CMD
    <3>3. SlaveCtrl.BlockNum # 0
      BY <3>1, <3>2 DEF BlockPacket, SyncInv, SameFrame, Asked
    <3>4. Answer.Type = OTA_FRAME_TYPE_ACK /\ Answer.Id = SlaveCtrl.BlockNum
      BY <2>6, <3>3 DEF SyncInv, SlavePlace
    <3> QED
      BY <1>3, <2>3, <3>1, <3>4 DEF Answers
  <2> QED
    BY <2>4, <2>5, <2>6 DEF SlaveRepeat
<1> QED
  BY <1>1, <1>2, <1>3, <1>4, <1>5, <1>6, <1>7, PrefixKept, ReplyStep

LEMMA SlaveStartSync ==
    ASSUME TypeOK, FlightInv, SyncInv, SlaveStartReq, UNCHANGED <<MasterCtrl, pressed, delivered>>
    PROVE  SyncInv'
<1> DEFINE frame == CmdFrame("slave", OTA_CMD_ID_START_RSP)
<1>1. /\ SlaveIn("START_READY") /\ Pop("slave") /\ GotData("slave")
      /\ IsCmd(Rx("slave"), OTA_CMD_ID_START_REQ)
      /\ MAC_SendData("slave", frame, CmdLen(0)) /\ SetLen("slave", CmdLen(0))
  BY DEF SlaveStartReq, SlaveGotCmd, SlaveSend, IsCmd
<1>2. IsCmd(frame, OTA_CMD_ID_START_RSP)
  BY CmdGives
<1> HIDE DEF frame
<1>3. Kept("master") /\ ~GotData("slave")'
  BY <1>1, LoopKeeps
<1>4. Answer' = frame /\ SameFrame'
  BY <1>1, SendGives DEF SyncInv, Answer
<1>5. /\ SlaveCtrl'.State = "DATA_READY" /\ SlaveCtrl'.BlockNum = SlaveCtrl.BlockNum
      /\ SlaveCtrl'.PktCRC = SlaveCtrl.PktCRC
  BY DEF SlaveStartReq, TypeOK, SlaveTypeOK
<1>6. SlaveCtrl.BlockNum = 0
  BY <1>1 DEF SyncInv, SlavePlace, SlaveIn
<1>7. SlavePlace' /\ Active' /\ ~SlaveIn("END")'
  BY <1>2, <1>4, <1>5, <1>6 DEF SyncInv, SlavePlace, SlaveIn, Active
<1>8. ASSUME ~Opening(Asked)
      PROVE  Answers(Asked, Answer') /\ InStep(Asked, MasterCtrl.Bin)'
  <2>1. IsCmd(Asked, OTA_CMD_ID_START_REQ)
    BY <1>1, <1>8, RequestKnown DEF IsCmd
  <2>2. Asked' = Asked
    BY <1>3 DEF Kept, Asked
  <2> QED
    BY <1>2, <1>4, <1>5, <1>6, <2>1, <2>2
    DEF Answers, InStep, SlaveIn, IsCmd, OTA_FRAME_TYPE_CMD, OTA_FRAME_TYPE_DATA
<1> QED
  BY <1>1, <1>3, <1>4, <1>5, <1>7, <1>8, PrefixKept, ReplyStep

(* The block that the slave adds is whole, and the next one of its image. *)
LEMMA SlaveBlockSync ==
    ASSUME TypeOK, FlightInv, SyncInv, SlaveBlock, UNCHANGED <<MasterCtrl, pressed, delivered>>
    PROVE  SyncInv'
<1> DEFINE num == SlaveCtrl.BlockNum + 1
           p == Msg("slave").Data
           ack == AckFrame(num)
<1>0. SlaveCtrl.BlockNum \in Nat /\ num \in Nat /\ num # 0 /\ num - 1 = SlaveCtrl.BlockNum
  BY DEF TypeOK, SlaveTypeOK
<1>1. /\ SlaveIn("DATA_READY") /\ Pop("slave") /\ GotData("slave")
      /\ Rx("slave").Type = OTA_FRAME_TYPE_DATA /\ Rx("slave").Id = num
      /\ MAC_SendData("slave", ack, 3) /\ SetLen("slave", RxLen("slave"))
  BY DEF SlaveBlock, SlaveGotBlock
<1>2. /\ p.Frame.Type = OTA_FRAME_TYPE_DATA /\ p.Frame.Id = num
      /\ Rx("slave") = p.Frame /\ RxLen("slave") = p.Len
  BY <1>1, RxGives DEF OTA_FRAME_TYPE_CMD, OTA_FRAME_TYPE_DATA
<1>3. ack.Type = OTA_FRAME_TYPE_ACK /\ ack.Id = num
  BY DEF AckFrame
<1> HIDE DEF ack
<1>4. Kept("master") /\ ~GotData("slave")'
  BY <1>1, LoopKeeps
<1>5. Answer' = ack /\ SameFrame'
  BY <1>1, SendGives DEF SyncInv, Answer
<1>6. PICK im \in Image : Request(p, im) /\ InStep(p.Frame, im)
  BY <1>1 DEF SyncInv, HeardPlace
<1>7. p = BlockPacket(im, num)
  BY <1>2, <1>6, RequestBlock
<1>8. SlaveCtrl.PktCRC = FirstBlocks(im, SlaveCtrl.BlockNum)
  BY <1>1, <1>2, <1>6 DEF InStep, Active, SlaveIn
<1>9. Payload = Block(im, num)
  <2>1. p.Frame.Data = Block(im, num) /\ p.Len = 3 + BlockBytes(im, num)
    BY <1>7 DEF BlockPacket
  <2>2. Block(im, num) \in BlockOf /\ Block(im, num).im = im /\ Block(im, num).idx = num
    BY <1>0 DEF Block, BlockOf
  <2>3. BlockBytes(im, num) \in Int
    BY <1>0, BlockBytesType
  <2>4. RxLen("slave") - 3 = BlockBytes(im, num)
    BY <1>2, <2>1, <2>3
  <2> QED
    BY <1>2, <2>1, <2>2, <2>4 DEF Payload
<1>10. /\ SlaveCtrl'.State \in {"DATA_READY", "END_READY"} /\ SlaveCtrl'.BlockNum = num
       /\ SlaveCtrl'.PktCRC = Append(SlaveCtrl.PktCRC, Payload)
  BY DEF SlaveBlock, SlaveIn, TypeOK, SlaveTypeOK
<1>11. SlaveCtrl'.PktCRC = FirstBlocks(im, num)
  BY <1>0, <1>8, <1>9, <1>10, NextBlock
<1>12. PrefixReceived'
  <2>1. \A i \in DOMAIN FirstBlocks(im, num) : FirstBlocks(im, num)[i] = Block(im, i)
    BY DEF FirstBlocks
  <2> QED
    BY <1>11, <2>1 DEF PrefixReceived
<1>13. SlavePlace' /\ Active' /\ ~SlaveIn("END")'
  BY <1>0, <1>3, <1>5, <1>10 DEF SlavePlace, SlaveIn, Active
<1>14. ASSUME ~Opening(Asked)
       PROVE  Answers(Asked, Answer') /\ InStep(Asked, MasterCtrl.Bin)'
  <2>1. /\ p = mac_TxBuf["master"] /\ p.Frame = Asked
        /\ Request(mac_TxBuf["master"], MasterCtrl.Bin)
    BY <1>1, <1>14, RequestKnown
  <2>2. p = BlockPacket(MasterCtrl.Bin, num)
    BY <1>2, <2>1, RequestBlock
  <2>3. im = MasterCtrl.Bin
    BY <1>7, <2>2 DEF BlockPacket, Block
  <2>4. Asked' = Asked
    BY <1>4 DEF Kept, Asked
  <2>5. Asked.Type = OTA_FRAME_TYPE_DATA /\ Asked.Id = num
    BY <1>2, <2>1
  <2> QED
    BY <1>3, <1>5, <1>10, <1>11, <2>3, <2>4, <2>5
    DEF Answers, InStep, SlaveIn, IsCmd, OTA_FRAME_TYPE_CMD, OTA_FRAME_TYPE_DATA
<1> QED
  BY <1>1, <1>4, <1>5, <1>12, <1>13, <1>14, ReplyStep

(* The session ends at the slave: the image summed up is the master's. *)
LEMMA SlaveEndReqSync ==
    ASSUME TypeOK, FlightInv, SyncInv, SlaveStep, SlaveEndReq
    PROVE  SyncInv'
<1> DEFINE frame == CmdFrame("slave", OTA_CMD_ID_END_RSP)
<1>1. /\ SlaveIn("END_READY") /\ Pop("slave") /\ GotData("slave")
      /\ IsCmd(Rx("slave"), OTA_CMD_ID_END_REQ)
      /\ UNCHANGED <<MasterCtrl, pressed>>
  BY DEF SlaveStep, SlaveEndReq, SlaveGotCmd, IsCmd
<1>2. CASE /\ SlaveCtrl' = [SlaveCtrl EXCEPT !.State = "ERROR", !.RetryTimes = 0]
           /\ NoSend /\ SetLen("slave", RxLen("slave"))
  <2>1. Kept("master") /\ ~GotData("slave")'
    BY <1>1, <1>2, LoopKeeps
  <2>2. radio'["slave"] # "tx" /\ SameFrame'
    <3>1. radio["slave"] = "off"
      BY <1>1 DEF FlightInv, Alone, GotData, GotMsg
    <3> QED
      BY <1>2, <3>1 DEF NoSend, SyncInv, SameFrame
  <2>3. /\ SlaveCtrl'.State = "ERROR" /\ SlaveCtrl'.BlockNum = SlaveCtrl.BlockNum
        /\ SlaveCtrl'.PktCRC = SlaveCtrl.PktCRC
    BY <1>2 DEF TypeOK, SlaveTypeOK
  <2>4. SlavePlace' /\ ~Active' /\ UNCHANGED delivered
    BY <2>3 DEF SyncInv, SlavePlace, SlaveIn, Active, SlaveStep
  <2> QED
    BY <1>1, <2>1, <2>2, <2>3, <2>4, PrefixKept, SilentStep
<1>3. CASE /\ SlaveCtrl' = [SlaveCtrl EXCEPT !.State = "END", !.RetryTimes = 0]
           /\ SlaveSend(frame, CmdLen(0))
  <2>1. IsCmd(frame, OTA_CMD_ID_END_RSP)
    BY CmdGives
  <2> HIDE DEF frame
  <2>2. MAC_SendData("slave", frame, CmdLen(0)) /\ SetLen("slave", CmdLen(0))
    BY <1>3 DEF SlaveSend
  <2>3. Kept("master") /\ ~GotData("slave")'
    BY <1>1, <2>2, LoopKeeps
  <2>4. Answer' = frame /\ SameFrame'
    BY <2>2, SendGives DEF SyncInv, Answer
  <2>5. /\ SlaveCtrl'.State = "END" /\ SlaveCtrl'.BlockNum = SlaveCtrl.BlockNum
        /\ SlaveCtrl'.PktCRC = SlaveCtrl.PktCRC
    BY <1>3 DEF TypeOK, SlaveTypeOK
  <2>6. SlavePlace' /\ Active'
    BY <2>1, <2>4, <2>5 DEF SyncInv, SlavePlace, SlaveIn, Active
  <2>7. delivered' = delivered \cup {<<im, pressed["master"]>> : im \in Complete}
    BY <1>1, <2>5 DEF SlaveStep
  <2>8. ASSUME ~Opening(Asked)
        PROVE  /\ Answers(Asked, Answer') /\ InStep(Asked, MasterCtrl.Bin)'
               /\ <<MasterCtrl.Bin, pressed["master"]>> \in delivered'
    <3>1. IsCmd(Asked, OTA_CMD_ID_END_REQ) /\ InStep(Asked, MasterCtrl.Bin)
      BY <1>1, <2>8, RequestKnown DEF IsCmd
    <3>2. Asked' = Asked
      BY <2>3 DEF Kept, Asked
    <3>3. SlaveCtrl.PktCRC = Blocks(MasterCtrl.Bin)
      BY <1>1, <3>1 DEF InStep, Active, SlaveIn
    <3>4. MasterCtrl.Bin \in Complete
      BY <3>3, ImageAssumption DEF Complete, TypeOK, MasterTypeOK
    <3>5. InStep(Asked, MasterCtrl.Bin)'
      BY <1>1, <2>5, <3>1, <3>2, <3>3
      DEF InStep, SlaveIn, IsCmd, OTA_FRAME_TYPE_CMD, OTA_FRAME_TYPE_DATA
    <3> QED
      BY <2>1, <2>4, <2>7, <3>1, <3>4, <3>5 DEF Answers
  <2> QED
    BY <1>1, <2>3, <2>4, <2>5, <2>6, <2>7, <2>8, PrefixKept, ReplyStep
<1> QED
  BY <1>2, <1>3 DEF SlaveEndReq

LEMMA SlaveRetrySync ==
    ASSUME TypeOK, FlightInv, SyncInv, SlaveRetry, UNCHANGED <<MasterCtrl, pressed, delivered>>
    PROVE  SyncInv'
<1>1. /\ GotMsg("slave") /\ Pop("slave") /\ SetLen("slave", RxLen("slave"))
      /\ NoSend \/ MAC_RecvData("slave")
  BY DEF SlaveRetry
<1>2. Kept("master") /\ ~GotData("slave")'
  BY <1>1, LoopKeeps
<1>3. radio["slave"] = "off"
  BY <1>1 DEF FlightInv, Alone, GotMsg
<1>4. /\ radio'["slave"] # "tx" /\ UNCHANGED <<mac_TxBuf, TxFrame>>
  BY <1>1, <1>3 DEF NoSend, MAC_RecvData, TypeOK, MacTypeOK
<1>5. /\ SlaveCtrl'.State = SlaveCtrl.State \/ SlaveCtrl'.State = "ERROR"
      /\ SlaveCtrl'.BlockNum = SlaveCtrl.BlockNum /\ SlaveCtrl'.PktCRC = SlaveCtrl.PktCRC
  BY DEF SlaveRetry, TypeOK, SlaveTypeOK
<1>6. SlavePlace' /\ SameFrame'
  BY <1>4, <1>5 DEF SyncInv, SlavePlace, SlaveIn, SameFrame, Answer
<1>7. ~Active' \/ SlaveCtrl'.State = SlaveCtrl.State
  BY <1>5 DEF Active
<1> QED
  BY <1>2, <1>4, <1>5, <1>6, <1>7, PrefixKept, SilentStep

LEMMA SlaveVerifySync ==
    ASSUME TypeOK, FlightInv, SyncInv, SlaveVerify, UNCHANGED <<MasterCtrl, pressed, delivered>>
    PROVE  SyncInv'
<1>1. Drop("slave") /\ NoSend /\ UNCHANGED FrameLen /\ radio["slave"] # "tx"
  BY DEF SlaveVerify
<1>2. Kept("master") /\ ~GotData("slave")'
  BY <1>1, LoopKeeps
<1>3. radio'["slave"] # "tx" /\ SameFrame'
  BY <1>1 DEF NoSend, SyncInv, SameFrame
<1>4. /\ SlaveCtrl'.State \in {"FLAG_SET", "ERROR"} /\ SlaveCtrl'.BlockNum = SlaveCtrl.BlockNum
      /\ SlaveCtrl'.PktCRC = SlaveCtrl.PktCRC
  BY DEF SlaveVerify, TypeOK, SlaveTypeOK
<1>5. SlavePlace' /\ ~Active'
  BY <1>4 DEF SyncInv, SlavePlace, SlaveIn, Active
<1> QED
  BY <1>2, <1>3, <1>4, <1>5, PrefixKept, SilentStep

LEMMA SlaveResetSync ==
    ASSUME TypeOK, SyncInv, SlaveReset, UNCHANGED <<MasterCtrl, delivered>>,
           pressed'["master"] = pressed["master"]
    PROVE  SyncInv'
<1>1. radio'["slave"] = "off" /\ ~GotData("slave")' /\ Kept("master") /\ SameFrame'
  BY ResetGives DEF SlaveReset, SyncInv
<1>2. SlaveCtrl'.State = "APP" /\ SlaveCtrl'.BlockNum = 0 /\ SlaveCtrl'.PktCRC = << >>
  BY DEF SlaveReset, SlaveBoot
<1>3. SlavePlace' /\ ~Active'
  BY <1>2 DEF SlavePlace, SlaveIn, Active
<1> QED
  BY <1>1, <1>2, <1>3, PrefixEmpty, SilentStep

(* A step of the slave outside a session, which leaves the radio alone. *)
LEMMA SlaveAloneSync ==
    ASSUME TypeOK, SyncInv, UNCHANGED <<MasterCtrl, macVars, delivered>>,
           pressed'["master"] = pressed["master"], ~Active,
           SlaveCtrl'.State \in {"IDLE", "LOW_BATT", "FLAG_CLEARED"},
           \/ SlaveCtrl'.BlockNum = 0 /\ SlaveCtrl'.PktCRC = << >>
           \/ /\ SlaveCtrl'.BlockNum = SlaveCtrl.BlockNum /\ SlaveCtrl'.PktCRC = SlaveCtrl.PktCRC
              /\ SlaveIn("APP") \/ SlaveCtrl'.State = "FLAG_CLEARED"
    PROVE  SyncInv'
<1>1. Kept("master") /\ MsgQueue'["slave"] = MsgQueue["slave"] /\ SameFrame'
  BY DEF Kept, macVars, SyncInv, SameFrame
<1>2. radio'["slave"] # "tx"
  BY DEF SyncInv, SendingPlace, macVars
<1>3. SlavePlace' /\ ~Active'
  BY DEF SyncInv, SlavePlace, SlaveIn, Active
<1> QED
  BY <1>1, <1>2, <1>3, PrefixEmpty, PrefixKept, SilentStep

LEMMA SlaveSync ==
    ASSUME TypeOK, FlightInv, SyncInv, SlaveStep
    PROVE  SyncInv'
<1>1. UNCHANGED <<MasterCtrl, pressed>> /\ OTA_SlaveStart
  BY DEF SlaveStep
<1>2. CASE SlaveEndReq
  BY <1>2, SlaveEndReqSync
<1>3. ASSUME ~SlaveIn("END_READY") \/ SlaveCtrl'.State # "END" PROVE UNCHANGED delivered
  BY <1>3 DEF SlaveStep
<1>4. CASE SlaveIdle \/ SlaveVersionReq \/ SlaveRepeat \/ SlaveStartReq \/ SlaveBlock \/ SlaveRetry
  <2>1. UNCHANGED delivered
    BY <1>3, <1>4 DEF SlaveIdle, SlaveVersionReq, SlaveRepeat, SlaveStartReq, SlaveBlock, SlaveRetry,
                      SlaveIn, TypeOK, SlaveTypeOK
  <2> QED
    BY <1>1, <1>4, <2>1, SlaveIdleSync, SlaveVersionSync, SlaveRepeatSync, SlaveStartSync,
       SlaveBlockSync, SlaveRetrySync
<1>5. CASE SlaveVerify
  BY <1>1, <1>3, <1>5, SlaveVerifySync DEF SlaveVerify, SlaveIn
<1>6. CASE SlaveReboot \/ SlaveError
  BY <1>1, <1>3, <1>6, SlaveResetSync DEF SlaveReboot, SlaveError, SlaveIn
<1>7. CASE SlaveClearFlag
  <2>1. /\ SlaveIn("FLAG_SET") /\ UNCHANGED macVars /\ SlaveCtrl'.State = "FLAG_CLEARED"
        /\ SlaveCtrl'.BlockNum = SlaveCtrl.BlockNum /\ SlaveCtrl'.PktCRC = SlaveCtrl.PktCRC
    BY <1>7 DEF SlaveClearFlag, TypeOK, SlaveTypeOK
  <2>2. ~Active /\ UNCHANGED delivered
    BY <1>3, <2>1 DEF Active, SlaveIn
  <2> QED
    BY <1>1, <2>1, <2>2, SlaveAloneSync
<1> QED
  BY <1>1, <1>2, <1>4, <1>5, <1>6, <1>7 DEF OTA_SlaveStart

LEMMA PressSlaveSync ==
    ASSUME TypeOK, SyncInv, PressSlave
    PROVE  SyncInv'
<1>1. UNCHANGED <<MasterCtrl, delivered>> /\ pressed'["master"] = pressed["master"]
  BY DEF PressSlave, Press, TypeOK
<1>2. CASE OTA_SlaveInit \/ SlaveLowBattery
  <2>1. /\ SlaveIn("APP") /\ UNCHANGED macVars /\ SlaveCtrl'.State \in {"IDLE", "LOW_BATT"}
        /\ \/ SlaveCtrl'.BlockNum = 0 /\ SlaveCtrl'.PktCRC = << >>
           \/ SlaveCtrl'.BlockNum = SlaveCtrl.BlockNum /\ SlaveCtrl'.PktCRC = SlaveCtrl.PktCRC
    BY <1>2 DEF OTA_SlaveInit, SlaveLowBattery, SlaveBoot, TypeOK, SlaveTypeOK
  <2>2. ~Active
    BY <2>1 DEF Active, SlaveIn
  <2> QED
    BY <1>1, <2>1, <2>2, SlaveAloneSync
<1>3. CASE SlavePowerLossInErase
  BY <1>1, <1>3, SlaveResetSync DEF SlavePowerLossInErase
<1> QED
  BY <1>2, <1>3 DEF PressSlave

LEMMA SlaveFailsSync ==
    ASSUME TypeOK, SyncInv, SlaveFails
    PROVE  SyncInv'
<1>1. UNCHANGED <<MasterCtrl, pressed, delivered>> /\ SlaveReset
  BY DEF SlaveFails, SlavePowerLoss, SlavePowerLossInErase
<1> QED
  BY <1>1, SlaveResetSync
-----------------------------------------------------------------------------
LEMMA InitSync == Init => SyncInv
<1> SUFFICES ASSUME Init PROVE SyncInv
  OBVIOUS
<1>1. \A n \in Node : /\ TxFrame[n] = NoFrame /\ mac_TxBuf[n] = NoPacket
                      /\ MsgQueue[n] = << >> /\ radio[n] = "off"
  BY DEF Init, MacInit
<1>2. PICK bin \in MasterImage : MasterCtrl = MasterBoot(bin)
  BY DEF Init, MasterInit
<1>3. SlaveCtrl = SlaveBoot
  BY DEF Init, SlaveInit
<1>4. Opening(Asked) /\ SameFrame
  BY <1>1 DEF Opening, Asked, SameFrame, NoPacket
<1>5. MasterPlace
  BY <1>2, <1>4 DEF MasterPlace, MasterIn, MasterBoot
<1>6. SlavePlace
  BY <1>3 DEF SlavePlace, SlaveIn, SlaveBoot
<1>7. AskedPlace
  BY <1>1, <1>4 DEF AskedPlace, Request, NoPacket, Opening
<1>8. HeardPlace /\ SendingPlace /\ AnswerPlace
  BY <1>1 DEF HeardPlace, SendingPlace, AnswerPlace, GotData, GotMsg
<1>9. DeliveredPlace
  BY <1>1, <1>2, <1>4 DEF DeliveredPlace, EndMeansDelivered, MasterIn, MasterBoot, Opening, IsCmd,
                          NoFrame, Asked, OTA_FRAME_TYPE_CMD
<1>10. PrefixReceived
  BY <1>2, <1>3, ImageAssumption DEF PrefixReceived, SlaveBoot
<1> QED
  BY <1>4, <1>5, <1>6, <1>7, <1>8, <1>9, <1>10 DEF SyncInv

LEMMA NextSync == TypeOK /\ FlightInv /\ SyncInv /\ [Next]_vars => SyncInv'
<1> SUFFICES ASSUME TypeOK, FlightInv, SyncInv, [Next]_vars PROVE SyncInv'
  OBVIOUS
<1>1. CASE UNCHANGED vars
  BY <1>1 DEF vars, macVars, SyncInv, SameFrame, MasterPlace, MasterIn, SlavePlace, SlaveIn, AskedPlace,
              Request, InStep, Active, HeardPlace, SendingPlace, AnswerPlace, DeliveredPlace,
              EndMeansDelivered, PrefixReceived, Asked, Answer, GotData, GotMsg, Msg
<1> QED
  BY <1>1, PressMasterSync, MasterSync, PressSlaveSync, SlaveSync, SlaveFailsSync, RadioSync DEF Next

LEMMA SyncInvariant == Spec => [](TypeOK /\ FlightInv /\ SyncInv)
<1>1. Init => TypeOK /\ FlightInv /\ SyncInv
  BY InitType, InitFlight, InitSync
<1>2. (TypeOK /\ FlightInv /\ SyncInv) /\ [Next]_vars => (TypeOK /\ FlightInv /\ SyncInv)'
  BY NextType, NextFlight, NextSync
<1> QED
  BY <1>1, <1>2, PTL DEF Spec

(* While blocks are exchanged the two counts differ by at most one, and a block
   that is sent again is whole. *)
THEOREM BlocksInStep == Spec => []BlockSync
<1>1. TypeOK /\ FlightInv /\ SyncInv => BlockSync
  <2> SUFFICES ASSUME TypeOK, SyncInv PROVE BlockSync
    OBVIOUS
  <2>1. WholeBlocksSent
    <3> SUFFICES ASSUME mac_TxBuf["master"].Frame.Type = OTA_FRAME_TYPE_DATA
                 PROVE  mac_TxBuf["master"].Len =
                          3 + BlockBytes(mac_TxBuf["master"].Frame.Data.im, mac_TxBuf["master"].Frame.Data.idx)
      BY DEF WholeBlocksSent
    <3>1. PICK k : mac_TxBuf["master"] = BlockPacket(MasterCtrl.Bin, k)
      BY RequestBlock DEF SyncInv, AskedPlace
    <3> QED
      BY <3>1 DEF BlockPacket, Block
  <2>2. ASSUME MasterIn("DATA_ACK_WAIT"), SlaveCtrl.State \in {"DATA_READY", "END_READY"}
        PROVE  SlaveCtrl.BlockNum \in {MasterCtrl.BlockNum - 1, MasterCtrl.BlockNum}
    <3>1. mac_TxBuf["master"] = BlockPacket(MasterCtrl.Bin, MasterCtrl.BlockNum)
      BY <2>2 DEF SyncInv, MasterPlace
    <3>2. Asked.Type = OTA_FRAME_TYPE_DATA /\ Asked.Id = MasterCtrl.BlockNum
      BY <3>1 DEF BlockPacket, SyncInv, SameFrame, Asked
    <3>3. ~Opening(Asked)
      BY <3>2 DEF Opening, NoFrame, IsCmd, OTA_FRAME_TYPE_DATA, OTA_FRAME_TYPE_CMD
    <3> QED
      BY <2>2, <3>2, <3>3 DEF SyncInv, AskedPlace, InStep, Active
  <2> QED
    BY <2>1, <2>2 DEF BlockSync
<1> QED
  BY <1>1, SyncInvariant, PTL

(* What the slave has is what the master sent, and a master that reports success
   has delivered every block of its binary since it was started. *)
THEOREM DeliveredWhatWasSent == Spec => []ReceivedIsSent
<1>1. SyncInv => ReceivedIsSent
  BY DEF SyncInv, DeliveredPlace, ReceivedIsSent
<1> QED
  BY <1>1, SyncInvariant, PTL
=============================================================================
