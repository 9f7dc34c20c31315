------------------------------- MODULE OtaMac -------------------------------
(***************************************************************************)
(* What the master and the slave of the OTA update share: the frames of    *)
(* src/ota/ota.h, the MAC of src/ota/mac.c over the single-shot radio      *)
(* states of genfsk_ll, the interrupt handler, and the queue of messages   *)
(* between the handler and the main loop.  Each node has its own copy.     *)
(*                                                                         *)
(* The radio has no buffer and the air keeps nothing: a packet is heard if *)
(* the peer is receiving while it is sent, and lost otherwise.  One start  *)
(* of the radio gives one interrupt: a packet, a corrupted packet, or a    *)
(* timeout.  Time is not modelled: a timeout may come at any moment.       *)
(***************************************************************************)
EXTENDS OtaImage

CONSTANTS
    NoData,  \* the data of a frame that is not a DATA frame
    MaxHeld  \* how many radio interrupts a held trigger button may swallow

VARIABLES
    radio,     \* [Node -> {"off", "tx", "rx"}]
    mac_TxBuf, \* the packet handed to the radio
    MsgQueue,  \* messages from the interrupt handler, the oldest first
    TxFrame,   \* the frame last sent, kept to be sent again
    RxFrame,   \* the frame last received; shorter frames leave its tail as it was
    FrameLen,  \* the static Len of OTA_MasterStart and OTA_SlaveStart
    held       \* radio interrupts swallowed so far

macVars == <<radio, mac_TxBuf, MsgQueue, TxFrame, RxFrame, FrameLen, held>>

ASSUME HeldAssumption == MaxHeld \in Nat
ASSUME NoDataAssumption == NoData \notin BlockOf

Node == {"master", "slave"}
Peer(n) == IF n = "master" THEN "slave" ELSE "master"

MSG_QUEUE_LEN == 4
OTA_RETRY_MAX == 3

OTA_FRAME_TYPE_CMD == 1
OTA_FRAME_TYPE_DATA == 2
OTA_FRAME_TYPE_ACK == 3
FrameType == {OTA_FRAME_TYPE_CMD, OTA_FRAME_TYPE_DATA, OTA_FRAME_TYPE_ACK}

OTA_CMD_ID_START_REQ == 1
OTA_CMD_ID_START_RSP == 2
OTA_CMD_ID_END_REQ == 3
OTA_CMD_ID_END_RSP == 4
OTA_CMD_ID_VERSION_REQ == 5
OTA_CMD_ID_VERSION_RSP == 6

(* Id is the command, or the block number of a DATA or ACK frame; Val the
   value after a command's identifier; Data the block of a DATA frame. *)
Frame == [Type : FrameType \cup {0}, Id : Nat, Val : Nat, Data : BlockOf \cup {NoData}]

NoFrame == [Type |-> 0, Id |-> 0, Val |-> 0, Data |-> NoData]

Packet == [Frame : Frame, Len : Int]
NoPacket == [Frame |-> NoFrame, Len |-> 0]

Message == [Type : {"INVALID_DATA", "DATA", "TIMEOUT"}, Data : Packet]

INVALID_DATA == [Type |-> "INVALID_DATA", Data |-> NoPacket]
TIMEOUT == [Type |-> "TIMEOUT", Data |-> NoPacket]

(* OTA_BuildCmdFrame without a value leaves the payload's tail as it was. *)
CmdFrame(n, id) == [TxFrame[n] EXCEPT !.Type = OTA_FRAME_TYPE_CMD, !.Id = id, !.Data = NoData]
CmdFrameWith(n, id, val) == [CmdFrame(n, id) EXCEPT !.Val = val]
CmdLen(valueLen) == valueLen + 2

(* RxFrame after Len-1 payload bytes of a packet are copied over rx: a command
   of two bytes has no value, and the one in the buffer stays. *)
Received(rx, p) ==
    IF p.Frame.Type = OTA_FRAME_TYPE_CMD /\ p.Len <= CmdLen(0)
    THEN [p.Frame EXCEPT !.Val = rx.Val]
    ELSE p.Frame

(* The message that the main loop pops, the frame buffer and Len with it. *)
Msg(n) == Head(MsgQueue[n])
GotMsg(n) == MsgQueue[n] # << >>
GotData(n) == GotMsg(n) /\ Msg(n).Type = "DATA"
Rx(n) == IF GotData(n) THEN Received(RxFrame[n], Msg(n).Data) ELSE RxFrame[n]
RxLen(n) == IF GotData(n) THEN Msg(n).Data.Len ELSE FrameLen[n]

(* OTA_MsgQueuePop, then what every waiting state does with a data message. *)
Pop(n) ==
    /\ MsgQueue' = [MsgQueue EXCEPT ![n] = IF @ = << >> THEN @ ELSE Tail(@)]
    /\ RxFrame' = [RxFrame EXCEPT ![n] = Rx(n)]

(* A main loop call that pops and ignores the message. *)
Drop(n) ==
    /\ MsgQueue' = [MsgQueue EXCEPT ![n] = IF @ = << >> THEN @ ELSE Tail(@)]
    /\ UNCHANGED RxFrame

MAC_SendData(n, frame, len) ==
    /\ TxFrame' = [TxFrame EXCEPT ![n] = frame]
    /\ mac_TxBuf' = [mac_TxBuf EXCEPT ![n] = [Frame |-> frame, Len |-> len]]
    /\ radio' = [radio EXCEPT ![n] = "tx"]

MAC_RecvData(n) ==
    /\ radio' = [radio EXCEPT ![n] = "rx"]
    /\ UNCHANGED <<mac_TxBuf, TxFrame>>

NoSend == UNCHANGED <<radio, mac_TxBuf, TxFrame>>

SetLen(n, len) == FrameLen' = [FrameLen EXCEPT ![n] = len]
-----------------------------------------------------------------------------
(* OTA_MsgQueuePush drops the message when the queue is full. *)
Push(q, msg) == IF Len(q) < MSG_QUEUE_LEN THEN Append(q, msg) ELSE q

(* A radio interrupt at node n.  irq_handler spins while the trigger button is
   held and then clears every radio interrupt, also one raised while it spun:
   the message is then never pushed. *)
Irq(n, msg) ==
    \/ MsgQueue' = [MsgQueue EXCEPT ![n] = Push(@, msg)] /\ UNCHANGED held
    \/ held < MaxHeld /\ held' = held + 1 /\ UNCHANGED MsgQueue

(* Mutant: the receiver is not single-shot, it stays on after a packet. *)
HeardStaysOn(n) ==
    /\ radio[n] = "tx" /\ radio[Peer(n)] = "rx"
    /\ radio' = [radio EXCEPT ![n] = "rx"]
    /\ Irq(Peer(n), [Type |-> "DATA", Data |-> mac_TxBuf[n]])
    /\ UNCHANGED <<mac_TxBuf, TxFrame, RxFrame, FrameLen>>

(* The packet goes out, and the sender starts to receive: its peer has it if
   it was receiving. *)
Heard(n) ==
    /\ radio[n] = "tx" /\ radio[Peer(n)] = "rx"
    /\ radio' = [radio EXCEPT ![n] = "rx", ![Peer(n)] = "off"]
    /\ Irq(Peer(n), [Type |-> "DATA", Data |-> mac_TxBuf[n]])
    /\ UNCHANGED <<mac_TxBuf, TxFrame, RxFrame, FrameLen>>

Lost(n) ==
    /\ radio[n] = "tx"
    /\ radio' = [radio EXCEPT ![n] = "rx"]
    /\ UNCHANGED <<mac_TxBuf, MsgQueue, TxFrame, RxFrame, FrameLen, held>>

(* The peer's packet, or noise, is received with a bad CRC. *)
Corrupted(n) ==
    /\ radio[n] = "rx"
    /\ radio' = [radio EXCEPT ![n] = "off",
                              ![Peer(n)] = IF @ = "tx" THEN "rx" ELSE @]
    /\ Irq(n, INVALID_DATA)
    /\ UNCHANGED <<mac_TxBuf, TxFrame, RxFrame, FrameLen>>

RxTimeout(n) ==
    /\ radio[n] = "rx"
    /\ radio' = [radio EXCEPT ![n] = "off"]
    /\ Irq(n, TIMEOUT)
    /\ UNCHANGED <<mac_TxBuf, TxFrame, RxFrame, FrameLen>>

Air(n) == Heard(n) \/ Lost(n) \/ Corrupted(n) \/ RxTimeout(n)

(* Reset clears RAM: statics, queue and buffers are zero again. *)
MacReset(n) ==
    /\ radio' = [radio EXCEPT ![n] = "off"]
    /\ mac_TxBuf' = [mac_TxBuf EXCEPT ![n] = NoPacket]
    /\ MsgQueue' = [MsgQueue EXCEPT ![n] = << >>]
    /\ TxFrame' = [TxFrame EXCEPT ![n] = NoFrame]
    /\ RxFrame' = [RxFrame EXCEPT ![n] = NoFrame]
    /\ FrameLen' = [FrameLen EXCEPT ![n] = 0]
    /\ UNCHANGED held

MacInit ==
    /\ radio = [n \in Node |-> "off"]
    /\ mac_TxBuf = [n \in Node |-> NoPacket]
    /\ MsgQueue = [n \in Node |-> << >>]
    /\ TxFrame = [n \in Node |-> NoFrame]
    /\ RxFrame = [n \in Node |-> NoFrame]
    /\ FrameLen = [n \in Node |-> 0]
    /\ held = 0

MacTypeOK ==
    /\ radio \in [Node -> {"off", "tx", "rx"}]
    /\ mac_TxBuf \in [Node -> Packet]
    /\ MsgQueue \in [Node -> Seq(Message)]
    /\ \A n \in Node : Len(MsgQueue[n]) <= MSG_QUEUE_LEN
    /\ TxFrame \in [Node -> Frame]
    /\ RxFrame \in [Node -> Frame]
    /\ FrameLen \in [Node -> Int]
    /\ held \in 0 .. MaxHeld
=============================================================================
