------------------------------ MODULE FwUpdate ------------------------------
(***************************************************************************)
(* The firmware update by UART as a whole: a master (FwMaster) and a slave *)
(* (FwSlave), their UARTs, interrupts, queues and timers (FwUart) and the  *)
(* slave's flash (BootFlash).  Either node may lose its power at any time. *)
(* Fails is FALSE in instances that leave power failures out.              *)
(***************************************************************************)
EXTENDS FwMaster, FwSlave

CONSTANTS
    MaxPress, \* how often the button of each node is pressed
    Fails     \* whether the power may fail

VARIABLES
    pressed,  \* [Node -> 0 .. MaxPress]
    delivered \* the images that the slave has had whole, each with the number
              \* of times the master's button had been pressed by then

vars == <<MasterCtrl, SlaveCtrl, flash, uartVars, pressed, delivered>>

ASSUME FwPressAssumption == MaxPress \in Nat /\ Fails \in BOOLEAN

Press(n) ==
    /\ pressed[n] < MaxPress
    /\ pressed' = [pressed EXCEPT ![n] = @ + 1]

Init ==
    /\ MasterInit
    /\ SlaveInit
    /\ FlashInit
    /\ UartInit
    /\ pressed = [n \in Node |-> 0]
    /\ delivered = {}
-----------------------------------------------------------------------------
PressMaster ==
    /\ FW_UPDATE_MasterInit \/ MasterLowBattery
    /\ Press("master")
    /\ UNCHANGED <<SlaveCtrl, flash, delivered>>

MasterStep ==
    /\ MasterLoop
    /\ UNCHANGED <<SlaveCtrl, flash, pressed, delivered>>

MasterFails ==
    /\ Fails /\ MasterPowerLoss
    /\ UNCHANGED <<SlaveCtrl, flash, pressed, delivered>>

PressSlave ==
    /\ FW_UPDATE_SlaveInit \/ SlaveLowBattery
    /\ Press("slave")
    /\ UNCHANGED <<MasterCtrl, delivered>>

(* The image that the blocks received add up to, if they do. *)
Complete == {im \in Image : SlaveCtrl.PktCRC = Blocks(im)}

SlaveStep ==
    /\ SlaveLoop
    /\ delivered' = IF SlaveIn("END_READY") /\ SlaveCtrl'.State = "END"
                    THEN delivered \cup {<<im, pressed["master"]>> : im \in Complete}
                    ELSE delivered
    /\ UNCHANGED <<MasterCtrl, pressed>>

SlaveFails ==
    /\ Fails
    /\ \/ SlavePowerLoss /\ UNCHANGED pressed
       \/ SlaveIn("ERROR") /\ SlavePowerLossInErase /\ UNCHANGED pressed
       \/ SlaveIn("APP") /\ SlavePowerLossInErase /\ Press("slave")
    /\ UNCHANGED <<MasterCtrl, delivered>>

UartStep(n) ==
    /\ Transmitted(n)
    /\ UNCHANGED <<MasterCtrl, SlaveCtrl, flash, pressed, delivered>>

TimerStep(n) ==
    /\ TimerFires(n)
    /\ UNCHANGED <<MasterCtrl, SlaveCtrl, flash, pressed, delivered>>

Next ==
    \/ PressMaster \/ MasterStep \/ MasterFails
    \/ PressSlave \/ SlaveStep \/ SlaveFails
    \/ \E n \in Node : UartStep(n) \/ TimerStep(n)

(* The main loops run, a transmission ends, and ev_process_timer, called in
   every turn of a main loop, finds a timer that has run out. *)
Fairness ==
    /\ WF_vars(MasterStep)
    /\ WF_vars(SlaveStep)
    /\ \A n \in Node : WF_vars(UartStep(n)) /\ WF_vars(TimerStep(n))

Spec == Init /\ [][Next]_vars

FairSpec == Spec /\ Fairness
-----------------------------------------------------------------------------
TypeOK ==
    /\ MasterTypeOK
    /\ SlaveTypeOK
    /\ flash \in [Bank -> BankContent]
    /\ UartTypeOK
    /\ pressed \in [Node -> 0 .. MaxPress]
    /\ delivered \subseteq Image \X (0 .. MaxPress)

(* Wherever the power fails, the bank that the boot ROM starts holds a whole
   image with its flag set (FW_UPDATE_SlaveStart, END state; erasures). *)
BootSafe == Bootable(flash[BootBank])

(* The update is atomic: what boots changes in one step, to an image that was
   received whole and whose trailer is its CRC (fw_update.c:745-801). *)
Delivered == {d[1] : d \in delivered}

Installed == ImageIn(flash[BootBank].cell)

Update == INSTANCE AtomicUpdate WITH
    Sealed <- {im \in Image : Sealed[im]},
    installed <- Installed,
    received <- Delivered

UpdateIsAtomic == Update!Spec

(* A node that waits for a message cannot wait for ever: a message is in its
   queue, or a timer will put one there, and it is the one whose handle the
   node has (every path of MasterStart and SlaveStart that goes on waiting). *)
WaitIsTimed ==
    /\ Running("master") /\ MasterWaits =>
         GotMsg("master") \/ rspWaitTimer["master"] \in timer_list["master"]
    /\ Running("slave") /\ SlaveWaits =>
         GotMsg("slave") \/ rspWaitTimer["slave"] \in timer_list["slave"]

(* A node never has two timers, however its retries, its answers and a timer
   that has fired meet: the ten slots of timer_list, for which ev_on_timer
   spins when none is free, are never used up. *)
OneTimer == \A n \in Node : Cardinality(timer_list[n]) <= 1

(* A condition under which the proofs show the next two; no invariant.  What a
   message that waits in the queue points to is the "content of msg"
   (fw_update.c:65), a frame with a right checksum.  But the DMA goes round three
   buffers (fw_update_phy.c:122-124), and the UART listens before the 15 sectors
   are erased (main.c:152-161 of the slave): the master's request and three
   retries may all come in before the first message is popped. *)
BuffersIntact ==
    \A n \in Node : \A i \in 1 .. Len(MsgQueue(n)) :
        MsgQueue(n)[i].Type = "DATA" => uart[n].PHY_RxBuf[MsgQueue(n)[i].Buf].Ok

(* While blocks are exchanged the two counts of blocks differ by at most one,
   also when late answers and repeated requests cross. *)
BlockSync ==
    MasterIn("DATA_ACK_WAIT") /\ SlaveCtrl.State \in {"DATA_READY", "END_READY"} =>
        SlaveCtrl.BlockNum \in {MasterCtrl.BlockNum - 1, MasterCtrl.BlockNum}

(* What the slave has received so far is a beginning of one image. *)
PrefixReceived ==
    \E im \in Image :
        \A i \in DOMAIN SlaveCtrl.PktCRC : SlaveCtrl.PktCRC[i] = Block(im, i)

(* The master reports success only if the slave received, since the master was
   started, every block of the binary that the master sent. *)
EndMeansDelivered ==
    MasterIn("END") => <<MasterCtrl.Bin, pressed["master"]>> \in delivered

(* What the slave has is what the master sent, from the first block to the
   report of success, although frames are lost, repeated and crossed.  Frames that an
   earlier session left over count as new ones: see FwDeliveredWhatWasSent. *)
ReceivedIsSent == PrefixReceived /\ EndMeansDelivered

(* Every session ends, and the node reboots. *)
SessionsEnd ==
    /\ ~MasterIn("APP") /\ ~MasterIn("LOW_BATT") ~> MasterIn("APP")
    /\ ~SlaveIn("APP") /\ ~SlaveIn("LOW_BATT") ~> SlaveIn("APP")
=============================================================================
