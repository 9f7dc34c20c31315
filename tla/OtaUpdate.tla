----------------------------- MODULE OtaUpdate ------------------------------
(***************************************************************************)
(* The firmware update over the air as a whole: a master (OtaMaster) and a *)
(* slave (OtaSlave) with their radios and interrupts (OtaMac) and the      *)
(* slave's flash (BootFlash).  Either node may lose its power at any time. *)
(***************************************************************************)
EXTENDS OtaMaster, OtaSlave

CONSTANT MaxPress \* how often the button of each node is pressed

VARIABLES
    pressed,  \* [Node -> 0 .. MaxPress]
    delivered \* the images that the slave has had whole, each with the number
              \* of times the master's button had been pressed by then

vars == <<MasterCtrl, SlaveCtrl, flash, macVars, pressed, delivered>>

ASSUME PressAssumption == MaxPress \in Nat

Press(n) ==
    /\ pressed[n] < MaxPress
    /\ pressed' = [pressed EXCEPT ![n] = @ + 1]

Init ==
    /\ MasterInit
    /\ SlaveInit
    /\ FlashInit
    /\ MacInit
    /\ pressed = [n \in Node |-> 0]
    /\ delivered = {}
-----------------------------------------------------------------------------
PressMaster ==
    /\ OTA_MasterInit \/ MasterLowBattery
    /\ Press("master")
    /\ UNCHANGED <<SlaveCtrl, flash, delivered>>

MasterStep ==
    /\ OTA_MasterStart
    /\ UNCHANGED <<SlaveCtrl, flash, pressed, delivered>>

MasterFails ==
    /\ MasterPowerLoss
    /\ UNCHANGED <<SlaveCtrl, flash, pressed, delivered>>

PressSlave ==
    /\ OTA_SlaveInit \/ SlaveLowBattery \/ (SlaveIn("APP") /\ SlavePowerLossInErase)
    /\ Press("slave")
    /\ UNCHANGED <<MasterCtrl, delivered>>

(* The image that the blocks received add up to, if they do. *)
Complete == {im \in Image : SlaveCtrl.PktCRC = Blocks(im)}

SlaveStep ==
    /\ OTA_SlaveStart
    /\ delivered' = IF SlaveIn("END_READY") /\ SlaveCtrl'.State = "END"
                    THEN delivered \cup {<<im, pressed["master"]>> : im \in Complete}
                    ELSE delivered
    /\ UNCHANGED <<MasterCtrl, pressed>>

SlaveFails ==
    /\ SlavePowerLoss \/ (SlaveIn("ERROR") /\ SlavePowerLossInErase)
    /\ UNCHANGED <<MasterCtrl, pressed, delivered>>

RadioStep(n) ==
    /\ Air(n)
    /\ UNCHANGED <<MasterCtrl, SlaveCtrl, flash, pressed, delivered>>

Next ==
    \/ PressMaster \/ MasterStep \/ MasterFails
    \/ PressSlave \/ SlaveStep \/ SlaveFails
    \/ \E n \in Node : RadioStep(n)

(* The main loops run, and a started radio ends in an interrupt.  Nobody has
   to press a button, and the power need not fail. *)
Fairness ==
    /\ WF_vars(MasterStep)
    /\ WF_vars(SlaveStep)
    /\ \A n \in Node : WF_vars(RadioStep(n))

Spec == Init /\ [][Next]_vars

FairSpec == Spec /\ Fairness
-----------------------------------------------------------------------------
TypeOK ==
    /\ MasterTypeOK
    /\ SlaveTypeOK
    /\ flash \in [Bank -> BankContent]
    /\ MacTypeOK
    /\ pressed \in [Node -> 0 .. MaxPress]
    /\ delivered \subseteq Image \X (0 .. MaxPress)

(* Wherever the power fails, during an erasure, between the two flag writes or
   with half an image written, the bank that the boot ROM starts holds a whole
   image with its flag set (OTA_SlaveStart, END state; OTA_SlaveInit). *)
BootSafe == Bootable(flash[BootBank])

(* The firmware that runs is never written to: the cells of the bank that
   boots stay as they are (main.c:160, OTA_FlashErase, flash_write_page). *)
RunningBankUntouched ==
    [][flash'[BootBank].cell = flash[BootBank].cell]_vars

(* A node never has two things in flight: at most one of a message not yet
   popped and a started radio.  It is what keeps OTA_MsgQueuePop, which is not
   protected from the interrupt, and the MAC's receive buffers safe. *)
OneOutstanding ==
    \A n \in Node : Len(MsgQueue[n]) + (IF radio[n] = "off" THEN 0 ELSE 1) <= 1

(* A DATA packet on the air has all of its block: Len, which every packet
   received overwrites, still fits TxFrame when the master sends it again. *)
WholeBlocksSent ==
    LET p == mac_TxBuf["master"] IN
    p.Frame.Type = OTA_FRAME_TYPE_DATA =>
        p.Len = 3 + BlockBytes(p.Frame.Data.im, p.Frame.Data.idx)

(* While blocks are exchanged the two counts of blocks differ by at most one,
   however many packets are lost and whoever retries (OTA_IsBlockNumMatch and
   the block number tests of the DATA_READY state); and a block that is sent
   again is whole. *)
BlockSync ==
    /\ MasterIn("DATA_ACK_WAIT") /\ SlaveCtrl.State \in {"DATA_READY", "END_READY"} =>
         SlaveCtrl.BlockNum \in {MasterCtrl.BlockNum - 1, MasterCtrl.BlockNum}
    /\ WholeBlocksSent

(* What the slave has received so far is a beginning of one image. *)
PrefixReceived ==
    \E im \in Image :
        \A i \in DOMAIN SlaveCtrl.PktCRC : SlaveCtrl.PktCRC[i] = Block(im, i)

(* The master reports success only if the slave received, since the master was
   started, every block of the very binary that the master sent. *)
EndMeansDelivered ==
    MasterIn("END") => <<MasterCtrl.Bin, pressed["master"]>> \in delivered

(* What the slave has is what the master sent, from the first block to the
   report of success, although packets are lost and repeated and either node
   may start over with another image in between. *)
ReceivedIsSent == PrefixReceived /\ EndMeansDelivered

(* The update is atomic: what boots changes in one step, to an image that was
   received whole and whose trailer is its CRC (END state, ota.c:605-659). *)
Running == ImageIn(flash[BootBank].cell)

ReceivedWhole == {d[1] : d \in delivered}

Update == INSTANCE AtomicUpdate WITH
    Sealed <- {im \in Image : Sealed[im]},
    installed <- Running,
    received <- ReceivedWhole

UpdateIsAtomic == Update!Spec

(* Every session ends, in success or in ERROR, and the node reboots: the
   retries are bounded and no state waits for ever. *)
SessionsEnd ==
    /\ ~MasterIn("APP") /\ ~MasterIn("LOW_BATT") ~> MasterIn("APP")
    /\ ~SlaveIn("APP") /\ ~SlaveIn("LOW_BATT") ~> SlaveIn("APP")

(* An update never replaces a firmware by an older one: the master compares
   the version that it received with that of its binary (ota.c:228) before it
   asks for the update to start. *)
NeverOlder == [][Version[Running'] >= Version[Running]]_vars
=============================================================================
