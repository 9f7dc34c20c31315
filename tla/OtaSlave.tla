------------------------------ MODULE OtaSlave ------------------------------
(***************************************************************************)
(* The OTA slave: OTA_SlaveInit and OTA_SlaveStart of src/ota/ota.c and    *)
(* the main loop of src/vendor/ota_slave/main.c.  As in OtaMaster an       *)
(* action is one call of OTA_SlaveStart, with one exception: the END state *)
(* writes flash twice, and as the power may fail between the two, each     *)
(* write is a step ("END", then "FLAG_SET", then "FLAG_CLEARED").          *)
(***************************************************************************)
EXTENDS OtaMac, BootFlash

VARIABLE SlaveCtrl

SlaveState == {"APP", "LOW_BATT", "IDLE", "FW_VERSION_READY", "START_READY", "DATA_READY",
               "END_READY", "END", "FLAG_SET", "FLAG_CLEARED", "ERROR"}

(* FlashAddr is the bank written to.  PktCRC sums the blocks as received. *)
SlaveCtrlType ==
    [State : SlaveState, FlashAddr : Bank, FwVersion : Nat, MaxBlockNum : Nat, BlockNum : Nat,
     TotalBinSize : Int, RetryTimes : 0 .. OTA_RETRY_MAX, PktCRC : Seq(CellContent)]

SlaveTypeOK == SlaveCtrl \in SlaveCtrlType

SlaveBoot ==
    [State |-> "APP", FlashAddr |-> 0, FwVersion |-> 0, MaxBlockNum |-> 0, BlockNum |-> 0,
     TotalBinSize |-> 0, RetryTimes |-> 0, PktCRC |-> << >>]

SlaveInit == SlaveCtrl = SlaveBoot

SlaveIn(state) == SlaveCtrl.State = state
SlaveWaits == SlaveCtrl.State \in {"FW_VERSION_READY", "START_READY", "DATA_READY", "END_READY"}

SlaveGotCmd(id) ==
    /\ GotData("slave")
    /\ Rx("slave").Type = OTA_FRAME_TYPE_CMD /\ Rx("slave").Id = id

SlaveGotBlock(num) ==
    /\ GotData("slave")
    /\ Rx("slave").Type = OTA_FRAME_TYPE_DATA /\ Rx("slave").Id = num

(* The messages that the present state answers. *)
SlaveAnswers ==
    \/ SlaveIn("FW_VERSION_READY") /\ SlaveGotCmd(OTA_CMD_ID_VERSION_REQ)
    \/ SlaveIn("START_READY") /\ (SlaveGotCmd(OTA_CMD_ID_VERSION_REQ) \/ SlaveGotCmd(OTA_CMD_ID_START_REQ))
    \/ SlaveIn("DATA_READY") /\ \/ SlaveGotCmd(OTA_CMD_ID_START_REQ)
                                \/ SlaveGotBlock(SlaveCtrl.BlockNum)
                                \/ SlaveGotBlock(SlaveCtrl.BlockNum + 1)
    \/ SlaveIn("END_READY") /\ (SlaveGotBlock(SlaveCtrl.BlockNum) \/ SlaveGotCmd(OTA_CMD_ID_END_REQ))

SlaveSend(frame, len) == MAC_SendData("slave", frame, len) /\ SetLen("slave", len)
-----------------------------------------------------------------------------
(* Mutant: the bank that runs is chosen. *)
SlaveInitSameBank ==
    /\ SlaveIn("APP")
    /\ SlaveCtrl' = [SlaveBoot EXCEPT !.State = "IDLE", !.FlashAddr = BootBank]
    /\ flash' = [flash EXCEPT ![BootBank] = Erase(@)]
    /\ UNCHANGED macVars

(* The button is pressed while image im runs: main() picks the bank that did
   not boot, OTA_SlaveInit sets SlaveCtrl and erases that bank. *)
OTA_SlaveInit ==
    /\ SlaveIn("APP")
    /\ \E im \in Image :
         /\ Holds(flash[BootBank].cell, im)
         /\ SlaveCtrl' = [SlaveBoot EXCEPT !.State = "IDLE",
                                           !.FlashAddr = Other(BootBank),
                                           !.FwVersion = Version[im]]
    /\ flash' = [flash EXCEPT ![Other(BootBank)] = Erase(@)]
    /\ UNCHANGED macVars

SlaveLowBattery ==
    /\ SlaveIn("APP")
    /\ SlaveCtrl' = [SlaveCtrl EXCEPT !.State = "LOW_BATT"]
    /\ UNCHANGED <<macVars, flash>>

SlaveIdle ==
    /\ SlaveIn("IDLE")
    /\ Drop("slave")
    /\ MAC_RecvData("slave")
    /\ SlaveCtrl' = [SlaveCtrl EXCEPT !.State = "FW_VERSION_READY"]
    /\ UNCHANGED <<FrameLen, held, flash>>

SlaveVersionReq ==
    /\ SlaveIn("FW_VERSION_READY") /\ SlaveGotCmd(OTA_CMD_ID_VERSION_REQ)
    /\ Pop("slave")
    /\ SlaveSend(CmdFrameWith("slave", OTA_CMD_ID_VERSION_RSP, SlaveCtrl.FwVersion), CmdLen(2))
    /\ SlaveCtrl' = [SlaveCtrl EXCEPT !.State = "START_READY", !.RetryTimes = 0]
    /\ UNCHANGED <<held, flash>>

(* The request before is repeated: TxFrame is sent again, but with the length
   of the request just received. *)
SlaveRepeat ==
    /\ \/ SlaveIn("START_READY") /\ SlaveGotCmd(OTA_CMD_ID_VERSION_REQ)
       \/ SlaveIn("DATA_READY") /\ SlaveGotCmd(OTA_CMD_ID_START_REQ)
       \/ SlaveCtrl.State \in {"DATA_READY", "END_READY"} /\ SlaveGotBlock(SlaveCtrl.BlockNum)
    /\ Pop("slave")
    /\ SlaveSend(TxFrame["slave"], RxLen("slave"))
    /\ SlaveCtrl' = [SlaveCtrl EXCEPT !.RetryTimes = 0]
    /\ UNCHANGED <<held, flash>>

SlaveStartReq ==
    /\ SlaveIn("START_READY") /\ SlaveGotCmd(OTA_CMD_ID_START_REQ)
    /\ Pop("slave")
    /\ SlaveSend(CmdFrame("slave", OTA_CMD_ID_START_RSP), CmdLen(0))
    /\ SlaveCtrl' = [SlaveCtrl EXCEPT !.State = "DATA_READY", !.RetryTimes = 0,
                                      !.MaxBlockNum = Rx("slave").Val]
    /\ UNCHANGED <<held, flash>>

(* What Len-3 bytes of the block in RxFrame amount to: the block, if that is
   all of it. *)
Payload ==
    LET blk == Rx("slave").Data IN
    IF blk \in BlockOf /\ RxLen("slave") - 3 = BlockBytes(blk.im, blk.idx)
    THEN blk ELSE Garbage

(* flash_write_page at FlashAddr + TotalBinSize; block 1 goes in but for the
   flag bytes 8 to 11.  A write that is not aligned to a cell spoils it. *)
WriteBlock(bank) ==
    LET at == SlaveCtrl.TotalBinSize IN
    [bank EXCEPT !.cell = [i \in 1 .. MaxBlock |->
        IF (i - 1) * BlockLen <= at /\ at < i * BlockLen
        THEN Program(@[i], IF at = (i - 1) * BlockLen THEN Payload ELSE Garbage)
        ELSE @[i]]]

AckFrame(num) == [Type |-> OTA_FRAME_TYPE_ACK, Id |-> num, Val |-> 0, Data |-> NoData]

(* The next block: written, summed up and acknowledged.  The acknowledgement
   has its own Length; Len keeps that of the DATA frame. *)
SlaveBlock ==
    LET num == SlaveCtrl.BlockNum + 1 IN
    /\ SlaveIn("DATA_READY") /\ SlaveGotBlock(num)
    /\ Pop("slave")
    /\ flash' = [flash EXCEPT ![SlaveCtrl.FlashAddr] = WriteBlock(@)]
    /\ SlaveCtrl' = [SlaveCtrl EXCEPT
                       !.State = IF SlaveCtrl.MaxBlockNum = num THEN "END_READY" ELSE @,
                       !.RetryTimes = 0,
                       !.BlockNum = num,
                       !.TotalBinSize = @ + RxLen("slave") - 3,
                       !.PktCRC = Append(@, Payload)]
    /\ MAC_SendData("slave", AckFrame(num), 3)
    /\ SetLen("slave", RxLen("slave"))
    /\ UNCHANGED held

(* The END response goes out before the image is verified. *)
SlaveEndReq ==
    /\ SlaveIn("END_READY") /\ SlaveGotCmd(OTA_CMD_ID_END_REQ)
    /\ Pop("slave")
    /\ IF SlaveCtrl.TotalBinSize # Rx("slave").Val
       THEN /\ SlaveCtrl' = [SlaveCtrl EXCEPT !.State = "ERROR", !.RetryTimes = 0]
            /\ NoSend /\ SetLen("slave", RxLen("slave"))
       ELSE /\ SlaveCtrl' = [SlaveCtrl EXCEPT !.State = "END", !.RetryTimes = 0]
            /\ SlaveSend(CmdFrame("slave", OTA_CMD_ID_END_RSP), CmdLen(0))
    /\ UNCHANGED <<held, flash>>

(* Mutant: the retries are counted, but their number is not limited. *)
SlaveRetryUnlimited ==
    /\ SlaveWaits /\ GotMsg("slave") /\ ~SlaveAnswers
    /\ Pop("slave") /\ SetLen("slave", RxLen("slave"))
    /\ SlaveCtrl' = [SlaveCtrl EXCEPT !.RetryTimes = @ + 1]
    /\ MAC_RecvData("slave")
    /\ UNCHANGED <<held, flash>>

SlaveRetry ==
    /\ SlaveWaits /\ GotMsg("slave") /\ ~SlaveAnswers
    /\ Pop("slave") /\ SetLen("slave", RxLen("slave"))
    /\ IF SlaveCtrl.RetryTimes = OTA_RETRY_MAX
       THEN SlaveCtrl' = [SlaveCtrl EXCEPT !.State = "ERROR"] /\ NoSend
       ELSE /\ SlaveCtrl' = [SlaveCtrl EXCEPT !.RetryTimes = @ + 1]
            /\ MAC_RecvData("slave")
    /\ UNCHANGED <<held, flash>>
-----------------------------------------------------------------------------
Target == flash[SlaveCtrl.FlashAddr]

(* FwCRC: the blocks read back, the flag filled into the first, but only if
   the first is not also the last. *)
Written == (SlaveCtrl.TotalBinSize + BlockLen - 1) \div BlockLen

FwCRC ==
    IF SlaveCtrl.TotalBinSize > BlockLen
    THEN [i \in 1 .. Written |-> Target.cell[i]]
    ELSE BadCRC

(* Mutant: the trailer of the image is not compared. *)
VerifiedNoTrailer == Written \in 1 .. MaxBlock /\ FwCRC = SlaveCtrl.PktCRC

Verified ==
    /\ Written \in 1 .. MaxBlock
    /\ FwCRC = SlaveCtrl.PktCRC
    /\ TrailerCRC(Target.cell[Written]) = FwCRC

(* Mutant: the flag of the bank that runs is cleared before the other is set. *)
SlaveVerifyClearsFirst ==
    /\ SlaveIn("END") /\ radio["slave"] # "tx" /\ Verified
    /\ Drop("slave")
    /\ flash' = [flash EXCEPT ![Other(SlaveCtrl.FlashAddr)] = ClearFlag(@)]
    /\ SlaveCtrl' = [SlaveCtrl EXCEPT !.State = "FLAG_SET"]
    /\ NoSend
    /\ UNCHANGED <<FrameLen, held>>

(* After MAC_SendData the slave waits 5 ms for the END response to be out. *)
SlaveVerify ==
    /\ SlaveIn("END") /\ radio["slave"] # "tx"
    /\ Drop("slave")
    /\ IF Verified
       THEN /\ flash' = [flash EXCEPT ![SlaveCtrl.FlashAddr] = SetFlag(@)]
            /\ SlaveCtrl' = [SlaveCtrl EXCEPT !.State = "FLAG_SET"]
       ELSE /\ SlaveCtrl' = [SlaveCtrl EXCEPT !.State = "ERROR"]
            /\ UNCHANGED flash
    /\ NoSend
    /\ UNCHANGED <<FrameLen, held>>

SlaveClearFlag ==
    /\ SlaveIn("FLAG_SET")
    /\ flash' = [flash EXCEPT ![Other(SlaveCtrl.FlashAddr)] = ClearFlag(@)]
    /\ SlaveCtrl' = [SlaveCtrl EXCEPT !.State = "FLAG_CLEARED"]
    /\ UNCHANGED macVars

SlaveReset == SlaveCtrl' = SlaveBoot /\ MacReset("slave")

SlaveReboot ==
    /\ SlaveIn("FLAG_CLEARED")
    /\ SlaveReset
    /\ UNCHANGED flash

(* The ERROR state erases the bank written to, blinks and reboots. *)
SlaveError ==
    /\ SlaveIn("ERROR")
    /\ flash' = [flash EXCEPT ![SlaveCtrl.FlashAddr] = Erase(@)]
    /\ SlaveReset

SlavePowerLoss ==
    /\ ~SlaveIn("APP")
    /\ SlaveReset
    /\ UNCHANGED flash

(* The power fails while OTA_FlashErase is at work, in the ERROR state or in
   OTA_SlaveInit. *)
SlavePowerLossInErase ==
    \E bank \in Bank :
        /\ \/ SlaveIn("ERROR") /\ bank = SlaveCtrl.FlashAddr
           \/ SlaveIn("APP") /\ bank = Other(BootBank)
        /\ \E torn \in TornErases(flash[bank]) : flash' = [flash EXCEPT ![bank] = torn]
        /\ SlaveReset

(* The calls of OTA_SlaveStart in main()'s loop. *)
OTA_SlaveStart ==
    \/ SlaveIdle
    \/ SlaveVersionReq
    \/ SlaveRepeat
    \/ SlaveStartReq
    \/ SlaveBlock
    \/ SlaveEndReq
    \/ SlaveRetry
    \/ SlaveVerify
    \/ SlaveClearFlag
    \/ SlaveReboot
    \/ SlaveError
=============================================================================
