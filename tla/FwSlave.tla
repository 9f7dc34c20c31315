------------------------------- MODULE FwSlave ------------------------------
(***************************************************************************)
(* The UART update's slave: FW_UPDATE_SlaveInit and FW_UPDATE_SlaveStart   *)
(* of src/fw_update/fw_update.c and the main loop of                       *)
(* src/vendor/uart_fw_update_slave/main.c, over the flash of BootFlash.    *)
(* An action is one call of FW_UPDATE_SlaveStart up to the spin of         *)
(* FW_UPDATE_PHY_SendData, as in FwMaster; the flag writes of the END      *)
(* state are steps of their own, as in OtaSlave.                           *)
(***************************************************************************)
EXTENDS FwUart, BootFlash

VARIABLE SlaveCtrl

SlaveState == {"APP", "LOW_BATT", "IDLE", "FW_VERSION_READY", "START_READY", "DATA_READY",
               "END_READY", "END", "FLAG_SET", "FLAG_CLEARED", "ERROR"}

SlaveTypeOK ==
    SlaveCtrl \in
      [State : SlaveState, FlashAddr : Bank, FwVersion : Nat, MaxBlockNum : Nat, BlockNum : Nat,
       TotalBinSize : Int, RetryTimes : 0 .. FW_UPDATE_RETRY_MAX, PktCRC : Seq(CellContent)]

SlaveBoot ==
    [State |-> "APP", FlashAddr |-> 0, FwVersion |-> 0, MaxBlockNum |-> 0, BlockNum |-> 0,
     TotalBinSize |-> 0, RetryTimes |-> 0, PktCRC |-> << >>]

SlaveInit == SlaveCtrl = SlaveBoot

SlaveIn(state) == SlaveCtrl.State = state
SlaveWaits == SlaveCtrl.State \in {"FW_VERSION_READY", "START_READY", "DATA_READY", "END_READY"}

SlaveGotCmd(id) ==
    /\ GotData("slave")
    /\ RxFrame("slave").Type = FW_UPDATE_FRAME_TYPE_CMD /\ RxFrame("slave").Id = id

(* Mutant: the block number is not looked at. *)
SlaveGotAnyBlock(num) == GotData("slave") /\ RxFrame("slave").Type = FW_UPDATE_FRAME_TYPE_DATA

SlaveGotBlock(num) ==
    /\ GotData("slave")
    /\ RxFrame("slave").Type = FW_UPDATE_FRAME_TYPE_DATA /\ RxFrame("slave").Id = num

(* The messages that the present state answers. *)
SlaveAnswers ==
    \/ SlaveIn("FW_VERSION_READY") /\ SlaveGotCmd(FW_UPDATE_CMD_ID_VERSION_REQ)
    \/ SlaveIn("START_READY") /\ \/ SlaveGotCmd(FW_UPDATE_CMD_ID_VERSION_REQ)
                                 \/ SlaveGotCmd(FW_UPDATE_CMD_ID_START_REQ)
    \/ SlaveIn("DATA_READY") /\ \/ SlaveGotCmd(FW_UPDATE_CMD_ID_START_REQ)
                                \/ SlaveGotBlock(SlaveCtrl.BlockNum)
                                \/ SlaveGotBlock(SlaveCtrl.BlockNum + 1)
    \/ SlaveIn("END_READY") /\ \/ SlaveGotBlock(SlaveCtrl.BlockNum)
                               \/ SlaveGotCmd(FW_UPDATE_CMD_ID_END_REQ)
-----------------------------------------------------------------------------
(* Mutant: the bank that runs is the one that is erased. *)
SlaveInitSameBank ==
    /\ SlaveIn("APP")
    /\ FW_UPDATE_PHY_Init("slave")
    /\ SlaveCtrl' = [SlaveBoot EXCEPT !.State = "IDLE", !.FlashAddr = BootBank]
    /\ flash' = [flash EXCEPT ![BootBank] = Erase(@)]

(* The button is pressed: main() starts the PHY, picks the bank that did not
   boot, and FW_UPDATE_SlaveInit erases it. *)
FW_UPDATE_SlaveInit ==
    /\ SlaveIn("APP")
    /\ FW_UPDATE_PHY_Init("slave")
    /\ \E im \in Image :
         /\ Holds(flash[BootBank].cell, im)
         /\ SlaveCtrl' = [SlaveBoot EXCEPT !.State = "IDLE",
                                           !.FlashAddr = Other(BootBank),
                                           !.FwVersion = Version[im]]
    /\ flash' = [flash EXCEPT ![Other(BootBank)] = Erase(@)]

SlaveLowBattery ==
    /\ SlaveIn("APP")
    /\ SlaveCtrl' = [SlaveCtrl EXCEPT !.State = "LOW_BATT"]
    /\ UNCHANGED <<uartVars, flash>>

(* The message popped by this call is dropped. *)
SlaveIdle ==
    /\ Running("slave") /\ SlaveIn("IDLE")
    /\ RestartTimer("slave")
    /\ SlaveCtrl' = [SlaveCtrl EXCEPT !.State = "FW_VERSION_READY"]
    /\ UNCHANGED flash

SlaveVersionReq ==
    /\ Running("slave") /\ SlaveIn("FW_VERSION_READY")
    /\ SlaveGotCmd(FW_UPDATE_CMD_ID_VERSION_REQ)
    /\ SendAfterCancel("slave", CmdFrame(FW_UPDATE_CMD_ID_VERSION_RSP, SlaveCtrl.FwVersion))
    /\ SlaveCtrl' = [SlaveCtrl EXCEPT !.State = "START_READY", !.RetryTimes = 0]
    /\ UNCHANGED flash

(* A request is repeated: so is its answer. *)
SlaveRepeat ==
    /\ Running("slave")
    /\ \/ SlaveIn("START_READY") /\ SlaveGotCmd(FW_UPDATE_CMD_ID_VERSION_REQ)
       \/ SlaveIn("DATA_READY") /\ SlaveGotCmd(FW_UPDATE_CMD_ID_START_REQ)
       \/ SlaveCtrl.State \in {"DATA_READY", "END_READY"} /\ SlaveGotBlock(SlaveCtrl.BlockNum)
    /\ SendAfterCancel("slave", TxFrame["slave"])
    /\ SlaveCtrl' = [SlaveCtrl EXCEPT !.RetryTimes = 0]
    /\ UNCHANGED flash

SlaveStartReq ==
    /\ Running("slave") /\ SlaveIn("START_READY")
    /\ SlaveGotCmd(FW_UPDATE_CMD_ID_START_REQ)
    /\ SendAfterCancel("slave", CmdFrame(FW_UPDATE_CMD_ID_START_RSP, 0))
    /\ SlaveCtrl' = [SlaveCtrl EXCEPT !.State = "DATA_READY", !.RetryTimes = 0,
                                      !.MaxBlockNum = RxFrame("slave").Val]
    /\ UNCHANGED flash

(* Bytes of the block in RxFrame. *)
BlkLen(blk) == BlockBytes(blk.im, blk.idx)

(* flash_write_page at FlashAddr + TotalBinSize.  A write that is not aligned
   to a cell spoils it. *)
WriteBlock(bank, blk) ==
    LET at == SlaveCtrl.TotalBinSize IN
    [bank EXCEPT !.cell = [i \in 1 .. MaxBlock |->
        IF (i - 1) * BlockLen <= at /\ at < i * BlockLen
        THEN Program(@[i], IF at = (i - 1) * BlockLen THEN blk ELSE Garbage)
        ELSE @[i]]]

AckFrame(num) == [NoFrame EXCEPT !.Type = FW_UPDATE_FRAME_TYPE_ACK, !.Id = num]

(* The next block: written, summed up and acknowledged. *)
SlaveBlock ==
    LET num == SlaveCtrl.BlockNum + 1
        blk == RxFrame("slave").Data
    IN
    /\ Running("slave") /\ SlaveIn("DATA_READY") /\ SlaveGotBlock(num)
    /\ flash' = [flash EXCEPT ![SlaveCtrl.FlashAddr] = WriteBlock(@, blk)]
    /\ SlaveCtrl' = [SlaveCtrl EXCEPT
                       !.State = IF SlaveCtrl.MaxBlockNum = num THEN "END_READY" ELSE @,
                       !.RetryTimes = 0,
                       !.BlockNum = num,
                       !.TotalBinSize = @ + BlkLen(blk),
                       !.PktCRC = Append(@, blk)]
    /\ SendAfterCancel("slave", AckFrame(num))

(* The END response goes out before the image is verified. *)
SlaveEndReq ==
    /\ Running("slave") /\ SlaveIn("END_READY") /\ SlaveGotCmd(FW_UPDATE_CMD_ID_END_REQ)
    /\ IF SlaveCtrl.TotalBinSize # RxFrame("slave").Val
       THEN /\ SlaveCtrl' = [SlaveCtrl EXCEPT !.State = "ERROR", !.RetryTimes = 0]
            /\ StopTimer("slave")
       ELSE /\ SlaveCtrl' = [SlaveCtrl EXCEPT !.State = "END", !.RetryTimes = 0]
            /\ SendAfterCancel("slave", CmdFrame(FW_UPDATE_CMD_ID_END_RSP, 0))
    /\ UNCHANGED flash

(* Mutant: the timer is not started again. *)
SlaveRetryNoTimer ==
    /\ Running("slave") /\ SlaveWaits /\ GotMsg("slave") /\ ~SlaveAnswers
    /\ IF SlaveCtrl.RetryTimes = FW_UPDATE_RETRY_MAX
       THEN SlaveCtrl' = [SlaveCtrl EXCEPT !.State = "ERROR"] /\ PopOnly("slave")
       ELSE SlaveCtrl' = [SlaveCtrl EXCEPT !.RetryTimes = @ + 1] /\ StopTimer("slave")
    /\ UNCHANGED flash

(* Mutant: retries are not counted. *)
SlaveRetryForever ==
    /\ Running("slave") /\ SlaveWaits /\ GotMsg("slave") /\ ~SlaveAnswers
    /\ RestartTimer("slave")
    /\ UNCHANGED <<SlaveCtrl, flash>>

(* Anything else: the slave goes on listening. *)
SlaveRetry ==
    /\ Running("slave") /\ SlaveWaits /\ GotMsg("slave") /\ ~SlaveAnswers
    /\ IF SlaveCtrl.RetryTimes = FW_UPDATE_RETRY_MAX
       THEN SlaveCtrl' = [SlaveCtrl EXCEPT !.State = "ERROR"] /\ PopOnly("slave")
       ELSE SlaveCtrl' = [SlaveCtrl EXCEPT !.RetryTimes = @ + 1] /\ RestartTimer("slave")
    /\ UNCHANGED flash

(* After the END response, and 250 ms, no timer is started. *)
SlaveSent == Sent("slave", ~SlaveIn("END")) /\ UNCHANGED <<SlaveCtrl, flash>>
-----------------------------------------------------------------------------
Target == flash[SlaveCtrl.FlashAddr]

Written == (SlaveCtrl.TotalBinSize + BlockLen - 1) \div BlockLen

(* The blocks read back; the flag is filled into the first, but only if the
   first is not also the last. *)
FwCRC ==
    IF SlaveCtrl.TotalBinSize > BlockLen
    THEN [i \in 1 .. Written |-> Target.cell[i]]
    ELSE BadCRC

Verified ==
    /\ Written \in 1 .. MaxBlock
    /\ FwCRC = SlaveCtrl.PktCRC
    /\ TrailerCRC(Target.cell[Written]) = FwCRC

(* Mutant: the flag of the bank that runs is cleared before the other is set. *)
SlaveVerifyClearsFirst ==
    /\ Running("slave") /\ SlaveIn("END") /\ Verified
    /\ PopOnly("slave")
    /\ flash' = [flash EXCEPT ![Other(SlaveCtrl.FlashAddr)] = ClearFlag(@)]
    /\ SlaveCtrl' = [SlaveCtrl EXCEPT !.State = "FLAG_SET"]

SlaveVerify ==
    /\ Running("slave") /\ SlaveIn("END")
    /\ PopOnly("slave")
    /\ IF Verified
       THEN /\ flash' = [flash EXCEPT ![SlaveCtrl.FlashAddr] = SetFlag(@)]
            /\ SlaveCtrl' = [SlaveCtrl EXCEPT !.State = "FLAG_SET"]
       ELSE /\ SlaveCtrl' = [SlaveCtrl EXCEPT !.State = "ERROR"]
            /\ UNCHANGED flash

SlaveClearFlag ==
    /\ SlaveIn("FLAG_SET")
    /\ flash' = [flash EXCEPT ![Other(SlaveCtrl.FlashAddr)] = ClearFlag(@)]
    /\ SlaveCtrl' = [SlaveCtrl EXCEPT !.State = "FLAG_CLEARED"]
    /\ UNCHANGED uartVars

SlaveReset == SlaveCtrl' = SlaveBoot /\ UartReset("slave")

SlaveReboot ==
    /\ SlaveIn("FLAG_CLEARED")
    /\ SlaveReset
    /\ UNCHANGED flash

(* The ERROR state erases the bank written to, blinks and reboots. *)
SlaveError ==
    /\ Running("slave") /\ SlaveIn("ERROR")
    /\ flash' = [flash EXCEPT ![SlaveCtrl.FlashAddr] = Erase(@)]
    /\ SlaveReset

SlavePowerLoss ==
    /\ ~SlaveIn("APP")
    /\ SlaveReset
    /\ UNCHANGED flash

(* The power fails in FW_UPDATE_FlashErase. *)
SlavePowerLossInErase ==
    \E bank \in Bank :
        /\ \/ SlaveIn("ERROR") /\ bank = SlaveCtrl.FlashAddr
           \/ SlaveIn("APP") /\ bank = Other(BootBank)
        /\ \E torn \in TornErases(flash[bank]) : flash' = [flash EXCEPT ![bank] = torn]
        /\ SlaveReset

(* One turn of main()'s loop. *)
SlaveLoop ==
    \/ SlaveIdle
    \/ SlaveVersionReq
    \/ SlaveRepeat
    \/ SlaveStartReq
    \/ SlaveBlock
    \/ SlaveEndReq
    \/ SlaveRetry
    \/ SlaveSent
    \/ SlaveVerify
    \/ SlaveClearFlag
    \/ SlaveReboot
    \/ SlaveError
=============================================================================
