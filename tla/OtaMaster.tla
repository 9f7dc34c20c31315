----------------------------- MODULE OtaMaster ------------------------------
(***************************************************************************)
(* The OTA master: OTA_MasterInit and OTA_MasterStart of src/ota/ota.c and *)
(* the main loop of src/vendor/ota_master/main.c.  Each action is one call *)
(* of OTA_MasterStart that changes something; a call that finds no message *)
(* while it waits for one returns at once and is a stuttering step.        *)
(*                                                                         *)
(* State "APP" is the loop of main() before the button is pressed;         *)
(* "LOW_BATT" its endless loop when the battery check fails.               *)
(***************************************************************************)
EXTENDS OtaMac

VARIABLE MasterCtrl

MasterState == {"APP", "LOW_BATT", "IDLE", "FW_VER_WAIT", "START_RSP_WAIT",
                "DATA_ACK_WAIT", "END_RSP_WAIT", "END", "ERROR"}

(* Bin stands for FlashAddr, MaxBlockNum, TotalBinSize and FwVersion, which
   are read off the binary that is in the master's flash. *)
MasterTypeOK ==
    MasterCtrl \in [State : MasterState, Bin : MasterImage, BlockNum : Nat,
                    RetryTimes : 0 .. OTA_RETRY_MAX, FinishFlag : BOOLEAN]

MasterBoot(bin) ==
    [State |-> "APP", Bin |-> bin, BlockNum |-> 0, RetryTimes |-> 0, FinishFlag |-> FALSE]

MasterInit == \E bin \in MasterImage : MasterCtrl = MasterBoot(bin)

MasterIn(state) == MasterCtrl.State = state
MasterWaits == MasterCtrl.State \in {"FW_VER_WAIT", "START_RSP_WAIT", "DATA_ACK_WAIT", "END_RSP_WAIT"}

IsCmd(frame, id) == frame.Type = OTA_FRAME_TYPE_CMD /\ frame.Id = id

(* The answer that the present state waits for. *)
MasterExpects(frame) ==
    \/ MasterIn("FW_VER_WAIT") /\ IsCmd(frame, OTA_CMD_ID_VERSION_RSP)
    \/ MasterIn("START_RSP_WAIT") /\ IsCmd(frame, OTA_CMD_ID_START_RSP)
    \/ MasterIn("DATA_ACK_WAIT") /\ frame.Type = OTA_FRAME_TYPE_ACK
                                 /\ frame.Id = MasterCtrl.BlockNum
    \/ MasterIn("END_RSP_WAIT") /\ IsCmd(frame, OTA_CMD_ID_END_RSP)

MasterAnswered == GotData("master") /\ MasterExpects(Rx("master"))

MasterSend(frame, len) == MAC_SendData("master", frame, len) /\ SetLen("master", len)
-----------------------------------------------------------------------------
(* The button is pressed: OTA_MasterInit, on the binary then in flash. *)
OTA_MasterInit ==
    /\ MasterIn("APP")
    /\ MasterCtrl' = [MasterCtrl EXCEPT !.State = "IDLE"]
    /\ UNCHANGED macVars

MasterLowBattery ==
    /\ MasterIn("APP")
    /\ MasterCtrl' = [MasterCtrl EXCEPT !.State = "LOW_BATT"]
    /\ UNCHANGED macVars

MasterIdle ==
    /\ MasterIn("IDLE")
    /\ Drop("master")
    /\ MasterSend(CmdFrame("master", OTA_CMD_ID_VERSION_REQ), CmdLen(0))
    /\ MasterCtrl' = [MasterCtrl EXCEPT !.State = "FW_VER_WAIT"]
    /\ UNCHANGED held

MasterVersionRsp ==
    /\ MasterIn("FW_VER_WAIT") /\ MasterAnswered
    /\ Pop("master")
    /\ IF Rx("master").Val < Version[MasterCtrl.Bin]
       THEN /\ MasterSend(CmdFrameWith("master", OTA_CMD_ID_START_REQ, MaxBlockNum(MasterCtrl.Bin)),
                          CmdLen(2))
            /\ MasterCtrl' = [MasterCtrl EXCEPT !.State = "START_RSP_WAIT", !.RetryTimes = 0]
       ELSE /\ NoSend /\ SetLen("master", RxLen("master"))
            /\ MasterCtrl' = [MasterCtrl EXCEPT !.State = "ERROR", !.RetryTimes = 0]
    /\ UNCHANGED held

(* OTA_BuildDataFrame: the next block of the binary. *)
DataFrame ==
    LET num == MasterCtrl.BlockNum + 1 IN
    [Type |-> OTA_FRAME_TYPE_DATA, Id |-> num, Val |-> 0, Data |-> Block(MasterCtrl.Bin, num)]

DataLen == 3 + BlockBytes(MasterCtrl.Bin, MasterCtrl.BlockNum + 1)

MasterSendBlock ==
    /\ MasterSend(DataFrame, DataLen)
    /\ MasterCtrl' = [MasterCtrl EXCEPT
                        !.State = "DATA_ACK_WAIT",
                        !.RetryTimes = 0,
                        !.BlockNum = @ + 1,
                        !.FinishFlag = @ \/ MasterCtrl.BlockNum + 1 >= MaxBlockNum(MasterCtrl.Bin)]

MasterStartRsp ==
    /\ MasterIn("START_RSP_WAIT") /\ MasterAnswered
    /\ Pop("master")
    /\ MasterSendBlock
    /\ UNCHANGED held

MasterDataAck ==
    /\ MasterIn("DATA_ACK_WAIT") /\ MasterAnswered /\ ~MasterCtrl.FinishFlag
    /\ Pop("master")
    /\ MasterSendBlock
    /\ UNCHANGED held

(* Mutant: the last acknowledgement is taken for the end of the session. *)
MasterLastAckEnds ==
    /\ MasterIn("DATA_ACK_WAIT") /\ MasterAnswered /\ MasterCtrl.FinishFlag
    /\ Pop("master") /\ NoSend /\ SetLen("master", RxLen("master"))
    /\ MasterCtrl' = [MasterCtrl EXCEPT !.State = "END", !.RetryTimes = 0]
    /\ UNCHANGED held

MasterLastAck ==
    /\ MasterIn("DATA_ACK_WAIT") /\ MasterAnswered /\ MasterCtrl.FinishFlag
    /\ Pop("master")
    /\ MasterSend(CmdFrameWith("master", OTA_CMD_ID_END_REQ, Size[MasterCtrl.Bin]), CmdLen(4))
    /\ MasterCtrl' = [MasterCtrl EXCEPT !.State = "END_RSP_WAIT", !.RetryTimes = 0]
    /\ UNCHANGED held

MasterEndRsp ==
    /\ MasterIn("END_RSP_WAIT") /\ MasterAnswered
    /\ Pop("master") /\ NoSend /\ SetLen("master", RxLen("master"))
    /\ MasterCtrl' = [MasterCtrl EXCEPT !.State = "END", !.RetryTimes = 0]
    /\ UNCHANGED held

(* Mutant: a retry builds the next DATA frame. *)
MasterRetryNext ==
    /\ MasterWaits /\ GotMsg("master") /\ ~MasterAnswered
    /\ Pop("master")
    /\ IF MasterCtrl.RetryTimes = OTA_RETRY_MAX \/ ~MasterIn("DATA_ACK_WAIT")
       THEN MasterCtrl' = [MasterCtrl EXCEPT !.State = "ERROR"] /\ NoSend /\ UNCHANGED FrameLen
       ELSE MasterSendBlock
    /\ UNCHANGED held

(* Mutant: retries are not counted. *)
MasterRetryForever ==
    /\ MasterWaits /\ GotMsg("master") /\ ~MasterAnswered
    /\ Pop("master") /\ SetLen("master", RxLen("master"))
    /\ MAC_SendData("master", TxFrame["master"], RxLen("master"))
    /\ UNCHANGED <<MasterCtrl, held>>

(* Anything else, a timeout too: TxFrame is sent again, with the length that
   Len has now. *)
MasterRetry ==
    /\ MasterWaits /\ GotMsg("master") /\ ~MasterAnswered
    /\ Pop("master") /\ SetLen("master", RxLen("master"))
    /\ IF MasterCtrl.RetryTimes = OTA_RETRY_MAX
       THEN MasterCtrl' = [MasterCtrl EXCEPT !.State = "ERROR"] /\ NoSend
       ELSE /\ MasterCtrl' = [MasterCtrl EXCEPT !.RetryTimes = @ + 1]
            /\ MAC_SendData("master", TxFrame["master"], RxLen("master"))
    /\ UNCHANGED held

(* The END and ERROR states blink and reboot.  The next session may be about
   another binary, as may one after a power failure. *)
MasterReset ==
    /\ \E bin \in MasterImage : MasterCtrl' = MasterBoot(bin)
    /\ MacReset("master")

MasterReboot == MasterCtrl.State \in {"END", "ERROR"} /\ MasterReset

MasterPowerLoss == ~MasterIn("APP") /\ MasterReset

(* The calls of OTA_MasterStart in main()'s loop. *)
OTA_MasterStart ==
    \/ MasterIdle
    \/ MasterVersionRsp
    \/ MasterStartRsp
    \/ MasterDataAck
    \/ MasterLastAck
    \/ MasterEndRsp
    \/ MasterRetry
    \/ MasterReboot
=============================================================================
