------------------------------ MODULE FwMaster ------------------------------
(***************************************************************************)
(* The UART update's master: FW_UPDATE_MasterInit and                      *)
(* FW_UPDATE_MasterStart of src/fw_update/fw_update.c and the main loop of *)
(* src/vendor/uart_fw_update_master/main.c.  An action is one call of      *)
(* FW_UPDATE_MasterStart, up to the spin of FW_UPDATE_PHY_SendData if it   *)
(* sends; MasterSent is the rest of that call.  "APP" is main()'s loop     *)
(* before the button is pressed.                                           *)
(***************************************************************************)
EXTENDS FwUart

VARIABLE MasterCtrl

MasterState == {"APP", "LOW_BATT", "IDLE", "FW_VER_WAIT", "START_RSP_WAIT",
                "DATA_ACK_WAIT", "END_RSP_WAIT", "END", "ERROR"}

(* Bin stands for FlashAddr, MaxBlockNum, TotalBinSize and FwVersion. *)
MasterTypeOK ==
    MasterCtrl \in [State : MasterState, Bin : MasterImage, BlockNum : Nat,
                    RetryTimes : 0 .. FW_UPDATE_RETRY_MAX, FinishFlag : BOOLEAN]

MasterBoot(bin) ==
    [State |-> "APP", Bin |-> bin, BlockNum |-> 0, RetryTimes |-> 0, FinishFlag |-> FALSE]

MasterInit == \E bin \in MasterImage : MasterCtrl = MasterBoot(bin)

MasterIn(state) == MasterCtrl.State = state
MasterWaits == MasterCtrl.State \in {"FW_VER_WAIT", "START_RSP_WAIT", "DATA_ACK_WAIT", "END_RSP_WAIT"}

IsCmd(frame, id) == frame.Type = FW_UPDATE_FRAME_TYPE_CMD /\ frame.Id = id

(* FW_UPDATE_IsBlockNumMatch for acknowledgements; the response awaited. *)
MasterExpects(frame) ==
    \/ MasterIn("FW_VER_WAIT") /\ IsCmd(frame, FW_UPDATE_CMD_ID_VERSION_RSP)
    \/ MasterIn("START_RSP_WAIT") /\ IsCmd(frame, FW_UPDATE_CMD_ID_START_RSP)
    \/ MasterIn("DATA_ACK_WAIT") /\ frame.Type = FW_UPDATE_FRAME_TYPE_ACK
                                 /\ frame.Id = MasterCtrl.BlockNum
    \/ MasterIn("END_RSP_WAIT") /\ IsCmd(frame, FW_UPDATE_CMD_ID_END_RSP)

MasterAnswered == GotData("master") /\ MasterExpects(RxFrame("master"))
-----------------------------------------------------------------------------
FW_UPDATE_MasterInit ==
    /\ MasterIn("APP")
    /\ MasterCtrl' = [MasterCtrl EXCEPT !.State = "IDLE"]
    /\ FW_UPDATE_PHY_Init("master")

MasterLowBattery ==
    /\ MasterIn("APP")
    /\ MasterCtrl' = [MasterCtrl EXCEPT !.State = "LOW_BATT"]
    /\ UNCHANGED uartVars

MasterIdle ==
    /\ Running("master") /\ MasterIn("IDLE")
    /\ Send("master", CmdFrame(FW_UPDATE_CMD_ID_VERSION_REQ, 0))
    /\ UNCHANGED <<rspWaitTimer, timer_list>>
    /\ MasterCtrl' = [MasterCtrl EXCEPT !.State = "FW_VER_WAIT"]

MasterVersionRsp ==
    /\ Running("master") /\ MasterIn("FW_VER_WAIT") /\ MasterAnswered
    /\ IF RxFrame("master").Val < Version[MasterCtrl.Bin]
       THEN /\ SendAfterCancel("master",
                   CmdFrame(FW_UPDATE_CMD_ID_START_REQ, MaxBlockNum(MasterCtrl.Bin)))
            /\ MasterCtrl' = [MasterCtrl EXCEPT !.State = "START_RSP_WAIT", !.RetryTimes = 0]
       ELSE /\ StopTimer("master")
            /\ MasterCtrl' = [MasterCtrl EXCEPT !.State = "ERROR", !.RetryTimes = 0]

(* FW_UPDATE_BuildDataFrame: the next block of the binary. *)
DataFrame ==
    LET num == MasterCtrl.BlockNum + 1 IN
    [NoFrame EXCEPT !.Type = FW_UPDATE_FRAME_TYPE_DATA, !.Id = num,
                    !.Data = Block(MasterCtrl.Bin, num)]

MasterSendBlock ==
    /\ SendAfterCancel("master", DataFrame)
    /\ MasterCtrl' = [MasterCtrl EXCEPT
                        !.State = "DATA_ACK_WAIT",
                        !.RetryTimes = 0,
                        !.BlockNum = @ + 1,
                        !.FinishFlag = @ \/ MasterCtrl.BlockNum + 1 >= MaxBlockNum(MasterCtrl.Bin)]

MasterStartRsp ==
    /\ Running("master") /\ MasterIn("START_RSP_WAIT") /\ MasterAnswered
    /\ MasterSendBlock

MasterDataAck ==
    /\ Running("master") /\ MasterIn("DATA_ACK_WAIT") /\ MasterAnswered
    /\ ~MasterCtrl.FinishFlag
    /\ MasterSendBlock

MasterLastAck ==
    /\ Running("master") /\ MasterIn("DATA_ACK_WAIT") /\ MasterAnswered
    /\ MasterCtrl.FinishFlag
    /\ SendAfterCancel("master", CmdFrame(FW_UPDATE_CMD_ID_END_REQ, Size[MasterCtrl.Bin]))
    /\ MasterCtrl' = [MasterCtrl EXCEPT !.State = "END_RSP_WAIT", !.RetryTimes = 0]

MasterEndRsp ==
    /\ Running("master") /\ MasterIn("END_RSP_WAIT") /\ MasterAnswered
    /\ StopTimer("master")
    /\ MasterCtrl' = [MasterCtrl EXCEPT !.State = "END", !.RetryTimes = 0]

(* Mutant: after an answer that was not expected, the next block is sent. *)
MasterRetryNext ==
    /\ Running("master") /\ MasterIn("DATA_ACK_WAIT") /\ GotMsg("master") /\ ~MasterAnswered
    /\ MasterSendBlock

(* Anything else, a timeout or a late duplicate too: TxFrame is sent again. *)
MasterRetry ==
    /\ Running("master") /\ MasterWaits /\ GotMsg("master") /\ ~MasterAnswered
    /\ IF MasterCtrl.RetryTimes = FW_UPDATE_RETRY_MAX
       THEN /\ MasterCtrl' = [MasterCtrl EXCEPT !.State = "ERROR"]
            /\ PopOnly("master")
       ELSE /\ MasterCtrl' = [MasterCtrl EXCEPT !.RetryTimes = @ + 1]
            /\ SendAgain("master")

MasterSent == Sent("master", TRUE) /\ UNCHANGED MasterCtrl

MasterReset ==
    /\ \E bin \in MasterImage : MasterCtrl' = MasterBoot(bin)
    /\ UartReset("master")

(* The END and ERROR states blink and go to deep sleep. *)
MasterSleep == MasterCtrl.State \in {"END", "ERROR"} /\ MasterReset

MasterPowerLoss == ~MasterIn("APP") /\ MasterReset

(* One turn of main()'s loop. *)
MasterLoop ==
    \/ MasterIdle
    \/ MasterVersionRsp
    \/ MasterStartRsp
    \/ MasterDataAck
    \/ MasterLastAck
    \/ MasterEndRsp
    \/ MasterRetry
    \/ MasterSent
    \/ MasterSleep
=============================================================================
