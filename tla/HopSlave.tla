------------------------------ MODULE HopSlave ------------------------------
(***************************************************************************)
(* The slave of the frequency hopping link: app_sync_task,                 *)
(* app_low_energy_task and proc_user_task of                               *)
(* src/vendor/freq_hopping_le_slave/main.c.                                *)
(***************************************************************************)
EXTENDS HopAir

VARIABLES
    rxTimed,        \* the reception under way was started with a timeout
    sync_first_tx,
    ac,             \* the sync word of the connection
    afh_mode,
    need_clsf_flag,
    qlty,
    received,       \* LL_FLOW_RCVD of the packet that is being answered
    reportLost,     \* auto flush has overtaken a report of a bad channel
    lag             \* by how many indices the master was ahead of the slave when
                    \* the slave heard its first packet; -1 before

slaveVars == <<rxTimed, sync_first_tx, ac, afh_mode, need_clsf_flag, qlty,
               received, reportLost, lag>>

SlaveInit ==
    /\ rxTimed = TRUE
    /\ sync_first_tx = 0
    /\ ac = "sync"
    /\ afh_mode = 0
    /\ need_clsf_flag = 0
    /\ qlty = [c \in Channel |-> 0]
    /\ received = FALSE
    /\ reportLost = FALSE
    /\ lag = -1

SlaveTypeOK ==
    /\ rxTimed \in BOOLEAN
    /\ sync_first_tx \in {0, 1}
    /\ ac \in Word
    /\ afh_mode \in Nat
    /\ need_clsf_flag \in {0, 1}
    /\ qlty \in [Channel -> AFH_BAD_CHNL_QLTY_THRES .. AFH_GOOD_CHNL_QLTY_THRES]
    /\ received \in BOOLEAN
    /\ reportLost \in BOOLEAN
    /\ lag \in Channel \cup {-1}

SlaveSees(flag, connected) ==
    /\ event["slave"] = flag
    /\ sync_flg["slave"] = connected

SlaveSends ==
    /\ radio' = [radio EXCEPT !["slave"] = "tx"]
    /\ event' = [event EXCEPT !["slave"] = "none"]

(* gen_fsk_srx_start, with a timeout or with 0, which means none. *)
SlaveListens(timed) ==
    /\ radio' = [radio EXCEPT !["slave"] = "rx"]
    /\ event' = [event EXCEPT !["slave"] = "none"]
    /\ rxTimed' = timed

SlaveNextBroadcast ==
    broadcast_chnn_idx' = [broadcast_chnn_idx EXCEPT !["slave"] = (@ + 1) % NB_BROADCAST]

SlaveHop == chnn_idx' = [chnn_idx EXCEPT !["slave"] = NextIdx("slave")]
-----------------------------------------------------------------------------
SlaveSyncReq ==
    /\ SlaveSees("rx", 0)
    /\ rx_payload["slave"].cmd = LL_SYNC_REQ
    /\ tx_buffer' = [tx_buffer EXCEPT !["slave"].cmd = LL_SYNC_RSP]
    /\ SlaveSends
    /\ RxDone("slave")
    /\ UNCHANGED <<broadcast_chnn_idx, chnn_idx, format, rx_crc_err_flag, misled, connVars, flowVars, slaveVars>>

(* The rest of that branch, after WaitUs(500). *)
SlaveSyncRspSent ==
    /\ SlaveSees("tx_done", 0)
    /\ format' = [format EXCEPT !["slave"] = "APP"]
    /\ tx_buffer' = [tx_buffer EXCEPT !["slave"].len = "APP"]
    /\ SlaveNextBroadcast
    /\ SlaveListens(FALSE)
    /\ UNCHANGED <<chnn_idx, rxVars, connVars, flowVars, sync_first_tx, ac, afh_mode,
                   need_clsf_flag, qlty, received, reportLost, lag>>

SlaveConnReq ==
    /\ SlaveSees("rx", 0)
    /\ rx_payload["slave"].cmd = LL_CONN_REQ
    /\ tx_buffer' = [tx_buffer EXCEPT !["slave"].cmd = LL_CONN_RSP]
    /\ sync_first_tx' = 1
    /\ sync_flg' = [sync_flg EXCEPT !["slave"] = 1]
    /\ SlaveSends
    /\ UNCHANGED <<broadcast_chnn_idx, chnn_idx, format, rxVars, chnl_map, chnl_tbl, flowVars,
                   rxTimed, ac, afh_mode, need_clsf_flag, qlty, received, reportLost, lag>>

(* Any other opcode: the flag is cleared and the radio not started again. *)
SlaveSyncIgnores ==
    /\ SlaveSees("rx", 0)
    /\ rx_payload["slave"].cmd \notin {LL_SYNC_REQ, LL_CONN_REQ}
    /\ event' = [event EXCEPT !["slave"] = "none"]
    /\ RxDone("slave")
    /\ UNCHANGED <<radio, broadcast_chnn_idx, chnn_idx, format, rx_crc_err_flag, misled, connVars, flowVars,
                   tx_buffer, slaveVars>>

SlaveSyncTimeout ==
    /\ SlaveSees("timeout", 0)
    /\ SlaveNextBroadcast
    /\ SlaveListens(TRUE)
    /\ UNCHANGED <<chnn_idx, format, rxVars, connVars, flowVars, tx_buffer, sync_first_tx, ac,
                   afh_mode, need_clsf_flag, qlty, received, reportLost, lag>>
-----------------------------------------------------------------------------
(* Mutant: it waits with a timeout and, if that expires, is not connected. *)
SlaveNotConnected ==
    /\ SlaveSees("tx_done", 1)
    /\ sync_first_tx = 1
    /\ sync_first_tx' = 0
    /\ SlaveListens(TRUE)
    /\ UNCHANGED <<broadcast_chnn_idx, chnn_idx, format, rxVars, connVars, flowVars, tx_buffer,
                   ac, afh_mode, need_clsf_flag, qlty, received, reportLost, lag>>

(* LL_CONN_RSP is out: the slave waits on the first data channel, without a
   timeout.  tx_buffer[6], the command of a data packet, is still 0.
   chn_table_calc never returns for a map without channels. *)
SlaveFirstTxDone ==
    /\ SlaveSees("tx_done", 1)
    /\ sync_first_tx = 1
    /\ IF rx_payload["slave"].chm = {}
       THEN /\ event' = [event EXCEPT !["slave"] = "none"]
            /\ UNCHANGED <<radio, rxTimed, sync_first_tx, ac, snnesn, chnl_map, chnl_tbl, chnn_idx, tx_buffer>>
       ELSE /\ sync_first_tx' = 0
            /\ snnesn' = [snnesn EXCEPT !["slave"] = [SN |-> 1, NESN |-> 0]]
            /\ ac' = rx_payload["slave"].ac
            /\ chnl_map' = [chnl_map EXCEPT !["slave"] = rx_payload["slave"].chm]
            /\ chnl_tbl' = [chnl_tbl EXCEPT !["slave"] = chn_table_calc(rx_payload["slave"].chm, AFH_HOP)]
            /\ chnn_idx' = [chnn_idx EXCEPT !["slave"] = 0]
            /\ tx_buffer' = [tx_buffer EXCEPT !["slave"].cmd = LL_CMD_START]
            /\ SlaveListens(FALSE)
    /\ RxDone("slave")
    /\ UNCHANGED <<broadcast_chnn_idx, format, rx_crc_err_flag, misled, sync_flg, con_tx_cnt, taken,
                   flushed, afh_mode, need_clsf_flag, qlty, received, reportLost, lag>>

(* proc_rx_data_1: the answer to the command received, which is not looked at
   for whether it is new or its CRC is right. *)
Accepts(cmd) ==
    [NoPacket EXCEPT !.cmd = LL_ACCEPTED, !.data = cmd, !.len = "APP"]

Request == {LL_CHG_CHNL_MAP_REQ, LL_CHNL_CLASSIFICATION_REQ}

Indicates(cmd) ==
    /\ cmd \notin Request \cup {LL_ACCEPTED}
    /\ need_clsf_flag = 1
    /\ afh_mode = AFH_MODE_ENABLE

Answer(cmd) ==
    CASE cmd \in Request -> Accepts(cmd)
      [] cmd = LL_ACCEPTED -> tx_buffer["slave"]
      [] Indicates(cmd) -> [NoPacket EXCEPT !.cmd = LL_CHNL_CLASSIFICATION_IND,
                                            !.chm = chnl_map["slave"], !.len = "APP"]
      [] OTHER -> DataPacket

Reports(pkt) == pkt.cmd = LL_CHNL_CLASSIFICATION_IND

Answers == LetsGo("slave") /\ rx_payload["slave"].cmd # LL_ACCEPTED

SlaveRx ==
    /\ SlaveSees("rx", 1)
    /\ LET cmd == rx_payload["slave"].cmd IN
       /\ RunFlow("slave", Answers)
       /\ tx_buffer' = [tx_buffer EXCEPT !["slave"] =
            WithBits(IF LetsGo("slave") THEN Answer(cmd) ELSE @, Flow("slave"))]
       /\ need_clsf_flag' = IF LetsGo("slave") /\ Indicates(cmd) THEN 0 ELSE need_clsf_flag
       /\ reportLost' = (reportLost \/ (~Flow("slave").SENT /\ LetsGo("slave")
            /\ (Indicates(cmd) \/ Reports(tx_buffer["slave"]))))
    /\ received' = Flow("slave").RCVD
    /\ UNCHANGED rx_payload
    /\ lag' = IF lag = -1
              THEN (chnn_idx["master"] - chnn_idx["slave"]) % TOTAL_NB_CHNNEL ELSE lag
    /\ SlaveSends
    /\ UNCHANGED <<broadcast_chnn_idx, chnn_idx, format, connVars, rxTimed, sync_first_tx, ac,
                   afh_mode, qlty>>

(* The answer is out: proc_rx_data_2 acts on the packet received, then the
   slave sleeps until the next one. *)
SlaveTxDone ==
    /\ SlaveSees("tx_done", 1)
    /\ sync_first_tx = 0
    /\ LET pkt == rx_payload["slave"]
           Got(cmd) == received /\ pkt.cmd = cmd
       IN /\ Got(LL_CHG_CHNL_MAP_REQ) => pkt.chm # {} \* or chn_table_calc never returns
          /\ chnl_map' = IF Got(LL_CHG_CHNL_MAP_REQ)
                         THEN [chnl_map EXCEPT !["slave"] = pkt.chm] ELSE chnl_map
          /\ chnl_tbl' = IF Got(LL_CHG_CHNL_MAP_REQ)
                         THEN [chnl_tbl EXCEPT !["slave"] = chn_table_calc(pkt.chm, AFH_HOP)]
                         ELSE chnl_tbl
          /\ afh_mode' = IF Got(LL_CHNL_CLASSIFICATION_REQ) THEN pkt.data ELSE afh_mode
    /\ SlaveHop
    /\ SlaveListens(TRUE)
    /\ received' = FALSE
    /\ RxDone("slave")
    /\ UNCHANGED <<broadcast_chnn_idx, format, rx_crc_err_flag, misled, sync_flg, flowVars, tx_buffer,
                   sync_first_tx, ac, need_clsf_flag, qlty, reportLost, lag>>

(* Mutant: the slave stays on the channel on which it heard nothing. *)
SlaveFirstTimeoutStays ==
    /\ SlaveSees("timeout", 1)
    /\ CountTimeout("slave")
    /\ tx_buffer' = [tx_buffer EXCEPT !["slave"] = AfterTimeout("slave")]
    /\ reportLost' = (reportLost \/ (TimeoutFlushes("slave") /\ Reports(tx_buffer["slave"])))
    /\ SlaveListens(TRUE)
    /\ UNCHANGED <<broadcast_chnn_idx, chnn_idx, format, rxVars, connVars, sync_first_tx, ac,
                   afh_mode, need_clsf_flag, qlty, received, lag>>

(* Mutant: the slave does not listen again. *)
SlaveFirstTimeoutRests ==
    /\ SlaveSees("timeout", 1)
    /\ CountTimeout("slave")
    /\ event' = [event EXCEPT !["slave"] = "none"]
    /\ UNCHANGED <<radio, broadcast_chnn_idx, chnn_idx, format, rxVars, connVars, tx_buffer, slaveVars>>

SlaveFirstTimeout ==
    /\ SlaveSees("timeout", 1)
    /\ CountTimeout("slave")
    /\ tx_buffer' = [tx_buffer EXCEPT !["slave"] = AfterTimeout("slave")]
    /\ SlaveHop
    /\ reportLost' = (reportLost \/ (TimeoutFlushes("slave") /\ Reports(tx_buffer["slave"])))
    /\ SlaveListens(TRUE)
    /\ UNCHANGED <<broadcast_chnn_idx, format, rxVars, connVars, sync_first_tx, ac, afh_mode,
                   need_clsf_flag, qlty, received, lag>>

(* proc_user_task, when clsf_tick has expired: refresh_chnl_map. *)
BadChannels == {c \in Channel : qlty[c] <= AFH_BAD_CHNL_QLTY_THRES}

SlaveUserTask ==
    /\ afh_mode = AFH_MODE_ENABLE
    /\ BadChannels # {}
    /\ need_clsf_flag' = 1
    /\ chnl_map' = [chnl_map EXCEPT !["slave"] = @ \ BadChannels]
    /\ qlty' = [c \in Channel |-> IF c \in BadChannels THEN 0 ELSE qlty[c]]
    /\ UNCHANGED <<radioVars, rxVars, sync_flg, chnl_tbl, flowVars, tx_buffer, rxTimed,
                   sync_first_tx, ac, afh_mode, received, reportLost, lag>>

(* The main loop, but for proc_user_task. *)
SlaveLoop ==
    \/ SlaveSyncReq \/ SlaveSyncRspSent \/ SlaveConnReq \/ SlaveSyncIgnores \/ SlaveSyncTimeout
    \/ SlaveFirstTxDone \/ SlaveRx \/ SlaveTxDone \/ SlaveFirstTimeout

(* irq_handler also counts good and bad packets per channel. *)
Rated(ok) ==
    LET c == chnl_tbl["slave"][chnn_idx["slave"]] IN
    qlty' = IF sync_flg["slave"] = 0 THEN qlty
            ELSE IF ok /\ qlty[c] < AFH_GOOD_CHNL_QLTY_THRES THEN [qlty EXCEPT ![c] = @ + 1]
            ELSE IF ~ok /\ qlty[c] > AFH_BAD_CHNL_QLTY_THRES THEN [qlty EXCEPT ![c] = @ - 1]
            ELSE qlty
=============================================================================
