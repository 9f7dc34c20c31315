----------------------------- MODULE HopMaster ------------------------------
(***************************************************************************)
(* The master of the frequency hopping link: app_sync_task and             *)
(* app_cycle_send_task of src/vendor/freq_hopping_le_master/main.c.        *)
(*                                                                         *)
(* main() calls these two and nothing else: proc_user_task, and with it    *)
(* refresh_chnl_map, is never called.  So need_afh_flag, which only        *)
(* refresh_chnl_map sets to 1, is never 1.  What irq_handler keeps for      *)
(* proc_user_task, the quality of each channel and timer0_expire_flg, is   *)
(* not modelled, as nothing else reads it.                                 *)
(***************************************************************************)
EXTENDS HopAir

VARIABLES
    need_afh_flag,     \* 2: the slave has reported a channel, 1: request a new map
    chnl_abd,          \* abandoned channels, a FIFO
    chnl_used

masterVars == <<need_afh_flag, chnl_abd, chnl_used>>

AFH_NB_CHANNEL_MIN == 8
AFH_NB_CHANNEL_ADB == AFH_NB_CHANNEL_MAX - AFH_NB_CHANNEL_MIN + 8

MasterInit ==
    /\ need_afh_flag = 0
    /\ chnl_abd = << >>
    /\ chnl_used = 0

MasterTypeOK ==
    /\ need_afh_flag \in {0, 1, 2}
    /\ chnl_abd \in Seq(Channel) /\ Len(chnl_abd) < AFH_NB_CHANNEL_ADB
    /\ chnl_used \in 0 .. 255

MasterSees(flag, connected) ==
    /\ event["master"] = flag
    /\ sync_flg["master"] = connected

(* gen_fsk_stx2rx_start at the next anchor point, the flag being cleared. *)
MasterStart ==
    /\ radio' = [radio EXCEPT !["master"] = "tx"]
    /\ event' = [event EXCEPT !["master"] = "none"]

NextBroadcast(n) ==
    broadcast_chnn_idx' = [broadcast_chnn_idx EXCEPT ![n] = (@ + 1) % NB_BROADCAST]
-----------------------------------------------------------------------------
(* The packet is out.  In app_sync_task tx_buffer[5] = sync_chnn_idx, which is
   0, and in a LL_CONN_REQ that is the first byte of the sync word. *)
MasterTxDone ==
    /\ event["master"] = "tx_done"
    /\ event' = [event EXCEPT !["master"] = "none"]
    /\ tx_buffer' = [tx_buffer EXCEPT !["master"].ac =
         IF sync_flg["master"] = 0 /\ tx_buffer["master"].cmd = LL_CONN_REQ
         THEN "zeroed" ELSE @]
    /\ UNCHANGED <<radio, broadcast_chnn_idx, chnn_idx, format, rxVars, connVars, flowVars, masterVars>>

MasterSyncRsp ==
    /\ MasterSees("rx", 0)
    /\ rx_payload["master"].cmd = LL_SYNC_RSP
    /\ format' = [format EXCEPT !["master"] = "APP"]
    /\ NextBroadcast("master")
    /\ chnl_used' = AFH_NB_CHANNEL_MAX
    /\ chnl_map' = [chnl_map EXCEPT !["master"] = channel_map]
    /\ chnl_tbl' = [chnl_tbl EXCEPT !["master"] = chn_table_calc(channel_map, AFH_HOP)]
    /\ tx_buffer' = [tx_buffer EXCEPT !["master"] =
         [NoPacket EXCEPT !.cmd = LL_CONN_REQ, !.ac = "conn", !.chm = channel_map, !.len = "APP"]]
    /\ MasterStart
    /\ RxDone("master")
    /\ UNCHANGED <<chnn_idx, sync_flg, rx_crc_err_flag, misled, flowVars, need_afh_flag, chnl_abd>>

(* The connection is made and its first packet prepared. *)
MasterConnRsp ==
    /\ MasterSees("rx", 0)
    /\ rx_payload["master"].cmd = LL_CONN_RSP
    /\ sync_flg' = [sync_flg EXCEPT !["master"] = 1]
    /\ snnesn' = [snnesn EXCEPT !["master"] = [SN |-> 0, NESN |-> 0]]
    /\ tx_buffer' = [tx_buffer EXCEPT !["master"] =
         [NoPacket EXCEPT !.cmd = LL_CHNL_CLASSIFICATION_REQ, !.data = AFH_MODE_ENABLE,
                          !.len = format["master"]]]
    /\ taken' = [taken EXCEPT !["master"] = 0]
    /\ chnn_idx' = [chnn_idx EXCEPT !["master"] = 0]
    /\ MasterStart
    /\ RxDone("master")
    /\ UNCHANGED <<broadcast_chnn_idx, format, chnl_map, chnl_tbl, con_tx_cnt, flushed, rx_crc_err_flag, misled, masterVars>>

(* Any other opcode: the flag is cleared and the radio not started again. *)
MasterSyncIgnores ==
    /\ MasterSees("rx", 0)
    /\ rx_payload["master"].cmd \notin {LL_SYNC_RSP, LL_CONN_RSP}
    /\ event' = [event EXCEPT !["master"] = "none"]
    /\ RxDone("master")
    /\ UNCHANGED <<radio, broadcast_chnn_idx, chnn_idx, format, rx_crc_err_flag, misled, connVars, flowVars, tx_buffer, masterVars>>

MasterSyncTimeout ==
    /\ MasterSees("timeout", 0)
    /\ NextBroadcast("master")
    /\ MasterStart
    /\ UNCHANGED <<chnn_idx, format, rxVars, connVars, flowVars, tx_buffer, masterVars>>
-----------------------------------------------------------------------------
(* refresh_chnl_abd: each channel in which the slave's map differs is taken
   from the map and put into the FIFO, which keeps one of its places free. *)
Differing == (chnl_map["master"] \ rx_payload["master"].chm)
               \cup (rx_payload["master"].chm \ chnl_map["master"])

Abandoned ==
    LET all == chnl_abd \o [i \in 1 .. Cardinality(Differing) |-> Nth(Differing, i - 1)]
    IN SubSeq(all, 1, IF Len(all) < AFH_NB_CHANNEL_ADB THEN Len(all) ELSE AFH_NB_CHANNEL_ADB - 1)

Used == (chnl_used - Cardinality(Differing)) % 256

(* Mutant: a report is ignored while an earlier one is pending. *)
RefreshesIfNonePends ==
    /\ need_afh_flag' = IF Differing # {} THEN 2 ELSE need_afh_flag
    /\ chnl_map' = [chnl_map EXCEPT !["master"] =
         IF need_afh_flag = 2 THEN @ ELSE @ \cap rx_payload["master"].chm]
    /\ chnl_used' = IF need_afh_flag = 2 THEN chnl_used ELSE Used
    /\ chnl_abd' = IF need_afh_flag = 2 THEN chnl_abd ELSE Abandoned
    /\ UNCHANGED chnl_tbl

refresh_chnl_abd ==
    /\ need_afh_flag' = IF Differing # {} THEN 2 ELSE need_afh_flag
    /\ chnl_map' = [chnl_map EXCEPT !["master"] = @ \cap rx_payload["master"].chm]
    /\ chnl_used' = Used
    /\ chnl_abd' = Abandoned
    /\ UNCHANGED chnl_tbl

(* proc_rx_data, after ll_flow_process. *)
proc_rx_data ==
    LET pkt == rx_payload["master"]
        Got(cmd) == Flow("master").RCVD /\ pkt.cmd = cmd
        accepted == Got(LL_ACCEPTED) /\ pkt.data = LL_CHG_CHNL_MAP_REQ
    IN /\ accepted => chnl_map["master"] # {} \* or chn_table_calc never returns
       /\ IF Got(LL_CHNL_CLASSIFICATION_IND)
          THEN refresh_chnl_abd
          ELSE /\ chnl_tbl' = IF accepted
                              THEN [chnl_tbl EXCEPT !["master"] =
                                      chn_table_calc(chnl_map["master"], AFH_HOP)]
                              ELSE chnl_tbl
               /\ UNCHANGED <<need_afh_flag, chnl_map, chnl_used, chnl_abd>>
       /\ UNCHANGED sync_flg

(* proc_tx_data: the packet that takes the place of the one let go. *)
NewPacket ==
    IF need_afh_flag' = 1
    THEN [NoPacket EXCEPT !.cmd = LL_CHG_CHNL_MAP_REQ, !.chm = chnl_map'["master"], !.len = "APP"]
    ELSE DataPacket

MasterRx ==
    /\ MasterSees("rx", 1)
    /\ proc_rx_data
    /\ RunFlow("master", LetsGo("master"))
    /\ tx_buffer' = [tx_buffer EXCEPT !["master"] =
         WithBits(IF LetsGo("master") THEN NewPacket ELSE @, Flow("master"))]
    /\ chnn_idx' = [chnn_idx EXCEPT !["master"] = NextIdx("master")]
    /\ RxDone("master")
    /\ MasterStart
    /\ UNCHANGED <<broadcast_chnn_idx, format>>

(* tx_buffer[7] = sync_chnn_idx, the first data byte, whatever the packet: in a
   LL_CHNL_CLASSIFICATION_REQ it is the mode. *)
MasterTimeout ==
    /\ MasterSees("timeout", 1)
    /\ CountTimeout("master")
    /\ chnn_idx' = [chnn_idx EXCEPT !["master"] = NextIdx("master")]
    /\ tx_buffer' = [tx_buffer EXCEPT !["master"] =
         [AfterTimeout("master") EXCEPT !.data =
            IF need_afh_flag # 1 /\ AfterTimeout("master").cmd = LL_CHNL_CLASSIFICATION_REQ
            THEN NextIdx("master") ELSE @]]
    /\ MasterStart
    /\ UNCHANGED <<broadcast_chnn_idx, format, rxVars, connVars, masterVars>>

(* The main loop. *)
MasterLoop ==
    \/ MasterTxDone \/ MasterSyncRsp \/ MasterConnRsp \/ MasterSyncIgnores \/ MasterSyncTimeout
    \/ MasterRx \/ MasterTimeout
=============================================================================
