------------------------------ MODULE HopLink -------------------------------
(***************************************************************************)
(* The frequency hopping link as a whole: a master (HopMaster) and a slave *)
(* (HopSlave) and the air between them (HopAir).  A packet is heard only   *)
(* if the receiver is on its channel and sync word, and it may be lost or  *)
(* garbled even then.                                                      *)
(***************************************************************************)
EXTENDS HopMaster, HopSlave

vars == <<airVars, masterVars, slaveVars>>

Init == AirInit /\ MasterInit /\ SlaveInit
-----------------------------------------------------------------------------
TunedMaster == Tuned("master", sync_flg["master"] = 1, "conn")
TunedSlave == Tuned("slave", sync_flg["slave"] = 1 /\ sync_first_tx = 0, ac)

(* The slave is done with the last packet. *)
SlaveReady == radio["slave"] # "tx" /\ event["slave"] = "none"

MasterOnAir ==
    /\ radio["master"] = "tx" /\ SlaveReady
    /\ UNCHANGED <<broadcast_chnn_idx, chnn_idx, format, connVars, flowVars, tx_buffer, masterVars,
                   rxTimed, sync_first_tx, ac, afh_mode, need_clsf_flag, received,
                   reportLost, lag>>

SlaveHears ==
    /\ MasterOnAir
    /\ radio["slave"] = "rx" /\ TunedMaster = TunedSlave
    /\ radio' = [radio EXCEPT !["master"] = "rx", !["slave"] = "off"]
    /\ \/ ArrivesWhole("slave") /\ Rated(tx_buffer["master"].len = format["slave"])
       \/ ArrivesGarbled("slave") /\ Rated(FALSE)

(* The packet is lost, and with it the slave's receive window, if it is
   connected and has one. *)
SlaveMisses ==
    /\ MasterOnAir
    /\ LET missed == radio["slave"] = "rx" /\ sync_flg["slave"] = 1 /\ rxTimed IN
       /\ radio' = [radio EXCEPT !["master"] = "rx", !["slave"] = IF missed THEN "off" ELSE @]
       /\ event' = [event EXCEPT !["master"] = "tx_done", !["slave"] = IF missed THEN "timeout" ELSE @]
    /\ UNCHANGED <<rxVars, qlty>>

(* A slave that is not connected listens for three of the master's intervals. *)
SlaveWindowEnds ==
    /\ radio["slave"] = "rx" /\ sync_flg["slave"] = 0 /\ rxTimed
    /\ radio' = [radio EXCEPT !["slave"] = "off"]
    /\ event' = [event EXCEPT !["slave"] = "timeout"]
    /\ UNCHANGED <<broadcast_chnn_idx, chnn_idx, format, rxVars, connVars, flowVars, tx_buffer,
                   masterVars, slaveVars>>

SlaveOnAir ==
    /\ radio["slave"] = "tx" /\ event["master"] = "none"
    /\ UNCHANGED <<broadcast_chnn_idx, chnn_idx, format, connVars, flowVars, tx_buffer, masterVars, slaveVars>>

MasterHears ==
    /\ SlaveOnAir
    /\ radio["master"] = "rx" /\ TunedMaster = TunedSlave
    /\ radio' = [radio EXCEPT !["master"] = "off", !["slave"] = "off"]
    /\ ArrivesWhole("master") \/ ArrivesGarbled("master")

MasterMisses ==
    /\ SlaveOnAir
    /\ radio' = [radio EXCEPT !["slave"] = "off"]
    /\ event' = [event EXCEPT !["slave"] = "tx_done"]
    /\ UNCHANGED rxVars

(* 350 us after its packet, which the slave, if it heard it, has read by then. *)
MasterWindowEnds ==
    /\ radio["master"] = "rx" /\ event["master"] = "none" /\ event["slave"] # "rx"
    /\ radio' = [radio EXCEPT !["master"] = "off"]
    /\ event' = [event EXCEPT !["master"] = "timeout"]
    /\ UNCHANGED <<broadcast_chnn_idx, chnn_idx, format, rxVars, connVars, flowVars, tx_buffer,
                   masterVars, slaveVars>>

MasterRadio == SlaveHears \/ SlaveMisses \/ MasterWindowEnds
SlaveRadio == MasterHears \/ MasterMisses \/ SlaveWindowEnds

MasterStep == MasterLoop /\ UNCHANGED slaveVars
SlaveStep == SlaveLoop /\ UNCHANGED masterVars
SlaveTask == SlaveUserTask /\ UNCHANGED masterVars

Next ==
    \/ MasterStep \/ SlaveStep \/ SlaveTask
    \/ MasterRadio \/ SlaveRadio

Spec == Init /\ [][Next]_vars

(* The main loops run, proc_user_task's timer expires, and every start of a
   radio comes to its end.  That packets arrive is not assumed. *)
FairSpec ==
    /\ Spec
    /\ WF_vars(MasterStep) /\ WF_vars(SlaveStep) /\ WF_vars(SlaveTask)
    /\ WF_vars(MasterRadio) /\ WF_vars(SlaveRadio)
-----------------------------------------------------------------------------
TypeOK == AirTypeOK /\ MasterTypeOK /\ SlaveTypeOK

(* No packet is taken twice, however often it is sent again (ll_flow_process).
   A slave's packet may be, after a garbled command that reads LL_ACCEPTED:
   proc_rx_data_1 then flips SN and keeps the packet. *)
TakenOnce ==
    /\ taken["master"] <= 1
    /\ misled = 0 => taken["slave"] <= 1

(* A packet is let go as acknowledged only if the peer took it, unless auto
   flush had put it in the place of another, or a CRC was wrong: the bits of a
   garbled packet count as an acknowledgement (ll_flow_process). *)
AckedOnlyIfTaken ==
    [][\A n \in Node :
         sync_flg[n] = 1 /\ snnesn'[n].SN # snnesn[n].SN
           => taken[n] > 0 \/ flushed[n] \/ misled > 0]_vars

(* Once the slave has heard a packet the two stay as many indices apart as they
   were then, whatever is lost from then on (next_rx_point, sync_anchor_point). *)
HopTogether ==
    lag # -1 /\ radio["master"] = "tx" /\ SlaveReady
      => (chnn_idx["master"] - chnn_idx["slave"]) % TOTAL_NB_CHNNEL = lag

(* The slave has nothing to report that the master does not know: as long as
   nothing was garbled or flushed, no report of a bad channel gets lost
   (need_clsf_flag, LL_CHNL_CLASSIFICATION_IND, refresh_chnl_abd). *)
Untold ==
    \/ need_clsf_flag = 1
    \/ tx_buffer["slave"].cmd = LL_CHNL_CLASSIFICATION_IND /\ taken["slave"] = 0

Connected == sync_flg["master"] = 1 /\ sync_flg["slave"] = 1 /\ sync_first_tx = 0

MapsAgree ==
    Connected /\ misled = 0 /\ ~reportLost /\ ~Untold
      => chnl_map["master"] = chnl_map["slave"]

(* chnl_used is the number of channels in the master's map, and no channel is
   forgotten: each is in the map or abandoned, as long as the FIFO has room
   (refresh_chnl_abd). *)
ChannelsKept ==
    sync_flg["master"] = 1 /\ misled = 0 =>
      /\ chnl_used = Cardinality(chnl_map["master"])
      /\ Cardinality(channel_map \ chnl_map["master"]) < AFH_NB_CHANNEL_ADB =>
           channel_map = chnl_map["master"] \cup {chnl_abd[i] : i \in DOMAIN chnl_abd}

(* The master's map is what the slave has, what the master counts and, with the
   channels it has abandoned, what it began with. *)
MapsKept == MapsAgree /\ ChannelsKept

(* A slave that waits for data while the master still asks for a connection is
   not heard of again: it waits without a timeout, on another sync word. *)
Stranded ==
    /\ sync_flg["slave"] = 1 /\ sync_first_tx = 0 /\ SlaveReady
    /\ sync_flg["master"] = 0 /\ event["master"] # "rx"

StrandedForGood == [][Stranded => Stranded']_vars

(* No loss stops either node: the master goes on sending, and the slave always
   comes to listen again. *)
RadiosGoOn == []<>(radio["master"] = "tx") /\ []<>(radio["slave"] = "rx")

(* "indicate sync success" (led_blink, main.c:574): the slave is connected,
   with the sync word and the channel table of the master. *)
SyncSuccess ==
    sync_flg["master"] = 1 =>
      /\ sync_flg["slave"] = 1
      /\ sync_first_tx = 0 => ac = "conn" /\ chnl_tbl["slave"] = chnl_tbl["master"]

(* A bad channel that the slave has reported waits for the next expiry of
   TIMER0 and is then dealt with (main.c:390, main.c:355). *)
ReportDealtWith == need_afh_flag = 2 ~> need_afh_flag = 1
=============================================================================
