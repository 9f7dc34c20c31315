--------------------------- MODULE HopLinkProofs ---------------------------
(***************************************************************************)
(* Proofs about the frequency hopping link, for every size of the channel  *)
(* table, every map and every threshold: packets are taken once, they are  *)
(* let go only when taken, a slave whose LL_CONN_RSP was lost is stranded, *)
(* the two hop together, the table never leaves the channels, and the maps *)
(* of the two agree but for what the slave has yet to tell.                *)
(*                                                                         *)
(* The SN and NESN of a packet mean something only relative to the bits    *)
(* that the peer has when it reads them.  LinkInv says that no more than   *)
(* one packet is under way, that it carries its sender's present bits, and *)
(* what the difference of the bits says about it.  The other invariants    *)
(* rest on it: TogetherInv says which of the two has hopped already,       *)
(* RestType that no empty map is tabulated, and MapInv where a report is.  *)
(***************************************************************************)
EXTENDS HopLink, FiniteSetTheorems, WellFoundedInduction, TLAPS

Linked == sync_flg["slave"] = 1 /\ sync_first_tx = 0

(* The part of the type invariant that the proofs need. *)
LinkType ==
    /\ radio \in [Node -> {"off", "tx", "rx"}]
    /\ event \in [Node -> {"none", "rx", "tx_done", "timeout"}]
    /\ sync_flg \in [Node -> {0, 1}]
    /\ chnn_idx \in [Node -> Channel]
    /\ format \in [Node -> {"SYNC", "APP"}]
    /\ tx_buffer \in [Node -> Packet]
    /\ rx_payload \in [Node -> Packet]
    /\ rx_crc_err_flag \in [Node -> BOOLEAN]
    /\ chnl_map \in [Node -> SUBSET Channel]
    /\ snnesn \in [Node -> [SN : {0, 1}, NESN : {0, 1}]]
    /\ misled \in Nat
    /\ taken \in [Node -> Nat]
    /\ flushed \in [Node -> BOOLEAN]
    /\ sync_first_tx \in {0, 1}
    /\ need_afh_flag \in {0, 1, 2}

(* Only a slave that was asked to connect sends LL_CONN_RSP, and the request
   never names the sync word of the handshake. *)
AskedInv ==
    /\ sync_flg["slave"] = 0 =>
         /\ sync_flg["master"] = 0
         /\ sync_first_tx = 0
         /\ tx_buffer["slave"].cmd # LL_CONN_RSP
         /\ rx_payload["master"].cmd # LL_CONN_RSP
    /\ tx_buffer["master"].cmd = LL_CONN_REQ => tx_buffer["master"].ac # "sync"
    /\ rx_payload["slave"].cmd = LL_CONN_REQ => rx_payload["slave"].ac # "sync"
    /\ tx_buffer["master"].cmd \notin {LL_ACCEPTED, LL_CONN_RSP}

(* Before data is exchanged the flow control is in its first state. *)
FreshInv ==
    /\ sync_flg["master"] = 0 => taken["master"] = 1
    /\ ~Linked => snnesn["slave"].NESN = 0 /\ taken["slave"] = 1

(* LL_CONN_RSP is on its way or was answered. *)
RspInv ==
    sync_first_tx = 1 =>
      /\ radio["slave"] # "rx"
      /\ event["slave"] \in {"none", "tx_done"}
      /\ radio["slave"] = "tx" =>
           /\ event["slave"] = "none"
           /\ sync_flg["master"] = 0 /\ rx_payload["master"].cmd # LL_CONN_RSP
      /\ radio["slave"] = "tx" \/ event["slave"] = "tx_done" => rx_payload["slave"].ac # "sync"
      /\ sync_flg["master"] = 1 =>
           /\ snnesn["master"] = [SN |-> 0, NESN |-> 0]
           /\ taken["master"] = 0
           /\ event["master"] # "rx"

(* A slave that waits for a master that is not connected. *)
WaitInv ==
    Linked /\ sync_flg["master"] = 0 =>
      /\ radio["slave"] = "rx" /\ event["slave"] = "none"
      /\ ~rxTimed
      /\ ac # "sync"
      /\ snnesn["slave"] = [SN |-> 1, NESN |-> 0]
      /\ taken["slave"] = 1

(* While the slave reads a packet the master does nothing but wait. *)
PhaseInv ==
    event["slave"] = "rx" =>
      /\ event["master"] \in {"none", "tx_done"}
      /\ radio["master"] = "rx" /\ radio["slave"] = "off"

(* A packet carries its sender's present bits. *)
Carries(pkt, n) == pkt.SN = snnesn[n].SN /\ pkt.NESN = snnesn[n].NESN

Heard(n) ==
    /\ ~rx_crc_err_flag[n] => rx_payload[n].SN = snnesn[Peer(n)].SN
    /\ misled = 0 => rx_payload[n].NESN = snnesn[Peer(n)].NESN

BitsInv ==
    /\ sync_flg["master"] = 1 => Carries(tx_buffer["master"], "master")
    /\ Linked /\ radio["slave"] = "tx" => Carries(tx_buffer["slave"], "slave")
    /\ sync_flg["slave"] = 1 /\ event["slave"] = "rx" =>
         Heard("slave") /\ (misled = 0 => rx_payload["slave"].cmd # LL_ACCEPTED)
    /\ sync_flg["master"] = 1 /\ event["master"] = "rx" => Heard("master")

(* The peer's NESN differs from the SN of a packet exactly if it was taken. *)
Flowing(n) ==
    /\ taken[n] <= 1
    /\ taken[n] = 1 => snnesn[Peer(n)].NESN # snnesn[n].SN
    /\ taken[n] = 0 /\ ~flushed[n] /\ misled = 0 => snnesn[Peer(n)].NESN = snnesn[n].SN

FlowInv ==
    /\ sync_flg["master"] = 1 => Flowing("master")
    /\ sync_flg["master"] = 1 /\ Linked /\ misled = 0 => Flowing("slave")

LinkInv ==
    /\ LinkType /\ AskedInv /\ FreshInv /\ RspInv
    /\ WaitInv /\ PhaseInv /\ BitsInv /\ FlowInv
-----------------------------------------------------------------------------
(* The bits that ll_flow_process leaves, and what it says of the packets: SENT
   only if the peer's NESN differs from the own SN, RCVD only with a right CRC. *)
LEMMA FlowFacts ==
    ASSUME NEW n \in Node, LinkType
    PROVE  /\ Flow(n).SENT \in BOOLEAN /\ Flow(n).RCVD \in BOOLEAN
           /\ Flow(n).SN \in {0, 1} /\ Flow(n).NESN \in {0, 1}
           /\ Flow(n).SENT <=> rx_payload[n].NESN # snnesn[n].SN
           /\ Flow(n).RCVD <=> rx_payload[n].SN = snnesn[n].NESN /\ ~rx_crc_err_flag[n]
           /\ Flow(n).SN = IF Flow(n).SENT THEN 1 - snnesn[n].SN ELSE snnesn[n].SN
           /\ Flow(n).NESN = IF Flow(n).RCVD THEN 1 - snnesn[n].NESN ELSE snnesn[n].NESN
<1> DEFINE peer == rx_payload[n]
           local == snnesn[n]
<1>1. peer.SN \in {0, 1} /\ peer.NESN \in {0, 1} /\ local.SN \in {0, 1} /\ local.NESN \in {0, 1}
      /\ rx_crc_err_flag[n] \in BOOLEAN
  BY DEF LinkType, Packet
<1> DEFINE rcvd == peer.SN = local.NESN /\ ~rx_crc_err_flag[n]
           sent == peer.NESN # local.SN
<1>2. Flow(n) = [NESN |-> IF rcvd THEN 1 - peer.SN ELSE local.NESN,
                 SN   |-> IF sent THEN peer.NESN ELSE local.SN,
                 SENT |-> sent, RCVD |-> rcvd]
  BY DEF Flow, ll_flow_process
<1> HIDE DEF sent, rcvd
<1>3. Flow(n).SENT = sent /\ Flow(n).RCVD = rcvd
  BY <1>2
<1>4. /\ Flow(n).SN = IF sent THEN peer.NESN ELSE local.SN
      /\ Flow(n).NESN = IF rcvd THEN 1 - peer.SN ELSE local.NESN
  BY <1>2
<1>5. sent \in BOOLEAN /\ rcvd \in BOOLEAN
  BY <1>1 DEF sent, rcvd
<1>6. /\ Flow(n).SN = IF sent THEN 1 - local.SN ELSE local.SN
      /\ Flow(n).NESN = IF rcvd THEN 1 - local.NESN ELSE local.NESN
      /\ Flow(n).SN \in {0, 1} /\ Flow(n).NESN \in {0, 1}
  <2>1. CASE sent
    BY <2>1, <1>1, <1>4 DEF sent, rcvd
  <2>2. CASE ~sent
    BY <2>2, <1>1, <1>4 DEF sent, rcvd
  <2> QED
    BY <2>1, <2>2
<1> QED
  BY <1>3, <1>5, <1>6, Zenon DEF sent, rcvd

(* Packets keep their type, and all but the bits, when they get new bits. *)
LEMMA WithBitsFacts ==
    ASSUME NEW pkt \in Packet, NEW bits, bits.SN \in {0, 1}, bits.NESN \in {0, 1}
    PROVE  /\ WithBits(pkt, bits) \in Packet
           /\ WithBits(pkt, bits).SN = bits.SN /\ WithBits(pkt, bits).NESN = bits.NESN
           /\ WithBits(pkt, bits).cmd = pkt.cmd /\ WithBits(pkt, bits).ac = pkt.ac
  BY DEF WithBits, Packet

(* The packets that the code builds. *)
LEMMA BuiltPackets ==
    /\ NoPacket \in Packet
    /\ DataPacket \in Packet /\ DataPacket.cmd = LL_SYNC_DATA
    /\ NoPacket.cmd = LL_CMD_START
  BY DEF NoPacket, DataPacket, Packet, Cmd, Word, LL_CMD_START, LL_SYNC_REQ, LL_SYNC_DATA

LEMMA PeerFacts ==
    /\ Peer("master") = "slave" /\ Peer("slave") = "master"
    /\ \A n \in Node : Peer(n) \in Node /\ Peer(n) # n
  BY DEF Peer, Node

(* A packet whose CRC is wrong is a packet, and it does not come to be a
   LL_CONN_RSP, nor a LL_CONN_REQ, which never gets the word of the handshake. *)
LEMMA GarblingFacts ==
    ASSUME NEW p \in Packet, NEW q \in Garblings(p)
    PROVE  /\ q \in Packet
           /\ q.cmd \in {p.cmd, LL_CMD_START, LL_SYNC_RSP, LL_ACCEPTED, LL_CHNL_CLASSIFICATION_REQ,
                        LL_CHG_CHNL_MAP_REQ}
           /\ p.cmd = LL_CONN_REQ => q.ac \in {p.ac, "other"}
<1>1. PICK c \in {p.cmd, LL_CMD_START, LL_SYNC_RSP, LL_ACCEPTED, LL_CHNL_CLASSIFICATION_REQ,
                 LL_CHG_CHNL_MAP_REQ}, s \in {0, 1}, e \in {0, 1},
           w \in {p.ac} \cup OnlyIn(p, LL_CONN_REQ, {"other"}),
           m \in {p.chm} \cup OnlyIn(p, LL_CONN_REQ, {{}, {0}}) :
        q = GarbledInto(p, c, s, e, w, m)
  BY DEF Garblings
<1>2. c \in Cmd /\ w \in Word /\ m \in SUBSET Channel
  <2>1. c \in Cmd
    BY DEF Packet, Cmd
  <2>2. w \in Word
    BY DEF Packet, Word, OnlyIn
  <2>3. 0 \in Channel
    BY HopAssumption DEF Channel
  <2>4. m \in SUBSET Channel
    BY <2>3 DEF Packet, OnlyIn
  <2> QED
    BY <2>1, <2>2, <2>4
<1>3. q \in Packet /\ q.cmd = c /\ q.ac = w
  BY <1>1, <1>2 DEF Packet, GarbledInto
<1> QED
  BY <1>3 DEF OnlyIn

(* What node n has before it when a packet arrives. *)
Arrival(n, sent) ==
    /\ event' = [event EXCEPT ![n] = "rx", ![Peer(n)] = "tx_done"]
    /\ rx_payload' = [rx_payload EXCEPT ![n] = rx_payload'[n]]
    /\ rx_payload'[n] \in Packet
    /\ rx_crc_err_flag' \in [Node -> BOOLEAN]
    /\ \A m \in Node : m # n => rx_crc_err_flag'[m] = rx_crc_err_flag[m]
    /\ ~rx_crc_err_flag'[n] => rx_payload'[n] = sent
    /\ misled' \in Nat
    /\ misled' = 0 => misled = 0 /\ rx_payload'[n] = sent
    /\ rx_payload'[n].cmd \in {sent.cmd, LL_CMD_START, LL_SYNC_RSP, LL_ACCEPTED, LL_CHNL_CLASSIFICATION_REQ,
                                LL_CHG_CHNL_MAP_REQ}
    /\ sent.cmd = LL_CONN_REQ => rx_payload'[n].ac \in {sent.ac, "other"}

LEMMA ArrivalFacts ==
    ASSUME LinkType, NEW n \in Node, ArrivesWhole(n) \/ ArrivesGarbled(n)
    PROVE  Arrival(n, tx_buffer[Peer(n)])
<1> DEFINE sent == tx_buffer[Peer(n)]
<1>0. sent \in Packet /\ misled \in Nat
  BY PeerFacts DEF LinkType
<1>1. ASSUME NEW p \in Packet, NEW ok \in BOOLEAN, Arrives(n, p, ok)
      PROVE  /\ event' = [event EXCEPT ![n] = "rx", ![Peer(n)] = "tx_done"]
             /\ rx_payload' = [rx_payload EXCEPT ![n] = rx_payload'[n]]
             /\ rx_payload'[n] = p
             /\ rx_crc_err_flag' \in [Node -> BOOLEAN]
             /\ \A m \in Node : m # n => rx_crc_err_flag'[m] = rx_crc_err_flag[m]
             /\ ~rx_crc_err_flag'[n] => ok
  BY <1>1 DEF Arrives, LinkType
<1>2. CASE ArrivesWhole(n)
  <2> DEFINE ok == sent.len = format[n]
  <2>1. Arrives(n, sent, ok) /\ ok \in BOOLEAN /\ misled' = misled
    BY <1>2 DEF ArrivesWhole
  <2> HIDE DEF ok
  <2> QED
    BY <2>1, <1>0, <1>1 DEF Arrival
<1>3. CASE ArrivesGarbled(n)
  <2>1. PICK p \in Garblings(sent) :
          /\ Arrives(n, p, FALSE)
          /\ misled' = IF p = sent THEN misled ELSE misled + 1
    BY <1>3 DEF ArrivesGarbled
  <2>2. /\ p \in Packet
        /\ p.cmd \in {sent.cmd, LL_CMD_START, LL_SYNC_RSP, LL_ACCEPTED, LL_CHNL_CLASSIFICATION_REQ,
                     LL_CHG_CHNL_MAP_REQ}
        /\ sent.cmd = LL_CONN_REQ => p.ac \in {sent.ac, "other"}
    BY <1>0, GarblingFacts
  <2>3. misled' \in Nat /\ (misled' = 0 => misled = 0 /\ p = sent)
    BY <2>1, <1>0
  <2> HIDE DEF sent
  <2> QED
    BY <2>1, <2>2, <2>3, <1>1 DEF Arrival, sent
<1> QED
  BY <1>2, <1>3
-----------------------------------------------------------------------------
(* Types. *)
LEMMA RunFlowType ==
    ASSUME LinkType, NEW n \in Node, NEW built \in BOOLEAN, RunFlow(n, built)
    PROVE  /\ snnesn' \in [Node -> [SN : {0, 1}, NESN : {0, 1}]]
           /\ rx_crc_err_flag' \in [Node -> BOOLEAN]
           /\ misled' \in Nat
           /\ taken' \in [Node -> Nat]
           /\ flushed' \in [Node -> BOOLEAN]
<1>1. snnesn' \in [Node -> [SN : {0, 1}, NESN : {0, 1}]]
  BY FlowFacts DEF RunFlow, LinkType
<1>2. rx_crc_err_flag' \in [Node -> BOOLEAN] /\ misled' \in Nat
  BY DEF RunFlow, LinkType
<1>3. taken' \in [Node -> Nat]
  BY DEF RunFlow, LinkType
<1>4. flushed' \in [Node -> BOOLEAN]
  <2>1. (~Flow(n).SENT) \in BOOLEAN
    BY FlowFacts, Zenon
  <2> QED
    BY <2>1 DEF RunFlow, LinkType
<1> QED
  BY <1>1, <1>2, <1>3, <1>4

LEMMA CountTimeoutType ==
    ASSUME LinkType, NEW n \in Node, CountTimeout(n)
    PROVE  /\ snnesn' = snnesn
           /\ taken' \in [Node -> Nat]
           /\ flushed' \in [Node -> BOOLEAN]
  BY DEF CountTimeout, LinkType, TimeoutFlushes

LEMMA AfterTimeoutFacts ==
    ASSUME LinkType, NEW n \in Node
    PROVE  /\ AfterTimeout(n) \in Packet
           /\ AfterTimeout(n).cmd \in {LL_SYNC_DATA, tx_buffer[n].cmd}
           /\ Carries(tx_buffer[n], n) => Carries(AfterTimeout(n), n)
           /\ AfterTimeout(n).cmd = LL_CONN_REQ => AfterTimeout(n).ac = tx_buffer[n].ac
<1>1. snnesn[n].SN \in {0, 1} /\ snnesn[n].NESN \in {0, 1} /\ tx_buffer[n] \in Packet
  BY DEF LinkType
<1> DEFINE p == WithBits(DataPacket, snnesn[n])
<1>2. p \in Packet /\ p.cmd = LL_SYNC_DATA /\ p.SN = snnesn[n].SN /\ p.NESN = snnesn[n].NESN
  BY <1>1, WithBitsFacts, BuiltPackets
<1> HIDE DEF p
<1>3. AfterTimeout(n) = IF TimeoutFlushes(n) THEN p ELSE tx_buffer[n]
  BY DEF AfterTimeout, p
<1> QED
  BY <1>1, <1>2, <1>3 DEF Carries, LL_SYNC_DATA, LL_CONN_REQ

LEMMA NextIdxType ==
    ASSUME LinkType, NEW n \in Node
    PROVE  NextIdx(n) \in Channel /\ NextIdx(n) \in Nat
  BY HopAssumption DEF LinkType, NextIdx, Channel
(* What the slave answers to a command is a packet. *)
LEMMA AnswerType ==
    ASSUME LinkType
    PROVE  Answer(rx_payload["slave"].cmd) \in Packet
<1> USE DEF LinkType, Node
<1> DEFINE cmd == rx_payload["slave"].cmd
<1>1. cmd \in Cmd
  BY DEF Packet
<1>2. Accepts(cmd) \in Packet
  <2>1. cmd \in Nat
    BY <1>1 DEF Cmd, LL_ACCEPTED, LL_CMD_START, LL_SYNC_REQ, LL_SYNC_RSP, LL_CONN_REQ, LL_CONN_RSP,
       LL_CHNL_CLASSIFICATION_REQ, LL_CHG_CHNL_MAP_REQ, LL_CHNL_CLASSIFICATION_IND, LL_SYNC_DATA
  <2> HIDE DEF cmd
  <2>2. LL_ACCEPTED \in Cmd
    BY DEF Cmd
  <2> QED
    BY <2>1, <2>2, BuiltPackets DEF Accepts, Packet
<1>3. [NoPacket EXCEPT !.cmd = LL_CHNL_CLASSIFICATION_IND, !.chm = chnl_map["slave"], !.len = "APP"]
        \in Packet
  <2>1. LL_CHNL_CLASSIFICATION_IND \in Cmd
    BY DEF Cmd
  <2>2. chnl_map["slave"] \in SUBSET Channel
    OBVIOUS
  <2> QED
    BY <2>1, <2>2, BuiltPackets DEF Packet
<1> QED
  BY <1>2, <1>3, BuiltPackets DEF Answer

LEMMA TypeStep == LinkType /\ [Next]_vars => LinkType'
<1> SUFFICES ASSUME LinkType, [Next]_vars
             PROVE  LinkType'
  OBVIOUS
<1> USE DEF LinkType, Node
<1>1. CASE MasterTxDone /\ UNCHANGED slaveVars
  BY <1>1 DEF MasterTxDone, rxVars, connVars, flowVars, masterVars, slaveVars, Packet, Word
<1>2. CASE MasterSyncRsp /\ UNCHANGED slaveVars
  <2>1. tx_buffer'["master"] \in Packet
    BY <1>2, HopAssumption, BuiltPackets DEF MasterSyncRsp, Packet, Word, Cmd, LL_CONN_REQ
  <2> QED
    BY <1>2, <2>1, HopAssumption, BuiltPackets
    DEF MasterSyncRsp, MasterStart, RxDone, flowVars, slaveVars
<1>3. CASE MasterConnRsp /\ UNCHANGED slaveVars
  <2>1. tx_buffer'["master"] \in Packet /\ 0 \in Channel
    <3>1. AFH_MODE_ENABLE \in Nat /\ LL_CHNL_CLASSIFICATION_REQ \in Cmd /\ 0 \in Channel
      BY HopAssumption DEF AFH_MODE_ENABLE, Cmd, Channel
    <3>2. [NoPacket EXCEPT !.cmd = LL_CHNL_CLASSIFICATION_REQ, !.data = AFH_MODE_ENABLE,
                           !.len = format["master"]] \in Packet
      BY <3>1, BuiltPackets DEF Packet
    <3> QED
      BY <1>3, <3>1, <3>2 DEF MasterConnRsp
  <2>2. tx_buffer' \in [Node -> Packet] /\ chnn_idx' \in [Node -> Channel]
    BY <1>3, <2>1 DEF MasterConnRsp
  <2>3. snnesn' \in [Node -> [SN : {0, 1}, NESN : {0, 1}]] /\ taken' \in [Node -> Nat]
    BY <1>3 DEF MasterConnRsp
  <2> QED
    BY <1>3, <2>2, <2>3, BuiltPackets DEF MasterConnRsp, MasterStart, RxDone, masterVars, slaveVars
<1>4. CASE MasterSyncIgnores /\ UNCHANGED slaveVars
  BY <1>4, BuiltPackets DEF MasterSyncIgnores, RxDone, connVars, flowVars, masterVars, slaveVars
<1>5. CASE MasterSyncTimeout /\ UNCHANGED slaveVars
  BY <1>5 DEF MasterSyncTimeout, MasterStart, NextBroadcast, rxVars, connVars, flowVars, masterVars, slaveVars
<1>6. CASE MasterRx /\ UNCHANGED slaveVars
  <2>1. NewPacket \in Packet /\ need_afh_flag' \in {0, 1, 2} /\ chnl_map' \in [Node -> SUBSET Channel]
    <3>1. need_afh_flag' \in {0, 1, 2} /\ chnl_map' \in [Node -> SUBSET Channel]
      BY <1>6 DEF MasterRx, proc_rx_data, refresh_chnl_abd
    <3>2. [NoPacket EXCEPT !.cmd = LL_CHG_CHNL_MAP_REQ, !.chm = chnl_map'["master"], !.len = "APP"] \in Packet
      BY <3>1, BuiltPackets DEF Packet, Cmd, LL_CHG_CHNL_MAP_REQ
    <3> QED
      BY <3>1, <3>2, BuiltPackets DEF NewPacket
  <2> DEFINE q == IF LetsGo("master") THEN NewPacket ELSE tx_buffer["master"]
  <2>2. WithBits(q, Flow("master")) \in Packet
    BY <2>1, FlowFacts, WithBitsFacts
  <2>3. tx_buffer' = [tx_buffer EXCEPT !["master"] = WithBits(q, Flow("master"))]
    BY <1>6 DEF MasterRx
  <2>4. LetsGo("master") \in BOOLEAN
    BY DEF LetsGo
  <2>5. RunFlow("master", LetsGo("master"))
    BY <1>6 DEF MasterRx
  <2> HIDE DEF q
  <2>6. tx_buffer' \in [Node -> Packet]
    BY <2>2, <2>3
  <2> QED
    BY <1>6, <2>1, <2>4, <2>5, <2>6, RunFlowType, NextIdxType, BuiltPackets
    DEF MasterRx, proc_rx_data, MasterStart, RxDone, slaveVars
<1>7. CASE MasterTimeout /\ UNCHANGED slaveVars
  <2>1. tx_buffer'["master"] \in Packet
    BY <1>7, AfterTimeoutFacts, NextIdxType DEF MasterTimeout, Packet
  <2>2. tx_buffer' \in [Node -> Packet]
    BY <1>7, <2>1 DEF MasterTimeout
  <2> QED
    BY <1>7, <2>2, CountTimeoutType, NextIdxType
    DEF MasterTimeout, MasterStart, rxVars, connVars, masterVars, slaveVars
<1>8. CASE SlaveSyncReq /\ UNCHANGED masterVars
  BY <1>8, BuiltPackets DEF SlaveSyncReq, SlaveSends, RxDone, connVars, flowVars, slaveVars, masterVars,
     Packet, Cmd, LL_SYNC_RSP
<1>9. CASE SlaveSyncRspSent /\ UNCHANGED masterVars
  BY <1>9 DEF SlaveSyncRspSent, SlaveListens, rxVars, connVars, flowVars, masterVars, Packet
<1>10. CASE SlaveConnReq /\ UNCHANGED masterVars
  BY <1>10 DEF SlaveConnReq, SlaveSends, rxVars, flowVars, masterVars, Packet, Cmd, LL_CONN_RSP
<1>11. CASE SlaveSyncIgnores /\ UNCHANGED masterVars
  BY <1>11, BuiltPackets DEF SlaveSyncIgnores, RxDone, connVars, flowVars, slaveVars, masterVars
<1>12. CASE SlaveSyncTimeout /\ UNCHANGED masterVars
  BY <1>12 DEF SlaveSyncTimeout, SlaveListens, rxVars, connVars, flowVars, masterVars
<1>13. CASE SlaveFirstTxDone /\ UNCHANGED masterVars
  <2>1. tx_buffer' \in [Node -> Packet]
    <3>1. [tx_buffer["slave"] EXCEPT !.cmd = LL_CMD_START] \in Packet
      BY DEF Packet, Cmd
    <3>2. \/ tx_buffer' = tx_buffer
          \/ tx_buffer' = [tx_buffer EXCEPT !["slave"] = [tx_buffer["slave"] EXCEPT !.cmd = LL_CMD_START]]
      BY <1>13 DEF SlaveFirstTxDone
    <3> QED
      BY <3>1, <3>2
  <2>2. /\ snnesn' \in [Node -> [SN : {0, 1}, NESN : {0, 1}]]
        /\ chnl_map' \in [Node -> SUBSET Channel]
        /\ chnn_idx' \in [Node -> Channel]
    <3>1. rx_payload["slave"].chm \in SUBSET Channel
      BY DEF Packet
    <3>2. \/ snnesn' = snnesn /\ chnl_map' = chnl_map /\ chnn_idx' = chnn_idx
          \/ /\ snnesn' = [snnesn EXCEPT !["slave"] = [SN |-> 1, NESN |-> 0]]
             /\ chnl_map' = [chnl_map EXCEPT !["slave"] = rx_payload["slave"].chm]
             /\ chnn_idx' = [chnn_idx EXCEPT !["slave"] = 0]
      BY <1>13 DEF SlaveFirstTxDone
    <3>3. 0 \in Channel
      BY HopAssumption DEF Channel
    <3> QED
      BY <3>1, <3>2, <3>3
  <2> QED
    BY <1>13, <2>1, <2>2, BuiltPackets DEF SlaveFirstTxDone, SlaveListens, RxDone, masterVars
<1>14. CASE SlaveRx /\ UNCHANGED masterVars
  <2> DEFINE q == IF LetsGo("slave") THEN Answer(rx_payload["slave"].cmd) ELSE tx_buffer["slave"]
  <2>1. Answer(rx_payload["slave"].cmd) \in Packet
    BY AnswerType
  <2>2. WithBits(q, Flow("slave")) \in Packet
    BY <2>1, FlowFacts, WithBitsFacts
  <2>3. tx_buffer' = [tx_buffer EXCEPT !["slave"] = WithBits(q, Flow("slave"))]
    BY <1>14 DEF SlaveRx
  <2>4. Answers \in BOOLEAN /\ RunFlow("slave", Answers)
    BY <1>14 DEF SlaveRx, Answers
  <2> HIDE DEF q
  <2>5. tx_buffer' \in [Node -> Packet]
    BY <2>2, <2>3
  <2> QED
    BY <1>14, <2>4, <2>5, RunFlowType DEF SlaveRx, SlaveSends, connVars, masterVars
<1>15. CASE SlaveTxDone /\ UNCHANGED masterVars
  <2>1. chnl_map' \in [Node -> SUBSET Channel]
    BY <1>15 DEF SlaveTxDone, Packet
  <2> QED
    BY <1>15, <2>1, NextIdxType, BuiltPackets
    DEF SlaveTxDone, SlaveHop, SlaveListens, RxDone, flowVars, masterVars
<1>16. CASE SlaveFirstTimeout /\ UNCHANGED masterVars
  BY <1>16, AfterTimeoutFacts, CountTimeoutType, NextIdxType
  DEF SlaveFirstTimeout, SlaveHop, SlaveListens, rxVars, connVars, masterVars, Node
<1>17. CASE SlaveUserTask /\ UNCHANGED masterVars
  BY <1>17 DEF SlaveUserTask, radioVars, rxVars, flowVars, masterVars
<1>18. CASE SlaveHears
  <2>1. Arrival("slave", tx_buffer["master"])
    BY <1>18, ArrivalFacts, PeerFacts DEF SlaveHears
  <2> QED
    BY <1>18, <2>1, PeerFacts DEF SlaveHears, MasterOnAir, Arrival, connVars, flowVars, masterVars
<1>19. CASE SlaveMisses
  BY <1>19 DEF SlaveMisses, MasterOnAir, rxVars, connVars, flowVars, masterVars
<1>20. CASE MasterWindowEnds
  BY <1>20 DEF MasterWindowEnds, rxVars, connVars, flowVars, masterVars, slaveVars
<1>21. CASE MasterHears
  <2>1. Arrival("master", tx_buffer["slave"])
    BY <1>21, ArrivalFacts, PeerFacts DEF MasterHears
  <2> QED
    BY <1>21, <2>1, PeerFacts DEF MasterHears, SlaveOnAir, Arrival, connVars, flowVars, masterVars, slaveVars
<1>22. CASE MasterMisses
  BY <1>22 DEF MasterMisses, SlaveOnAir, rxVars, connVars, flowVars, masterVars, slaveVars
<1>23. CASE SlaveWindowEnds
  BY <1>23 DEF SlaveWindowEnds, rxVars, connVars, flowVars, masterVars, slaveVars
<1>24. CASE UNCHANGED vars
  BY <1>24 DEF vars, airVars, radioVars, rxVars, connVars, flowVars, masterVars, slaveVars
<1> QED
  BY <1>1, <1>2, <1>3, <1>4, <1>5, <1>6, <1>7, <1>8, <1>9, <1>10, <1>11, <1>12, <1>13, <1>14, <1>15,
     <1>16, <1>17, <1>18, <1>19, <1>20, <1>21, <1>22, <1>23, <1>24, Zenon
  DEF Next, MasterStep, MasterLoop, SlaveStep, SlaveLoop, SlaveTask, MasterRadio, SlaveRadio
-----------------------------------------------------------------------------
LEMMA LinkInit == Init => LinkInv
<1> SUFFICES ASSUME Init
             PROVE  LinkInv
  OBVIOUS
<1> USE DEF Init, AirInit, MasterInit, SlaveInit
<1>1. LinkType
  <2>1. [n \in Node |-> [NoPacket EXCEPT !.cmd = IF n = "master" THEN LL_SYNC_REQ ELSE LL_SYNC_RSP]]
          \in [Node -> Packet]
    BY BuiltPackets DEF Packet, Cmd
  <2>2. 0 \in Channel
    BY HopAssumption DEF Channel
  <2>3. [n \in Node |-> 1] \in [Node -> Nat]
    OBVIOUS
  <2> QED
    BY <2>1, <2>2, <2>3, BuiltPackets DEF LinkType
<1>2. /\ tx_buffer["master"].cmd = LL_SYNC_REQ /\ tx_buffer["slave"].cmd = LL_SYNC_RSP
      /\ rx_payload["master"].cmd = LL_CMD_START /\ rx_payload["slave"].cmd = LL_CMD_START
  BY BuiltPackets DEF Node, Packet
<1>3. AskedInv
  BY <1>2 DEF AskedInv, Node, LL_SYNC_REQ, LL_SYNC_RSP, LL_CMD_START, LL_CONN_REQ, LL_CONN_RSP, LL_ACCEPTED
<1>4. FreshInv /\ RspInv /\ WaitInv /\ PhaseInv /\ BitsInv /\ FlowInv
  BY DEF FreshInv, RspInv, WaitInv, PhaseInv, BitsInv, FlowInv, Linked, Node
<1> QED
  BY <1>1, <1>3, <1>4 DEF LinkInv

LEMMA LinkStep == LinkInv /\ [Next]_vars => LinkInv'
<1> SUFFICES ASSUME LinkInv, [Next]_vars
             PROVE  AskedInv' /\ FreshInv' /\ RspInv' /\ WaitInv' /\ PhaseInv' /\ BitsInv' /\ FlowInv'
  BY TypeStep DEF LinkInv
<1>0. LinkType /\ LinkType'
  BY TypeStep DEF LinkInv
<1> USE DEF LinkInv, AskedInv, FreshInv, RspInv, WaitInv, PhaseInv, BitsInv, FlowInv, Linked, Carries, Heard,
            Flowing, Node, Peer, LL_CMD_START, LL_SYNC_REQ, LL_SYNC_RSP, LL_ACCEPTED, LL_CONN_REQ,
            LL_CONN_RSP, LL_CHNL_CLASSIFICATION_REQ, LL_CHG_CHNL_MAP_REQ,
            LL_CHNL_CLASSIFICATION_IND, LL_SYNC_DATA
<1>1. CASE MasterTxDone /\ UNCHANGED slaveVars
  <2>1. /\ tx_buffer'["master"] = [tx_buffer["master"] EXCEPT !.ac = tx_buffer'["master"].ac]
        /\ tx_buffer'["master"].ac \in {"zeroed", tx_buffer["master"].ac}
        /\ tx_buffer'["slave"] = tx_buffer["slave"]
    BY <1>1, <1>0 DEF MasterTxDone, LinkType, Packet
  <2>2. /\ tx_buffer'["master"].cmd = tx_buffer["master"].cmd
        /\ tx_buffer'["master"].SN = tx_buffer["master"].SN
        /\ tx_buffer'["master"].NESN = tx_buffer["master"].NESN
    BY <2>1, <1>0 DEF LinkType, Packet
  <2> QED
    BY <1>1, <1>0, <2>1, <2>2
    DEF MasterTxDone, rxVars, connVars, flowVars, masterVars, slaveVars, LinkType
<1>2. CASE MasterSyncRsp /\ UNCHANGED slaveVars
  <2>1. tx_buffer'["master"].cmd = LL_CONN_REQ /\ tx_buffer'["master"].ac = "conn"
    BY <1>2, <1>0, BuiltPackets DEF MasterSyncRsp, LinkType, Packet
  <2> QED
    BY <1>2, <1>0, <2>1, BuiltPackets
    DEF MasterSyncRsp, MasterSees, MasterStart, RxDone, flowVars, slaveVars, LinkType
<1>3. CASE MasterConnRsp /\ UNCHANGED slaveVars
  <2>1. tx_buffer'["master"].cmd = LL_CHNL_CLASSIFICATION_REQ
        /\ tx_buffer'["master"].SN = 0 /\ tx_buffer'["master"].NESN = 0
    BY <1>3, <1>0, BuiltPackets DEF MasterConnRsp, LinkType, Packet, NoPacket
  <2> QED
    BY <1>3, <1>0, <2>1, BuiltPackets
    DEF MasterConnRsp, MasterSees, MasterStart, RxDone, masterVars, slaveVars, LinkType
<1>4. CASE MasterSyncIgnores /\ UNCHANGED slaveVars
  BY <1>4, <1>0, BuiltPackets
  DEF MasterSyncIgnores, MasterSees, RxDone, connVars, flowVars, masterVars, slaveVars, LinkType
<1>5. CASE MasterSyncTimeout /\ UNCHANGED slaveVars
  BY <1>5, <1>0
  DEF MasterSyncTimeout, MasterSees, MasterStart, rxVars, connVars, flowVars, masterVars, slaveVars, LinkType
<1>6. CASE MasterRx /\ UNCHANGED slaveVars
  <2> DEFINE f == Flow("master")
             q == IF LetsGo("master") THEN NewPacket ELSE tx_buffer["master"]
  <2>1. /\ Linked /\ sync_flg["master"] = 1 /\ event["slave"] # "rx"
        /\ Heard("master") /\ Flowing("master") /\ (misled = 0 => Flowing("slave"))
    BY <1>6, <1>0 DEF MasterRx, MasterSees, LinkType
  <2>2. /\ snnesn' = [snnesn EXCEPT !["master"] = [SN |-> f.SN, NESN |-> f.NESN]]
        /\ taken'["master"] = IF LetsGo("master") THEN 0 ELSE taken["master"]
        /\ taken'["slave"] = IF f.RCVD THEN taken["slave"] + 1 ELSE taken["slave"]
        /\ flushed' = [flushed EXCEPT !["master"] = IF LetsGo("master") THEN ~f.SENT ELSE @]
        /\ misled' = misled
    BY <1>6 DEF MasterRx, RunFlow
  <2>3. f.SENT => LetsGo("master")
    BY DEF LetsGo
  <2>4. /\ f.SENT <=> rx_payload["master"].NESN # snnesn["master"].SN
        /\ f.RCVD <=> rx_payload["master"].SN = snnesn["master"].NESN /\ ~rx_crc_err_flag["master"]
        /\ f.SN = IF f.SENT THEN 1 - snnesn["master"].SN ELSE snnesn["master"].SN
        /\ f.NESN = IF f.RCVD THEN 1 - snnesn["master"].NESN ELSE snnesn["master"].NESN
        /\ f.SN \in {0, 1} /\ f.NESN \in {0, 1}
    BY <1>0, FlowFacts
  <2>5. /\ q \in Packet
        /\ q.cmd \in {tx_buffer["master"].cmd, LL_CHG_CHNL_MAP_REQ, LL_SYNC_DATA}
        /\ q.cmd = LL_CONN_REQ => q.ac = tx_buffer["master"].ac
    <3>1. chnl_map'["master"] \in SUBSET Channel /\ tx_buffer["master"] \in Packet
      BY <1>0 DEF LinkType
    <3>2. NewPacket \in Packet /\ NewPacket.cmd \in {LL_CHG_CHNL_MAP_REQ, LL_SYNC_DATA}
      <4> DEFINE r == [NoPacket EXCEPT !.cmd = LL_CHG_CHNL_MAP_REQ, !.chm = chnl_map'["master"], !.len = "APP"]
      <4>1. r \in Packet /\ r.cmd = LL_CHG_CHNL_MAP_REQ
        <5>1. LL_CHG_CHNL_MAP_REQ \in Cmd
          BY DEF Cmd
        <5> QED
          BY <3>1, <5>1, BuiltPackets DEF Packet
      <4> QED
        BY <4>1, BuiltPackets DEF NewPacket
    <3> QED
      BY <3>1, <3>2
  <2>6. tx_buffer' = [tx_buffer EXCEPT !["master"] = WithBits(q, f)]
    BY <1>6 DEF MasterRx
  <2> HIDE DEF f, q
  <2>7. /\ Carries(tx_buffer["master"], "master")'
        /\ tx_buffer'["master"].cmd = q.cmd /\ tx_buffer'["master"].ac = q.ac
        /\ tx_buffer'["slave"] = tx_buffer["slave"]
        /\ snnesn'["slave"] = snnesn["slave"]
        /\ snnesn'["master"].SN = f.SN /\ snnesn'["master"].NESN = f.NESN
    BY <1>0, <2>2, <2>4, <2>5, <2>6, WithBitsFacts DEF LinkType
  <2>8. snnesn["master"].SN \in {0, 1} /\ snnesn["slave"].NESN \in {0, 1} /\ snnesn["master"].NESN \in {0, 1}
        /\ snnesn["slave"].SN \in {0, 1} /\ taken["slave"] \in Nat /\ taken["master"] \in Nat
    BY <1>0 DEF LinkType
  <2>9. Flowing("master")'
    <3>1. CASE LetsGo("master")
      <4>1. taken'["master"] = 0 /\ (flushed'["master"] <=> ~f.SENT)
        BY <3>1, <2>2, <1>0 DEF LinkType
      <4> QED
        BY <4>1, <2>1, <2>2, <2>4, <2>7, <2>8
    <3>2. CASE ~LetsGo("master")
      <4>1. taken'["master"] = taken["master"] /\ flushed'["master"] = flushed["master"] /\ ~f.SENT
        BY <3>2, <2>2, <2>3, <1>0 DEF LinkType
      <4> QED
        BY <4>1, <2>1, <2>2, <2>4, <2>7, <2>8
    <3> QED
      BY <3>1, <3>2
  <2>10. misled' = 0 => Flowing("slave")'
    <3>1. flushed'["slave"] = flushed["slave"]
      BY <2>2, <1>0 DEF LinkType
    <3>2. CASE f.RCVD
      BY <3>1, <3>2, <2>1, <2>2, <2>4, <2>7, <2>8
    <3>3. CASE ~f.RCVD
      BY <3>1, <3>3, <2>1, <2>2, <2>4, <2>7, <2>8
    <3> QED
      BY <3>2, <3>3
  <2>11. /\ sync_flg' = sync_flg /\ sync_first_tx' = sync_first_tx
         /\ radio'["slave"] = radio["slave"] /\ event'["slave"] = event["slave"]
         /\ event'["master"] = "none"
         /\ rx_payload'["slave"] = rx_payload["slave"]
    BY <1>6, <1>0 DEF MasterRx, proc_rx_data, MasterStart, RxDone, slaveVars, LinkType
  <2> QED
    BY <2>1, <2>5, <2>7, <2>9, <2>10, <2>11
<1>7. CASE MasterTimeout /\ UNCHANGED slaveVars
  <2> DEFINE p == AfterTimeout("master")
  <2>1. /\ p \in Packet /\ p.cmd \in {LL_SYNC_DATA, tx_buffer["master"].cmd}
        /\ Carries(tx_buffer["master"], "master") => Carries(p, "master")
        /\ p.cmd = LL_CONN_REQ => p.ac = tx_buffer["master"].ac
    BY <1>0, AfterTimeoutFacts
  <2>2. tx_buffer' = [tx_buffer EXCEPT !["master"] = [p EXCEPT !.data =
            IF need_afh_flag # 1 /\ p.cmd = LL_CHNL_CLASSIFICATION_REQ THEN NextIdx("master") ELSE @]]
    BY <1>7 DEF MasterTimeout
  <2> HIDE DEF p
  <2>3. /\ tx_buffer'["master"].cmd = p.cmd /\ tx_buffer'["master"].ac = p.ac
        /\ tx_buffer'["master"].SN = p.SN /\ tx_buffer'["master"].NESN = p.NESN
        /\ tx_buffer'["slave"] = tx_buffer["slave"]
    BY <2>1, <2>2, <1>0 DEF LinkType, Packet
  <2>4. /\ snnesn' = snnesn /\ taken'["slave"] = taken["slave"] /\ flushed'["slave"] = flushed["slave"]
        /\ \/ taken'["master"] = taken["master"] /\ flushed'["master"] = flushed["master"]
           \/ taken'["master"] = 0 /\ flushed'["master"]
    BY <1>7, <1>0 DEF MasterTimeout, CountTimeout, LinkType
  <2>5. sync_flg["master"] = 1 /\ event["master"] = "timeout"
    BY <1>7 DEF MasterTimeout, MasterSees
  <2>6. /\ sync_flg' = sync_flg /\ rx_payload' = rx_payload /\ misled' = misled
        /\ rx_crc_err_flag' = rx_crc_err_flag
        /\ sync_first_tx' = sync_first_tx /\ rxTimed' = rxTimed /\ ac' = ac
        /\ radio'["slave"] = radio["slave"] /\ event'["slave"] = event["slave"]
        /\ event'["master"] = "none"
    BY <1>7, <1>0 DEF MasterTimeout, MasterStart, rxVars, connVars, slaveVars, LinkType
  <2>7. AskedInv' /\ FreshInv' /\ RspInv' /\ WaitInv' /\ PhaseInv' /\ BitsInv'
    BY <2>1, <2>3, <2>4, <2>5, <2>6
  <2> QED
    BY <2>4, <2>6, <2>7
<1>8. CASE SlaveSyncReq /\ UNCHANGED masterVars
  BY <1>8, <1>0, BuiltPackets
  DEF SlaveSyncReq, SlaveSees, SlaveSends, RxDone, connVars, flowVars, slaveVars, masterVars, LinkType, Packet
<1>9. CASE SlaveSyncRspSent /\ UNCHANGED masterVars
  BY <1>9, <1>0
  DEF SlaveSyncRspSent, SlaveSees, SlaveListens, rxVars, connVars, flowVars, masterVars, LinkType, Packet
<1>10. CASE SlaveConnReq /\ UNCHANGED masterVars
  BY <1>10, <1>0 DEF SlaveConnReq, SlaveSees, SlaveSends, rxVars, flowVars, masterVars, LinkType, Packet
<1>11. CASE SlaveSyncIgnores /\ UNCHANGED masterVars
  BY <1>11, <1>0, BuiltPackets
  DEF SlaveSyncIgnores, SlaveSees, RxDone, connVars, flowVars, slaveVars, masterVars, LinkType
<1>12. CASE SlaveSyncTimeout /\ UNCHANGED masterVars
  BY <1>12, <1>0
  DEF SlaveSyncTimeout, SlaveSees, SlaveListens, rxVars, connVars, flowVars, masterVars, LinkType
<1>13. CASE SlaveFirstTxDone /\ UNCHANGED masterVars
  <2>1. /\ sync_flg["slave"] = 1 /\ sync_first_tx = 1 /\ event["slave"] = "tx_done"
        /\ rx_payload["slave"].ac # "sync" /\ taken["slave"] = 1
    BY <1>13 DEF SlaveFirstTxDone, SlaveSees
  <2>2. /\ sync_flg' = sync_flg /\ taken' = taken /\ flushed' = flushed /\ misled' = misled
        /\ rx_crc_err_flag' = rx_crc_err_flag
        /\ tx_buffer'["master"] = tx_buffer["master"]
        /\ rx_payload'["master"] = rx_payload["master"] /\ rx_payload'["slave"].cmd = LL_CMD_START
        /\ snnesn'["master"] = snnesn["master"]
        /\ event'["master"] = event["master"] /\ event'["slave"] = "none"
        /\ radio'["master"] = radio["master"]
    BY <1>13, <1>0, BuiltPackets DEF SlaveFirstTxDone, SlaveListens, RxDone, masterVars, LinkType
  <2>3. CASE rx_payload["slave"].chm = {}
    <3>1. UNCHANGED <<radio, rxTimed, sync_first_tx, ac, snnesn, tx_buffer>>
      BY <1>13, <2>3 DEF SlaveFirstTxDone
    <3>2. radio["slave"] # "tx"
      BY <2>1
    <3> QED
      BY <2>1, <2>2, <3>1, <3>2
  <2>4. CASE rx_payload["slave"].chm # {}
    <3>1. /\ sync_first_tx' = 0 /\ ac' # "sync" /\ rxTimed' = FALSE
          /\ radio'["slave"] = "rx" /\ snnesn'["slave"] = [SN |-> 1, NESN |-> 0]
      BY <1>13, <1>0, <2>1, <2>4 DEF SlaveFirstTxDone, SlaveListens, LinkType
    <3> QED
      BY <2>1, <2>2, <3>1
  <2> QED
    BY <2>3, <2>4
<1>14. CASE SlaveRx /\ UNCHANGED masterVars
  <2> DEFINE f == Flow("slave")
             q == IF LetsGo("slave") THEN Answer(rx_payload["slave"].cmd) ELSE tx_buffer["slave"]
  <2>1. /\ Linked /\ sync_flg["master"] = 1 /\ event["master"] # "rx"
        /\ Heard("slave") /\ Flowing("master") /\ (misled = 0 => Flowing("slave"))
        /\ misled = 0 => rx_payload["slave"].cmd # LL_ACCEPTED
    BY <1>14, <1>0 DEF SlaveRx, SlaveSees, LinkType
  <2>2. /\ snnesn' = [snnesn EXCEPT !["slave"] = [SN |-> f.SN, NESN |-> f.NESN]]
        /\ taken'["slave"] = IF Answers THEN 0 ELSE taken["slave"]
        /\ taken'["master"] = IF f.RCVD THEN taken["master"] + 1 ELSE taken["master"]
        /\ flushed' = [flushed EXCEPT !["slave"] = IF Answers THEN ~f.SENT ELSE @]
        /\ misled' = misled
    BY <1>14 DEF SlaveRx, RunFlow
  <2>3. misled = 0 /\ f.SENT => Answers
    BY <2>1 DEF LetsGo, Answers
  <2>4. /\ f.SENT <=> rx_payload["slave"].NESN # snnesn["slave"].SN
        /\ f.RCVD <=> rx_payload["slave"].SN = snnesn["slave"].NESN /\ ~rx_crc_err_flag["slave"]
        /\ f.SN = IF f.SENT THEN 1 - snnesn["slave"].SN ELSE snnesn["slave"].SN
        /\ f.NESN = IF f.RCVD THEN 1 - snnesn["slave"].NESN ELSE snnesn["slave"].NESN
        /\ f.SN \in {0, 1} /\ f.NESN \in {0, 1}
    BY <1>0, FlowFacts
  <2>5. tx_buffer' = [tx_buffer EXCEPT !["slave"] = WithBits(q, f)]
    BY <1>14 DEF SlaveRx
  <2>q. q \in Packet
    BY <1>0, AnswerType DEF LinkType
  <2> HIDE DEF f, q
  <2>6. WithBits(q, f) = tx_buffer'["slave"] /\ tx_buffer'["master"] = tx_buffer["master"]
    BY <2>5, <1>0 DEF LinkType
  <2>7. /\ Carries(tx_buffer["slave"], "slave")'
        /\ snnesn'["master"] = snnesn["master"]
        /\ snnesn'["slave"].SN = f.SN /\ snnesn'["slave"].NESN = f.NESN
    <3>1. tx_buffer'["slave"].SN = f.SN /\ tx_buffer'["slave"].NESN = f.NESN
      BY <2>4, <2>6, <2>q, WithBitsFacts
    <3>2. /\ snnesn'["slave"] = [SN |-> f.SN, NESN |-> f.NESN]
          /\ snnesn'["master"] = snnesn["master"]
      BY <1>0, <2>2 DEF LinkType
    <3> QED
      BY <3>1, <3>2
  <2>8. snnesn["master"].SN \in {0, 1} /\ snnesn["slave"].NESN \in {0, 1} /\ snnesn["master"].NESN \in {0, 1}
        /\ snnesn["slave"].SN \in {0, 1} /\ taken["slave"] \in Nat /\ taken["master"] \in Nat
    BY <1>0 DEF LinkType
  <2>9. misled' = 0 => Flowing("slave")'
    <3>1. CASE Answers
      <4>1. taken'["slave"] = 0 /\ (flushed'["slave"] <=> ~f.SENT)
        BY <3>1, <2>2, <1>0 DEF LinkType
      <4> QED
        BY <4>1, <2>1, <2>2, <2>4, <2>7, <2>8
    <3>2. CASE ~Answers
      <4>1. taken'["slave"] = taken["slave"] /\ flushed'["slave"] = flushed["slave"]
            /\ (misled = 0 => ~f.SENT)
        BY <3>2, <2>2, <2>3, <1>0 DEF LinkType
      <4> QED
        BY <4>1, <2>1, <2>2, <2>4, <2>7, <2>8
    <3> QED
      BY <3>1, <3>2
  <2>10. Flowing("master")'
    <3>1. flushed'["master"] = flushed["master"]
      BY <2>2, <1>0 DEF LinkType
    <3>2. CASE f.RCVD
      BY <3>1, <3>2, <2>1, <2>2, <2>4, <2>7, <2>8
    <3>3. CASE ~f.RCVD
      BY <3>1, <3>3, <2>1, <2>2, <2>4, <2>7, <2>8
    <3> QED
      BY <3>2, <3>3
  <2>11. /\ sync_flg' = sync_flg /\ sync_first_tx' = sync_first_tx
         /\ event'["slave"] = "none" /\ event'["master"] = event["master"]
         /\ rx_payload' = rx_payload
    BY <1>14, <1>0 DEF SlaveRx, SlaveSends, connVars, LinkType
  <2> QED
    BY <2>1, <2>6, <2>7, <2>9, <2>10, <2>11
<1>15. CASE SlaveTxDone /\ UNCHANGED masterVars
  BY <1>15, <1>0, BuiltPackets
  DEF SlaveTxDone, SlaveSees, SlaveListens, RxDone, flowVars, masterVars, LinkType
<1>16. CASE SlaveFirstTimeout /\ UNCHANGED masterVars
  <2>1. Linked /\ sync_flg["master"] = 1 /\ event["slave"] = "timeout"
    BY <1>16, <1>0 DEF SlaveFirstTimeout, SlaveSees, LinkType
  <2>2. /\ snnesn' = snnesn /\ taken'["master"] = taken["master"] /\ flushed'["master"] = flushed["master"]
        /\ \/ taken'["slave"] = taken["slave"] /\ flushed'["slave"] = flushed["slave"]
           \/ taken'["slave"] = 0 /\ flushed'["slave"]
    BY <1>16, <1>0 DEF SlaveFirstTimeout, CountTimeout, LinkType
  <2>3. /\ sync_flg' = sync_flg /\ rx_payload' = rx_payload /\ misled' = misled
        /\ rx_crc_err_flag' = rx_crc_err_flag
        /\ sync_first_tx' = sync_first_tx
        /\ tx_buffer'["master"] = tx_buffer["master"]
        /\ radio'["slave"] = "rx" /\ event'["slave"] = "none"
        /\ event'["master"] = event["master"]
    BY <1>16, <1>0 DEF SlaveFirstTimeout, SlaveListens, rxVars, connVars, LinkType
  <2>4. AskedInv' /\ FreshInv' /\ RspInv' /\ WaitInv' /\ PhaseInv' /\ BitsInv'
    BY <2>1, <2>2, <2>3
  <2> QED
    BY <2>2, <2>3, <2>4
<1>17. CASE SlaveUserTask /\ UNCHANGED masterVars
  BY <1>17 DEF SlaveUserTask, radioVars, rxVars, flowVars, masterVars
<1>18. CASE SlaveHears
  <2>1. Arrival("slave", tx_buffer["master"])
    BY <1>18, <1>0, ArrivalFacts, PeerFacts DEF SlaveHears
  <2>2. radio["slave"] = "rx" /\ (sync_flg["slave"] = 1 => sync_flg["master"] = 1 /\ Linked)
    <3>1. TunedMaster = TunedSlave /\ radio["slave"] = "rx"
      BY <1>18 DEF SlaveHears
    <3>2. ASSUME sync_flg["master"] = 0, Linked
          PROVE  FALSE
      BY <3>1, <3>2 DEF TunedMaster, TunedSlave, Tuned
    <3> QED
      BY <3>1, <3>2, <1>0 DEF LinkType
  <2>3. /\ UNCHANGED <<sync_flg, sync_first_tx, tx_buffer, snnesn, taken, flushed>>
        /\ radio'["master"] = "rx" /\ radio'["slave"] = "off"
    BY <1>18, <1>0 DEF SlaveHears, MasterOnAir, connVars, flowVars, LinkType
  <2>4. /\ event'["slave"] = "rx" /\ event'["master"] = "tx_done"
        /\ rx_payload'["master"] = rx_payload["master"]
        /\ rx_crc_err_flag'["master"] = rx_crc_err_flag["master"]
        /\ ~rx_crc_err_flag'["slave"] => rx_payload'["slave"] = tx_buffer["master"]
        /\ misled' = 0 => misled = 0 /\ rx_payload'["slave"] = tx_buffer["master"]
        /\ rx_payload'["slave"].cmd = LL_CONN_REQ => rx_payload'["slave"].ac # "sync"
    BY <2>1, <1>0 DEF Arrival, LinkType
  <2> QED
    BY <2>2, <2>3, <2>4
<1>19. CASE SlaveMisses
  BY <1>19, <1>0 DEF SlaveMisses, SlaveReady, MasterOnAir, rxVars, connVars, flowVars, masterVars, LinkType
<1>20. CASE MasterWindowEnds
  BY <1>20, <1>0 DEF MasterWindowEnds, rxVars, connVars, flowVars, masterVars, slaveVars, LinkType
<1>21. CASE MasterHears
  <2>1. Arrival("master", tx_buffer["slave"])
    BY <1>21, <1>0, ArrivalFacts, PeerFacts DEF MasterHears
  <2>2. radio["slave"] = "tx" /\ (sync_flg["master"] = 1 => Linked)
    BY <1>21, <1>0 DEF MasterHears, SlaveOnAir, LinkType
  <2>3. /\ UNCHANGED <<sync_flg, sync_first_tx, tx_buffer, snnesn, taken, flushed>>
        /\ radio'["slave"] = "off"
    BY <1>21, <1>0 DEF MasterHears, SlaveOnAir, connVars, flowVars, slaveVars, LinkType
  <2>4. /\ event'["master"] = "rx" /\ event'["slave"] = "tx_done"
        /\ rx_payload'["slave"] = rx_payload["slave"]
        /\ rx_crc_err_flag'["slave"] = rx_crc_err_flag["slave"]
        /\ ~rx_crc_err_flag'["master"] => rx_payload'["master"] = tx_buffer["slave"]
        /\ misled' = 0 => misled = 0 /\ rx_payload'["master"] = tx_buffer["slave"]
        /\ rx_payload'["master"].cmd = LL_CONN_RSP => tx_buffer["slave"].cmd = LL_CONN_RSP
    BY <2>1, <1>0 DEF Arrival, LinkType
  <2> QED
    BY <2>2, <2>3, <2>4
<1>22. CASE MasterMisses
  BY <1>22, <1>0 DEF MasterMisses, SlaveOnAir, rxVars, connVars, flowVars, masterVars, slaveVars, LinkType
<1>23. CASE SlaveWindowEnds
  BY <1>23, <1>0 DEF SlaveWindowEnds, rxVars, connVars, flowVars, masterVars, slaveVars, LinkType
<1>24. CASE UNCHANGED vars
  BY <1>24 DEF vars, airVars, radioVars, rxVars, connVars, flowVars, masterVars, slaveVars
<1> QED
  BY <1>1, <1>2, <1>3, <1>4, <1>5, <1>6, <1>7, <1>8, <1>9, <1>10, <1>11, <1>12, <1>13, <1>14, <1>15,
     <1>16, <1>17, <1>18, <1>19, <1>20, <1>21, <1>22, <1>23, <1>24, Zenon
  DEF Next, MasterStep, MasterLoop, SlaveStep, SlaveLoop, SlaveTask, MasterRadio, SlaveRadio
-----------------------------------------------------------------------------
(* LinkInv holds throughout. *)
THEOREM LinkInvariant == Spec => []LinkInv
  BY LinkInit, LinkStep, PTL DEF Spec

(* No packet is taken twice, whatever is lost: FlowInv counts what was taken
   while the two are connected, FreshInv and WaitInv before. *)
THEOREM PacketsTakenOnce == Spec => []TakenOnce
<1>1. LinkInv => TakenOnce
  <2> SUFFICES ASSUME LinkInv
               PROVE  TakenOnce
    OBVIOUS
  <2>1. sync_flg["master"] \in {0, 1} /\ sync_flg["slave"] \in {0, 1}
    BY DEF LinkInv, LinkType, Node
  <2>2. taken["master"] <= 1
    BY <2>1 DEF LinkInv, FreshInv, FlowInv, Flowing
  <2>3. misled = 0 => taken["slave"] <= 1
    BY <2>1 DEF LinkInv, FreshInv, WaitInv, FlowInv, Flowing
  <2> QED
    BY <2>2, <2>3 DEF TakenOnce
<1> QED
  BY <1>1, LinkInvariant, PTL

(* The SN of a connected node changes only when ll_flow_process finds the other
   bit in the peer's NESN, which BitsInv and FlowInv relate to taken, or when the
   slave sets it for its first packet. *)
LEMMA AckStep ==
    LinkInv /\ [Next]_vars =>
      \A n \in Node :
         sync_flg[n] = 1 /\ snnesn'[n].SN # snnesn[n].SN
           => taken[n] > 0 \/ flushed[n] \/ misled > 0
<1> SUFFICES ASSUME LinkInv, [Next]_vars, NEW n \in Node,
                    sync_flg[n] = 1, snnesn'[n].SN # snnesn[n].SN,
                    ~(taken[n] > 0 \/ flushed[n] \/ misled > 0)
             PROVE  FALSE
  OBVIOUS
<1>0. LinkType /\ taken[n] = 0 /\ ~flushed[n] /\ misled = 0
  BY DEF LinkInv, LinkType
<1>1. CASE MasterConnRsp
  BY <1>1, <1>0 DEF MasterConnRsp, MasterSees, LinkType, Node
<1>2. CASE MasterRx
  <2>1. n = "master" /\ Flow(n).SENT
    BY <1>2, <1>0, FlowFacts DEF MasterRx, RunFlow, LinkType, Node
  <2>2. Heard("master") /\ Flowing("master")
    BY <1>2 DEF MasterRx, MasterSees, LinkInv, BitsInv, FlowInv
  <2> QED
    BY <2>1, <2>2, <1>0, FlowFacts DEF Heard, Flowing
<1>3. CASE SlaveFirstTxDone
  <2>1. \/ snnesn' = snnesn
        \/ snnesn' = [snnesn EXCEPT !["slave"] = [SN |-> 1, NESN |-> 0]]
    BY <1>3 DEF SlaveFirstTxDone
  <2>2. n = "slave" /\ ~Linked
    BY <1>3, <2>1, <1>0 DEF SlaveFirstTxDone, LinkType, Node, Linked
  <2> QED
    BY <2>2, <1>0 DEF LinkInv, FreshInv
<1>4. CASE SlaveRx
  <2>1. n = "slave" /\ Flow(n).SENT
    BY <1>4, <1>0, FlowFacts DEF SlaveRx, RunFlow, LinkType, Node
  <2>2. sync_flg["slave"] = 1 /\ event["slave"] = "rx"
    BY <1>4 DEF SlaveRx, SlaveSees
  <2>3. Linked /\ sync_flg["master"] = 1
    BY <2>2, <1>0 DEF LinkInv, RspInv, WaitInv, LinkType, Node, Linked
  <2>4. Heard("slave") /\ Flowing("slave")
    BY <2>2, <2>3, <1>0 DEF LinkInv, BitsInv, FlowInv
  <2> QED
    BY <2>1, <2>4, <1>0, FlowFacts DEF Heard, Flowing
<1>5. CASE UNCHANGED snnesn
  BY <1>5
<1>6. SlaveHears \/ SlaveMisses \/ SlaveWindowEnds \/ MasterHears \/ MasterMisses \/ MasterWindowEnds
        => UNCHANGED snnesn
  BY DEF SlaveHears, SlaveMisses, MasterOnAir, SlaveWindowEnds, MasterHears, MasterMisses, SlaveOnAir,
         MasterWindowEnds, flowVars
<1>7. MasterTxDone \/ MasterSyncRsp \/ MasterSyncIgnores \/ MasterSyncTimeout \/ MasterTimeout
        => UNCHANGED snnesn
  BY DEF MasterTxDone, MasterSyncRsp, MasterSyncIgnores, MasterSyncTimeout, MasterTimeout,
         CountTimeout, flowVars
<1>8. SlaveSyncReq \/ SlaveSyncRspSent \/ SlaveConnReq \/ SlaveSyncIgnores \/ SlaveSyncTimeout
        \/ SlaveTxDone \/ SlaveFirstTimeout \/ SlaveUserTask
        => UNCHANGED snnesn
  BY DEF SlaveSyncReq, SlaveSyncRspSent, SlaveConnReq, SlaveSyncIgnores, SlaveSyncTimeout, SlaveTxDone,
         SlaveFirstTimeout, SlaveUserTask, CountTimeout, flowVars
<1>9. UNCHANGED vars => UNCHANGED snnesn
  BY DEF vars, airVars, flowVars
<1> QED
  BY <1>1, <1>2, <1>3, <1>4, <1>5, <1>6, <1>7, <1>8, <1>9, Zenon
  DEF Next, MasterStep, MasterLoop, SlaveStep, SlaveLoop, SlaveTask, MasterRadio, SlaveRadio

(* A packet is let go as acknowledged only if the peer has taken it, but for
   auto flush and garbled bits. *)
THEOREM AcksAreTrue == Spec => AckedOnlyIfTaken
<1>1. LinkInv /\ [Next]_vars =>
        [\A n \in Node :
           sync_flg[n] = 1 /\ snnesn'[n].SN # snnesn[n].SN
             => taken[n] > 0 \/ flushed[n] \/ misled > 0]_vars
  BY AckStep
<1> QED
  BY <1>1, LinkInvariant, PTL DEF Spec, AckedOnlyIfTaken
(* While a slave is stranded nothing but the master's handshake goes on, and the
   two are never on the same sync word. *)
LEMMA StrandedStep == LinkInv /\ [Next]_vars => (Stranded => Stranded')
<1> SUFFICES ASSUME LinkInv, [Next]_vars, Stranded
             PROVE  Stranded'
  OBVIOUS
<1>0. /\ LinkType
      /\ Linked /\ sync_flg["master"] = 0 /\ event["master"] # "rx"
      /\ radio["slave"] = "rx" /\ event["slave"] = "none" /\ ~rxTimed /\ ac # "sync"
  BY DEF LinkInv, WaitInv, Stranded, Linked
<1> USE DEF Stranded, SlaveReady, Linked, Node
<1>1. ~MasterSyncRsp /\ ~MasterConnRsp /\ ~MasterSyncIgnores /\ ~MasterRx /\ ~MasterTimeout
  BY <1>0 DEF MasterSyncRsp, MasterConnRsp, MasterSyncIgnores, MasterRx, MasterTimeout, MasterSees
<1>2. ~SlaveLoop
  BY <1>0 DEF SlaveLoop, SlaveSyncReq, SlaveSyncRspSent, SlaveConnReq, SlaveSyncIgnores, SlaveSyncTimeout,
     SlaveFirstTxDone, SlaveRx, SlaveTxDone, SlaveFirstTimeout, SlaveSees
<1>3. ~SlaveRadio
  BY <1>0 DEF SlaveRadio, MasterHears, MasterMisses, SlaveOnAir, SlaveWindowEnds
<1>4. ~SlaveHears
  <2>1. TunedMaster # TunedSlave
    BY <1>0 DEF TunedMaster, TunedSlave, Tuned
  <2> QED
    BY <2>1 DEF SlaveHears
<1>5. CASE MasterTxDone /\ UNCHANGED slaveVars
  BY <1>5, <1>0 DEF MasterTxDone, connVars, slaveVars, LinkType
<1>6. CASE MasterSyncTimeout /\ UNCHANGED slaveVars
  BY <1>6, <1>0 DEF MasterSyncTimeout, MasterStart, connVars, slaveVars, LinkType
<1>7. CASE SlaveUserTask
  BY <1>7, <1>0 DEF SlaveUserTask, radioVars
<1>8. CASE SlaveMisses
  BY <1>8, <1>0 DEF SlaveMisses, MasterOnAir, connVars, LinkType
<1>9. CASE MasterWindowEnds
  BY <1>9, <1>0 DEF MasterWindowEnds, connVars, slaveVars, LinkType
<1>10. CASE UNCHANGED vars
  BY <1>10, <1>0 DEF vars, airVars, radioVars, connVars, slaveVars
<1> QED
  BY <1>1, <1>2, <1>3, <1>4, <1>5, <1>6, <1>7, <1>8, <1>9, <1>10, Zenon
  DEF Next, MasterStep, MasterLoop, SlaveStep, SlaveTask, MasterRadio

(* A slave whose LL_CONN_RSP was lost waits for ever. *)
THEOREM StrandedSlaveStays == Spec => StrandedForGood
<1>1. LinkInv /\ [Next]_vars => [Stranded => Stranded']_vars
  BY StrandedStep
<1> QED
  BY <1>1, LinkInvariant, PTL DEF Spec, StrandedForGood
-----------------------------------------------------------------------------
(* How far index a is ahead of index b, and the index after a. *)
Lead(a, b) == (a - b) % TOTAL_NB_CHNNEL
After(a) == (a + 1) % TOTAL_NB_CHNNEL

LEMMA LeadIs ==
    ASSUME NEW a \in Channel, NEW b \in Channel
    PROVE  /\ TOTAL_NB_CHNNEL \in Nat \ {0}
           /\ a \in Int /\ 0 <= a /\ a < TOTAL_NB_CHNNEL
           /\ Lead(a, b) \in Channel /\ After(a) \in Channel
           /\ Lead(a, b) = IF a >= b THEN a - b ELSE a - b + TOTAL_NB_CHNNEL
           /\ After(a) = IF a + 1 = TOTAL_NB_CHNNEL THEN 0 ELSE a + 1
<1>0. TOTAL_NB_CHNNEL \in Nat \ {0} /\ Channel = 0 .. TOTAL_NB_CHNNEL - 1
  BY HopAssumption DEF Channel
<1>1. (a - b) % TOTAL_NB_CHNNEL = IF a >= b THEN a - b ELSE a - b + TOTAL_NB_CHNNEL
  BY <1>0
<1>2. (a + 1) % TOTAL_NB_CHNNEL = IF a + 1 = TOTAL_NB_CHNNEL THEN 0 ELSE a + 1
  BY <1>0
<1> QED
  BY <1>0, <1>1, <1>2 DEF Lead, After

LEMMA LeadFacts ==
    ASSUME NEW a \in Channel, NEW b \in Channel
    PROVE  /\ Lead(a, b) \in Channel /\ After(a) \in Channel
           /\ Lead(After(a), b) = After(Lead(a, b))
           /\ After(Lead(a, After(b))) = Lead(a, b)
<1>1. After(a) \in Channel /\ After(b) \in Channel /\ Lead(a, b) \in Channel
  BY LeadIs
<1>2. Lead(a, After(b)) \in Channel
  BY <1>1, LeadIs
<1> DEFINE N == TOTAL_NB_CHNNEL
           l == Lead(a, b)
           aa == After(a)
           bb == After(b)
           lb == Lead(a, bb)
<1>3. N \in Nat \ {0} /\ a \in Int /\ 0 <= a /\ a < N /\ b \in Int /\ 0 <= b /\ b < N
  BY LeadIs
<1>4. /\ l = IF a >= b THEN a - b ELSE a - b + N
      /\ aa = IF a + 1 = N THEN 0 ELSE a + 1
      /\ bb = IF b + 1 = N THEN 0 ELSE b + 1
  BY LeadIs
<1>5. After(l) = IF l + 1 = N THEN 0 ELSE l + 1
  BY <1>1, LeadIs
<1>6. Lead(aa, b) = IF aa >= b THEN aa - b ELSE aa - b + N
  BY <1>1, LeadIs
<1>7. lb = IF a >= bb THEN a - bb ELSE a - bb + N
  BY <1>1, LeadIs
<1>8. After(lb) = IF lb + 1 = N THEN 0 ELSE lb + 1
  BY <1>2, LeadIs
<1> HIDE DEF N, l, aa, bb, lb
<1>9. Lead(aa, b) = After(l)
  BY <1>3, <1>4, <1>5, <1>6
<1>10. After(lb) = l
  BY <1>3, <1>4, <1>7, <1>8
<1> QED
  BY <1>1, <1>9, <1>10 DEF l, aa, bb, lb

LEMMA AfterInjective ==
    ASSUME NEW a \in Channel, NEW b \in Channel, After(a) = After(b)
    PROVE  a = b
<1> DEFINE N == TOTAL_NB_CHNNEL
           x == After(a)
<1>1. (x = IF a + 1 = N THEN 0 ELSE a + 1) /\ a \in Int /\ 0 <= a
  BY LeadIs
<1>2. (After(b) = IF b + 1 = N THEN 0 ELSE b + 1) /\ b \in Int /\ 0 <= b /\ N \in Int
  BY LeadIs
<1>3. x = After(b)
  OBVIOUS
<1> HIDE DEF N, x
<1> QED
  BY <1>1, <1>2, <1>3

(* Since the slave has heard a packet of data it listens with a timeout, so that
   for each of the master's packets each of the two hops once: the one that
   hops first is one index off until the other does. *)
Ahead == Lead(chnn_idx["master"], chnn_idx["slave"])

Apart ==
    IF radio["master"] = "tx"
    THEN Ahead = IF SlaveReady THEN lag ELSE After(lag)
    ELSE lag = IF SlaveReady THEN After(Ahead) ELSE Ahead

TogetherInv ==
    /\ event["master"] # "none" => radio["master"] # "tx"
    /\ lag # -1 =>
         /\ lag \in Channel
         /\ Linked /\ sync_flg["master"] = 1
         /\ SlaveReady => radio["slave"] = "rx" /\ rxTimed
         /\ Apart

LEMMA TogetherStep == LinkInv /\ TogetherInv /\ [Next]_vars => TogetherInv'
<1> SUFFICES ASSUME LinkInv, TogetherInv, [Next]_vars
             PROVE  TogetherInv'
  OBVIOUS
<1>0. LinkType /\ (chnn_idx["master"] \in Channel /\ chnn_idx["slave"] \in Channel)
      /\ "master" \in Node /\ "slave" \in Node
  BY DEF LinkInv, LinkType, Node
<1>l. /\ Ahead \in Channel
      /\ Lead(After(chnn_idx["master"]), chnn_idx["slave"]) = After(Ahead)
      /\ After(Lead(chnn_idx["master"], After(chnn_idx["slave"]))) = Ahead
  BY <1>0, LeadFacts DEF Ahead
<1>n. NextIdx("master") = After(chnn_idx["master"]) /\ NextIdx("slave") = After(chnn_idx["slave"])
  BY DEF NextIdx, After
<1> USE DEF TogetherInv, Apart, Ahead, SlaveReady, Linked
<1>1. CASE MasterTxDone /\ UNCHANGED slaveVars
  BY <1>1, <1>0 DEF MasterTxDone, connVars, slaveVars, LinkType
<1>2. CASE MasterSyncRsp /\ UNCHANGED slaveVars
  BY <1>2, <1>0 DEF MasterSyncRsp, MasterSees, MasterStart, slaveVars, LinkType
<1>3. CASE MasterConnRsp /\ UNCHANGED slaveVars
  BY <1>3, <1>0 DEF MasterConnRsp, MasterSees, MasterStart, slaveVars, LinkType
<1>4. CASE MasterSyncIgnores /\ UNCHANGED slaveVars
  BY <1>4, <1>0 DEF MasterSyncIgnores, MasterSees, connVars, slaveVars, LinkType
<1>5. CASE MasterSyncTimeout /\ UNCHANGED slaveVars
  BY <1>5, <1>0 DEF MasterSyncTimeout, MasterSees, MasterStart, connVars, slaveVars, LinkType
<1>6. CASE (MasterRx \/ MasterTimeout) /\ UNCHANGED slaveVars
  <2>1. /\ chnn_idx'["master"] = After(chnn_idx["master"]) /\ chnn_idx'["slave"] = chnn_idx["slave"]
        /\ radio'["master"] = "tx" /\ radio'["slave"] = radio["slave"]
        /\ event'["master"] = "none" /\ event'["slave"] = event["slave"]
        /\ UNCHANGED <<sync_flg, sync_first_tx, lag, rxTimed>>
        /\ radio["master"] # "tx"
    BY <1>6, <1>0, <1>n
    DEF MasterRx, MasterTimeout, MasterSees, MasterStart, proc_rx_data, connVars, slaveVars, LinkType
  <2> QED
    BY <2>1, <1>l
<1>8. CASE (SlaveSyncReq \/ SlaveSyncIgnores) /\ UNCHANGED masterVars
  BY <1>8, <1>0 DEF SlaveSyncReq, SlaveSyncIgnores, SlaveSees, SlaveSends, connVars, slaveVars, LinkType
<1>9. CASE (SlaveSyncRspSent \/ SlaveSyncTimeout) /\ UNCHANGED masterVars
  BY <1>9, <1>0 DEF SlaveSyncRspSent, SlaveSyncTimeout, SlaveSees, SlaveListens, connVars, LinkType
<1>10. CASE SlaveConnReq /\ UNCHANGED masterVars
  BY <1>10, <1>0 DEF SlaveConnReq, SlaveSees, SlaveSends, LinkType
<1>13. CASE SlaveFirstTxDone /\ UNCHANGED masterVars
  <2>1. lag = -1 /\ lag' = lag /\ event'["master"] = event["master"] /\ radio'["master"] = radio["master"]
    BY <1>13, <1>0 DEF SlaveFirstTxDone, SlaveListens, LinkType
  <2> QED
    BY <2>1
<1>14. CASE SlaveRx /\ UNCHANGED masterVars
  <2>1. /\ radio' = [radio EXCEPT !["slave"] = "tx"] /\ event' = [event EXCEPT !["slave"] = "none"]
        /\ UNCHANGED <<sync_flg, sync_first_tx, chnn_idx>>
        /\ lag' = IF lag = -1 THEN Ahead ELSE lag
    BY <1>14 DEF SlaveRx, SlaveSends, connVars, Lead
  <2>2. /\ radio["master"] = "rx" /\ Linked /\ sync_flg["master"] = 1 /\ event["slave"] = "rx"
    BY <1>14, <1>0 DEF SlaveRx, SlaveSees, LinkInv, PhaseInv, RspInv, WaitInv, LinkType, Node
  <2>3. /\ radio'["slave"] = "tx" /\ radio'["master"] = "rx"
        /\ event'["slave"] = "none" /\ event'["master"] = event["master"]
        /\ ~SlaveReady /\ ~SlaveReady'
    BY <2>1, <2>2, <1>0 DEF LinkType
  <2>4. Ahead' = Ahead /\ Linked' /\ sync_flg'["master"] = 1
    BY <2>1, <2>2
  <2>5. lag' = Ahead /\ lag' \in Channel
    BY <2>1, <2>2, <2>3, <1>l
  <2>6. Apart'
    <3> HIDE DEF Ahead, SlaveReady, Linked
    <3> QED
      BY <2>3, <2>4, <2>5
  <2>7. event'["master"] # "none" => radio'["master"] # "tx"
    BY <2>3
  <2> HIDE DEF Ahead, SlaveReady, Linked, Apart
  <2> QED
    BY <2>3, <2>4, <2>5, <2>6, <2>7, Zenon
<1>15. CASE (SlaveTxDone \/ SlaveFirstTimeout) /\ UNCHANGED masterVars
  <2>1. /\ chnn_idx'["slave"] = After(chnn_idx["slave"]) /\ chnn_idx'["master"] = chnn_idx["master"]
        /\ radio'["slave"] = "rx" /\ radio'["master"] = radio["master"]
        /\ event'["slave"] = "none" /\ event'["master"] = event["master"]
        /\ UNCHANGED <<sync_flg, sync_first_tx, lag>> /\ rxTimed'
        /\ event["slave"] # "none"
    BY <1>15, <1>0, <1>n
    DEF SlaveTxDone, SlaveFirstTimeout, SlaveSees, SlaveHop, SlaveListens, connVars, LinkType
  <2>2. Ahead' \in Channel /\ After(Ahead') = Ahead
    BY <2>1, <1>0, <1>l, LeadFacts
  <2>3. lag \in Channel /\ After(Ahead') = After(lag) => Ahead' = lag
    BY <2>2, AfterInjective
  <2>4. ~SlaveReady /\ SlaveReady' /\ (Linked' <=> Linked)
    BY <2>1
  <2> HIDE DEF Ahead, SlaveReady, Linked
  <2> QED
    BY <2>1, <2>2, <2>3, <2>4
<1>17. CASE SlaveUserTask /\ UNCHANGED masterVars
  BY <1>17 DEF SlaveUserTask, radioVars
<1>18. CASE SlaveHears
  <2>1. Arrival("slave", tx_buffer["master"])
    BY <1>18, <1>0, ArrivalFacts, PeerFacts DEF SlaveHears
  <2> QED
    BY <1>18, <2>1, <1>0, PeerFacts DEF SlaveHears, MasterOnAir, Arrival, connVars, LinkType
<1>19. CASE SlaveMisses
  BY <1>19, <1>0 DEF SlaveMisses, MasterOnAir, connVars, LinkType
<1>20. CASE MasterWindowEnds
  BY <1>20, <1>0 DEF MasterWindowEnds, connVars, slaveVars, LinkType
<1>21. CASE MasterHears
  <2>1. Arrival("master", tx_buffer["slave"])
    BY <1>21, <1>0, ArrivalFacts, PeerFacts DEF MasterHears
  <2> QED
    BY <1>21, <2>1, <1>0, PeerFacts DEF MasterHears, SlaveOnAir, Arrival, connVars, slaveVars, LinkType
<1>22. CASE MasterMisses
  BY <1>22, <1>0 DEF MasterMisses, SlaveOnAir, connVars, slaveVars, LinkType
<1>23. CASE SlaveWindowEnds
  BY <1>23, <1>0 DEF SlaveWindowEnds, connVars, slaveVars, LinkType
<1>24. CASE UNCHANGED vars
  BY <1>24 DEF vars, airVars, radioVars, connVars, slaveVars
<1> QED
  BY <1>1, <1>2, <1>3, <1>4, <1>5, <1>6, <1>8, <1>9, <1>10, <1>13, <1>14, <1>15,
     <1>17, <1>18, <1>19, <1>20, <1>21, <1>22, <1>23, <1>24, Zenon
  DEF Next, MasterStep, MasterLoop, SlaveStep, SlaveLoop, SlaveTask, MasterRadio, SlaveRadio

LEMMA TogetherInit == Init => TogetherInv
  BY DEF Init, AirInit, SlaveInit, TogetherInv, Node

(* The master's packets and the slave's windows stay as many indices apart as
   they were when the first of them was heard: TogetherInv says who of the two
   has hopped already. *)
THEOREM HopsStayTogether == Spec => []HopTogether
<1>1. TogetherInv => HopTogether
  BY DEF TogetherInv, HopTogether, Apart, Ahead, Lead
<1> QED
  BY <1>1, TogetherInit, TogetherStep, LinkInvariant, PTL DEF Spec
-----------------------------------------------------------------------------
(* A finite set of channels with the place of each: how many are smaller. *)
Below(S, c) == {d \in S : d < c}

LEMMA ChannelSets ==
    ASSUME NEW S \in SUBSET Channel
    PROVE  /\ IsFiniteSet(S) /\ Cardinality(S) \in Nat
           /\ \A c : IsFiniteSet(Below(S, c)) /\ Cardinality(Below(S, c)) \in Nat
           /\ Channel \subseteq Nat
<1>1. IsFiniteSet(Channel) /\ Channel \subseteq Nat
  <2>1. TOTAL_NB_CHNNEL - 1 \in Int /\ 0 \in Int
    BY HopAssumption
  <2> QED
    BY <2>1, FS_Interval DEF Channel
<1>2. ASSUME NEW T \in SUBSET Channel
      PROVE  IsFiniteSet(T) /\ Cardinality(T) \in Nat
  BY <1>1, FS_Subset, FS_CardinalityType
<1>3. \A c : Below(S, c) \in SUBSET Channel
  BY DEF Below
<1> QED
  BY <1>1, <1>2, <1>3

(* A nonempty set of channels has a smallest one. *)
LEMMA SmallestChannel ==
    ASSUME NEW S \in SUBSET Channel, S # {}
    PROVE  \E s \in S : \A t \in S : s <= t
<1> DEFINE less == OpToRel(<, Nat)
<1>1. S \subseteq Nat
  BY ChannelSets
<1>2. \E s \in S : \A t \in S : <<t, s>> \notin less
  <2> HIDE DEF less
  <2>1. IsWellFoundedOn(less, Nat)
    BY NatLessThanWellFounded DEF less
  <2> QED
    BY <1>1, <2>1, WFMin
<1>3. ASSUME NEW s \in S, NEW t \in S, <<t, s>> \notin less
      PROVE  s <= t
  BY <1>1, <1>3 DEF OpToRel
<1> QED
  BY <1>2, <1>3

(* The next place is that of the next greater element. *)
LEMMA NextPlace ==
    ASSUME NEW S \in SUBSET Channel, NEW c \in S, {d \in S : c < d} # {}
    PROVE  \E e \in S : Cardinality(Below(S, e)) = Cardinality(Below(S, c)) + 1
<1>1. PICK e \in {d \in S : c < d} : \A t \in {d \in S : c < d} : e <= t
  BY SmallestChannel
<1>2. S \subseteq Nat
  BY ChannelSets
<1>3. Below(S, e) = Below(S, c) \cup {c}
  <2>1. e \in S /\ c < e /\ \A t \in S : c < t => e <= t
    BY <1>1
  <2>2. ASSUME NEW d \in S
        PROVE  d < e <=> d < c \/ d = c
    <3>1. c \in Nat /\ e \in Nat /\ d \in Nat
      BY <1>2, <2>1
    <3> QED
      BY <2>1, <3>1
  <2> QED
    BY <2>2 DEF Below
<1>4. c \notin Below(S, c)
  BY <1>2 DEF Below
<1>5. Cardinality(Below(S, c) \cup {c}) = Cardinality(Below(S, c)) + 1
  BY <1>4, ChannelSets, FS_AddElement
<1> QED
  BY <1>1, <1>3, <1>5

(* Every place up to the number of elements is taken. *)
LEMMA PlacesTaken ==
    ASSUME NEW S \in SUBSET Channel, NEW i \in Nat, i < Cardinality(S)
    PROVE  \E c \in S : Cardinality(Below(S, c)) = i
<1> DEFINE less == OpToRel(<, Nat)
           missing == {j \in Nat : j < Cardinality(S) /\ \A c \in S : Cardinality(Below(S, c)) # j}
<1>1. Cardinality(S) \in Nat /\ S \subseteq Nat /\ IsFiniteSet(S)
  BY ChannelSets
<1>2. SUFFICES ASSUME missing # {}
               PROVE  FALSE
  OBVIOUS
<1>3. \E s \in missing : \A t \in missing : <<t, s>> \notin less
  <2>1. IsWellFoundedOn(less, Nat)
    BY NatLessThanWellFounded
  <2> HIDE DEF less
  <2> QED
    BY <1>2, <2>1, WFMin
<1>4. PICK j \in missing : \A t \in missing : <<t, j>> \notin less
  BY <1>3
<1>5. j \in Nat /\ j < Cardinality(S) /\ \A c \in S : Cardinality(Below(S, c)) # j
  BY <1>4
<1>6. CASE j = 0
  <2>1. S # {}
    BY <1>1, <1>5, FS_EmptySet
  <2>2. PICK s \in S : \A t \in S : s <= t
    BY <2>1, SmallestChannel
  <2>3. Below(S, s) = {}
    <3>1. ASSUME NEW d \in S
          PROVE  ~(d < s)
      <4>1. d \in Nat /\ s \in Nat /\ s <= d
        BY <1>1, <2>2
      <4> QED
        BY <4>1
    <3> QED
      BY <3>1 DEF Below
  <2> QED
    BY <1>5, <1>6, <2>3, FS_EmptySet
<1>7. CASE j # 0
  <2>1. j - 1 \in Nat /\ j - 1 < j /\ j - 1 < Cardinality(S)
    BY <1>1, <1>5, <1>7
  <2>2. <<j - 1, j>> \in less
    BY <1>5, <2>1 DEF OpToRel
  <2>3. PICK c \in S : Cardinality(Below(S, c)) = j - 1
    BY <1>4, <2>1, <2>2
  <2>4. {d \in S : c < d} # {}
    <3>1. SUFFICES ASSUME {d \in S : c < d} = {}
                   PROVE  FALSE
      OBVIOUS
    <3>2. S = Below(S, c) \cup {c} /\ c \notin Below(S, c)
      <4>1. ASSUME NEW d \in S
            PROVE  d < c \/ d = c
        <5>1. d \in Nat /\ c \in Nat /\ ~(c < d)
          BY <1>1, <3>1
        <5> QED
          BY <5>1
      <4>2. ~(c < c)
        BY <1>1
      <4> QED
        BY <4>1, <4>2 DEF Below
    <3>3. Cardinality(S) = j - 1 + 1
      BY <2>3, <3>2, ChannelSets, FS_AddElement
    <3> QED
      BY <1>1, <1>5, <3>3
  <2>5. PICK e \in S : Cardinality(Below(S, e)) = j - 1 + 1
    BY <2>3, <2>4, NextPlace
  <2> QED
    BY <1>5, <2>5
<1> QED
  BY <1>6, <1>7

LEMMA NthFacts ==
    ASSUME NEW S \in SUBSET Channel, NEW i \in Nat, i < Cardinality(S)
    PROVE  Nth(S, i) \in S /\ Cardinality(Below(S, Nth(S, i))) = i
<1>1. \E c \in S : Cardinality({d \in S : d < c}) = i
  BY PlacesTaken DEF Below
<1> QED
  BY <1>1 DEF Nth, Below

(* No two elements have the same place. *)
LEMMA PlacesDiffer ==
    ASSUME NEW S \in SUBSET Channel, NEW c \in S, NEW e \in S, c < e
    PROVE  Cardinality(Below(S, c)) < Cardinality(Below(S, e))
<1>1. c \in Nat /\ e \in Nat /\ S \subseteq Nat
  BY ChannelSets
<1>2. Below(S, c) \cup {c} \subseteq Below(S, e) /\ c \notin Below(S, c)
  <2>1. ASSUME NEW d \in S, d < c
        PROVE  d < e
    <3>1. d \in Nat
      BY <1>1
    <3> QED
      BY <1>1, <2>1, <3>1
  <2>2. ~(c < c)
    BY <1>1
  <2> QED
    BY <2>1, <2>2 DEF Below
<1>3. Cardinality(Below(S, c) \cup {c}) = Cardinality(Below(S, c)) + 1
  BY <1>2, ChannelSets, FS_AddElement
<1>4. Cardinality(Below(S, c) \cup {c}) <= Cardinality(Below(S, e))
  BY <1>2, ChannelSets, FS_Subset
<1>5. Cardinality(Below(S, c)) \in Nat /\ Cardinality(Below(S, e)) \in Nat
  BY ChannelSets
<1> QED
  BY <1>3, <1>4, <1>5

(* Every element is the one at its place. *)
LEMMA NthOfPlace ==
    ASSUME NEW S \in SUBSET Channel, NEW c \in S
    PROVE  /\ Cardinality(Below(S, c)) \in 0 .. Cardinality(S) - 1
           /\ Nth(S, Cardinality(Below(S, c))) = c
<1> DEFINE i == Cardinality(Below(S, c))
           e == Nth(S, i)
<1>1. S \subseteq Nat /\ i \in Nat /\ Cardinality(S) \in Nat
  BY ChannelSets
<1>2. i < Cardinality(S)
  <2>1. Below(S, c) \subseteq S \ {c}
    BY <1>1 DEF Below
  <2>2. Cardinality(S \ {c}) = Cardinality(S) - 1 /\ IsFiniteSet(S \ {c})
    BY ChannelSets, FS_RemoveElement
  <2>3. i <= Cardinality(S) - 1
    BY <2>1, <2>2, FS_Subset
  <2> QED
    BY <1>1, <2>3
<1>3. e \in S /\ Cardinality(Below(S, e)) = i
  BY <1>1, <1>2, NthFacts
<1>4. ~(e < c) /\ ~(c < e)
  <2> HIDE DEF e
  <2> QED
    BY <1>1, <1>3, PlacesDiffer
<1>5. e \in Nat /\ c \in Nat
  BY <1>1, <1>3
<1> HIDE DEF e, i
<1>6. e = c
  BY <1>4, <1>5
<1> QED
  BY <1>1, <1>2, <1>6 DEF e, i

(* The table has a channel for every index. *)
LEMMA TableType ==
    ASSUME NEW map \in SUBSET Channel, map # {}
    PROVE  chn_table_calc(map, AFH_HOP) \in [Channel -> Channel]
<1> DEFINE K(i) == ((i + 1) * AFH_HOP) % TOTAL_NB_CHNNEL
           n == Cardinality(map)
<1>1. n \in Nat \ {0} /\ Channel \subseteq Nat
  BY ChannelSets, FS_EmptySet
<1>2. ASSUME NEW i \in Channel
      PROVE  (IF K(i) \in map THEN K(i) ELSE Nth(map, K(i) % n)) \in Channel
  <2>1. (i + 1) * AFH_HOP \in Int /\ TOTAL_NB_CHNNEL \in Nat \ {0}
    BY <1>1, HopAssumption
  <2>2. K(i) \in Nat
    BY <2>1
  <2>3. K(i) % n \in Nat /\ K(i) % n < n
    BY <1>1, <2>2
  <2> HIDE DEF K
  <2>4. Nth(map, K(i) % n) \in map
    BY <2>3, NthFacts
  <2> QED
    BY <2>4
<1> HIDE DEF K
<1> QED
  BY <1>2 DEF chn_table_calc, K
-----------------------------------------------------------------------------
(* refresh_chnl_map of the master is never called: no LL_CHG_CHNL_MAP_REQ is ever
   sent, nor does one come before the slave but by a CRC error. *)
NoMapChange ==
    /\ need_afh_flag # 1
    /\ tx_buffer["master"].cmd # LL_CHG_CHNL_MAP_REQ
    /\ misled = 0 => rx_payload["slave"].cmd # LL_CHG_CHNL_MAP_REQ

(* The bound on the packets that a CRC error changes is kept. *)
LEMMA MisledBound ==
    ASSUME LinkType, misled \in 0 .. MaxMisled,
           NEW n \in Node, ArrivesWhole(n) \/ ArrivesGarbled(n)
    PROVE  misled' \in 0 .. MaxMisled
<1>0. misled \in Nat /\ MaxMisled \in Nat
  BY HopAssumption DEF LinkType
<1>1. CASE ArrivesWhole(n)
  BY <1>1 DEF ArrivesWhole
<1>2. CASE ArrivesGarbled(n)
  <2>1. misled' \in {misled, misled + 1} /\ misled' <= MaxMisled
    BY <1>2 DEF ArrivesGarbled
  <2> QED
    BY <1>0, <2>1
<1> QED
  BY <1>1, <1>2

LEMMA NoMapChangeStep == LinkInv /\ NoMapChange /\ [Next]_vars => NoMapChange'
<1> SUFFICES ASSUME LinkInv, NoMapChange, [Next]_vars
             PROVE  NoMapChange'
  OBVIOUS
<1>0. LinkType /\ LinkType'
  BY TypeStep DEF LinkInv
<1> USE DEF NoMapChange, Node, LL_CMD_START, LL_SYNC_REQ, LL_SYNC_RSP, LL_ACCEPTED, LL_CONN_REQ,
            LL_CONN_RSP, LL_CHNL_CLASSIFICATION_REQ, LL_CHG_CHNL_MAP_REQ,
            LL_CHNL_CLASSIFICATION_IND, LL_SYNC_DATA
<1>n. NoPacket.cmd = 0 /\ DataPacket.cmd = 20
  BY DEF NoPacket, DataPacket
<1>1. CASE MasterTxDone /\ UNCHANGED slaveVars
  BY <1>1, <1>0 DEF MasterTxDone, rxVars, masterVars, LinkType, Packet
<1>2. CASE MasterSyncRsp /\ UNCHANGED slaveVars
  <2>1. tx_buffer'["master"].cmd = LL_CONN_REQ
    BY <1>2, <1>0, BuiltPackets DEF MasterSyncRsp, LinkType, Packet
  <2> QED
    BY <1>2, <1>0, <1>n, <2>1 DEF MasterSyncRsp, RxDone, LinkType
<1>3. CASE MasterConnRsp /\ UNCHANGED slaveVars
  <2>1. tx_buffer'["master"].cmd = LL_CHNL_CLASSIFICATION_REQ
    BY <1>3, <1>0, BuiltPackets DEF MasterConnRsp, LinkType, Packet
  <2> QED
    BY <1>3, <1>0, <1>n, <2>1 DEF MasterConnRsp, RxDone, masterVars, LinkType
<1>4. CASE MasterSyncIgnores /\ UNCHANGED slaveVars
  BY <1>4, <1>0, <1>n DEF MasterSyncIgnores, RxDone, masterVars, LinkType
<1>5. CASE MasterSyncTimeout /\ UNCHANGED slaveVars
  BY <1>5 DEF MasterSyncTimeout, rxVars, masterVars
<1>6. CASE MasterRx /\ UNCHANGED slaveVars
  <2> DEFINE q == IF LetsGo("master") THEN NewPacket ELSE tx_buffer["master"]
  <2>1. need_afh_flag' # 1
    BY <1>6 DEF MasterRx, proc_rx_data, refresh_chnl_abd
  <2>2. q \in Packet /\ q.cmd # LL_CHG_CHNL_MAP_REQ
    BY <2>1, <1>0, <1>n, BuiltPackets DEF NewPacket, LinkType
  <2>3. tx_buffer' = [tx_buffer EXCEPT !["master"] = WithBits(q, Flow("master"))]
    BY <1>6 DEF MasterRx
  <2> HIDE DEF q
  <2>4. tx_buffer'["master"].cmd # LL_CHG_CHNL_MAP_REQ
    BY <2>2, <2>3, <1>0, FlowFacts, WithBitsFacts DEF LinkType
  <2> QED
    BY <1>6, <1>0, <1>n, <2>1, <2>4 DEF MasterRx, RxDone, RunFlow, LinkType
<1>7. CASE MasterTimeout /\ UNCHANGED slaveVars
  <2> DEFINE p == AfterTimeout("master")
  <2>1. p \in Packet /\ p.cmd \in {LL_SYNC_DATA, tx_buffer["master"].cmd}
    BY <1>0, AfterTimeoutFacts
  <2>2. tx_buffer' = [tx_buffer EXCEPT !["master"] = [p EXCEPT !.data =
            IF need_afh_flag # 1 /\ p.cmd = LL_CHNL_CLASSIFICATION_REQ THEN NextIdx("master") ELSE @]]
    BY <1>7 DEF MasterTimeout
  <2> HIDE DEF p
  <2>3. tx_buffer'["master"].cmd = p.cmd
    BY <2>1, <2>2, <1>0 DEF LinkType, Packet
  <2> QED
    BY <1>7, <2>1, <2>3 DEF MasterTimeout, rxVars, masterVars
<1>8. CASE SlaveSyncReq /\ UNCHANGED masterVars
  <2>1. tx_buffer'["master"] = tx_buffer["master"]
    BY <1>8, <1>0 DEF SlaveSyncReq, LinkType, Packet
  <2> QED
    BY <1>8, <1>0, <1>n, <2>1 DEF SlaveSyncReq, RxDone, masterVars, LinkType
<1>11. CASE SlaveSyncIgnores /\ UNCHANGED masterVars
  BY <1>11, <1>0, <1>n DEF SlaveSyncIgnores, RxDone, masterVars, LinkType
<1>9. CASE SlaveSyncRspSent /\ UNCHANGED masterVars
  <2>1. tx_buffer'["master"] = tx_buffer["master"]
    BY <1>9, <1>0 DEF SlaveSyncRspSent, LinkType, Packet
  <2> QED
    BY <1>9, <2>1 DEF SlaveSyncRspSent, rxVars, masterVars
<1>12. CASE SlaveSyncTimeout /\ UNCHANGED masterVars
  BY <1>12 DEF SlaveSyncTimeout, rxVars, masterVars
<1>10. CASE SlaveConnReq /\ UNCHANGED masterVars
  <2>1. tx_buffer'["master"] = tx_buffer["master"]
    BY <1>10, <1>0 DEF SlaveConnReq, LinkType
  <2> QED
    BY <1>10, <2>1 DEF SlaveConnReq, rxVars, masterVars
<1>13. CASE SlaveFirstTxDone /\ UNCHANGED masterVars
  <2>1. \/ tx_buffer' = tx_buffer
        \/ tx_buffer' = [tx_buffer EXCEPT !["slave"] = [tx_buffer["slave"] EXCEPT !.cmd = LL_CMD_START]]
    BY <1>13 DEF SlaveFirstTxDone
  <2>2. tx_buffer'["master"] = tx_buffer["master"]
    BY <2>1, <1>0 DEF LinkType, Packet
  <2> QED
    BY <1>13, <1>0, <1>n, <2>2 DEF SlaveFirstTxDone, RxDone, masterVars, LinkType
<1>14. CASE SlaveRx /\ UNCHANGED masterVars
  <2>1. tx_buffer'["master"] = tx_buffer["master"] /\ misled' = misled
    BY <1>14, <1>0 DEF SlaveRx, RunFlow, LinkType
  <2> QED
    BY <1>14, <2>1 DEF SlaveRx, masterVars
<1>15. CASE SlaveTxDone /\ UNCHANGED masterVars
  BY <1>15, <1>0, <1>n DEF SlaveTxDone, RxDone, masterVars, LinkType
<1>16. CASE SlaveFirstTimeout /\ UNCHANGED masterVars
  <2>1. tx_buffer'["master"] = tx_buffer["master"]
    BY <1>16, <1>0 DEF SlaveFirstTimeout, LinkType
  <2> QED
    BY <1>16, <2>1 DEF SlaveFirstTimeout, rxVars, masterVars
<1>17. CASE SlaveUserTask /\ UNCHANGED masterVars
  BY <1>17 DEF SlaveUserTask, rxVars, masterVars
<1>18. CASE SlaveHears
  <2>1. Arrival("slave", tx_buffer["master"])
    BY <1>18, <1>0, ArrivalFacts, PeerFacts DEF SlaveHears
  <2> QED
    BY <1>18, <2>1, <1>0 DEF SlaveHears, MasterOnAir, Arrival, masterVars, LinkType
<1>21. CASE MasterHears
  <2>1. Arrival("master", tx_buffer["slave"])
    BY <1>21, <1>0, ArrivalFacts, PeerFacts DEF MasterHears
  <2> QED
    BY <1>21, <2>1, <1>0 DEF MasterHears, SlaveOnAir, Arrival, masterVars, LinkType
<1>22. CASE SlaveMisses \/ MasterMisses \/ MasterWindowEnds \/ SlaveWindowEnds
  BY <1>22 DEF SlaveMisses, MasterMisses, MasterWindowEnds, SlaveWindowEnds, MasterOnAir, SlaveOnAir,
     rxVars, masterVars
<1>24. CASE UNCHANGED vars
  BY <1>24 DEF vars, airVars, rxVars, masterVars
<1> QED
  BY <1>1, <1>2, <1>3, <1>4, <1>5, <1>6, <1>7, <1>8, <1>9, <1>10, <1>11, <1>12, <1>13, <1>14, <1>15,
     <1>16, <1>17, <1>18, <1>21, <1>22, <1>24, Zenon
  DEF Next, MasterStep, MasterLoop, SlaveStep, SlaveLoop, SlaveTask, MasterRadio, SlaveRadio

(* The types that LinkType leaves out. *)
RestType ==
    /\ broadcast_chnn_idx \in [Node -> 0 .. NB_BROADCAST - 1]
    /\ chnl_tbl \in [Node -> [Channel -> Channel]]
    /\ con_tx_cnt \in [Node -> 0 .. AUTO_FLUSH_CNT_THRES - 1]
    /\ misled \in 0 .. MaxMisled
    /\ MasterTypeOK
    /\ SlaveTypeOK

LEMMA AbandonedType ==
    ASSUME LinkType, MasterTypeOK
    PROVE  Abandoned \in Seq(Channel) /\ Len(Abandoned) < AFH_NB_CHANNEL_ADB /\ Used \in 0 .. 255
<1> DEFINE D == Differing
           n == Cardinality(D)
           new == [i \in 1 .. n |-> Nth(D, i - 1)]
           all == chnl_abd \o new
           k == IF Len(all) < AFH_NB_CHANNEL_ADB THEN Len(all) ELSE AFH_NB_CHANNEL_ADB - 1
<1>1. D \in SUBSET Channel /\ n \in Nat
  <2>1. D \in SUBSET Channel
    BY DEF LinkType, Node, Packet, Differing
  <2> QED
    BY <2>1, ChannelSets
<1>2. AFH_NB_CHANNEL_ADB \in Nat \ {0}
  <2>1. AFH_NB_CHANNEL_MAX \in Nat \ {0}
    BY HopAssumption, ChannelSets, FS_EmptySet
  <2> QED
    BY <2>1 DEF AFH_NB_CHANNEL_ADB, AFH_NB_CHANNEL_MIN
<1>3. new \in Seq(Channel)
  <2>1. ASSUME NEW i \in 1 .. n
        PROVE  Nth(D, i - 1) \in Channel
    <3>1. i - 1 \in Nat /\ i - 1 < n
      BY <1>1
    <3> HIDE DEF D
    <3> QED
      BY <1>1, <3>1, NthFacts
  <2> HIDE DEF D
  <2>2. new \in [1 .. n -> Channel]
    BY <2>1
  <2> QED
    BY <1>1, <2>2
<1>4. chnl_abd \in Seq(Channel) /\ chnl_used \in 0 .. 255
  BY DEF MasterTypeOK
<1> HIDE DEF D, n, new
<1>5. all \in Seq(Channel) /\ Len(all) \in Nat
  BY <1>3, <1>4
<1>6. k \in 0 .. Len(all) /\ k < AFH_NB_CHANNEL_ADB
  <2> HIDE DEF all
  <2> QED
    BY <1>2, <1>5
<1>7. Abandoned = SubSeq(all, 1, k)
  BY DEF Abandoned, D, n, new
<1> HIDE DEF all, k
<1>8. SubSeq(all, 1, k) \in Seq(Channel) /\ Len(SubSeq(all, 1, k)) = k
  BY <1>5, <1>6
<1>9. Used \in 0 .. 255
  <2>1. Used = (chnl_used - n) % 256
    BY DEF Used, n, D
  <2> QED
    BY <1>1, <1>4, <2>1
<1> QED
  BY <1>6, <1>7, <1>8, <1>9
LEMMA RestStep == LinkInv /\ RestType /\ [Next]_vars => RestType'
<1> SUFFICES ASSUME LinkInv, RestType, [Next]_vars
             PROVE  RestType'
  OBVIOUS
<1>0. LinkType /\ "master" \in Node /\ "slave" \in Node
  BY DEF LinkInv, Node
<1>c. /\ NB_BROADCAST \in Nat \ {0} /\ AUTO_FLUSH_CNT_THRES \in Nat \ {0} /\ MaxMisled \in Nat
      /\ TOTAL_NB_CHNNEL \in Nat \ {0} /\ AFH_GOOD_CHNL_QLTY_THRES \in Nat \ {0}
      /\ channel_map \in SUBSET Channel /\ channel_map # {}
      /\ AFH_NB_CHANNEL_MAX \in 0 .. 255
  BY HopAssumption, ChannelSets
<1>r. /\ rx_payload["master"] \in Packet /\ rx_payload["slave"] \in Packet
      /\ rx_payload["slave"].chm \in SUBSET Channel /\ rx_payload["slave"].ac \in Word
      /\ rx_payload["slave"].data \in Nat
  BY <1>0 DEF LinkType, Packet
<1>b. ASSUME NEW n \in Node, NextBroadcast(n)
      PROVE  broadcast_chnn_idx' \in [Node -> 0 .. NB_BROADCAST - 1]
  <2>1. broadcast_chnn_idx[n] \in 0 .. NB_BROADCAST - 1
    BY <1>b DEF RestType
  <2>2. (broadcast_chnn_idx[n] + 1) % NB_BROADCAST \in 0 .. NB_BROADCAST - 1
    BY <2>1, <1>c
  <2> QED
    BY <1>b, <2>2 DEF RestType, NextBroadcast
<1>t. ASSUME NEW n \in Node, NEW map \in SUBSET Channel, map # {},
             chnl_tbl' = [chnl_tbl EXCEPT ![n] = chn_table_calc(map, AFH_HOP)]
      PROVE  chnl_tbl' \in [Node -> [Channel -> Channel]]
  BY <1>t, TableType DEF RestType
<1>f. ASSUME NEW n \in Node, NEW built, RunFlow(n, built)
      PROVE  con_tx_cnt' \in [Node -> 0 .. AUTO_FLUSH_CNT_THRES - 1] /\ misled' = misled
  <2>1. con_tx_cnt[n] \in 0 .. AUTO_FLUSH_CNT_THRES - 1
    BY <1>f DEF RestType
  <2>2. (IF LetsGo(n) THEN 0 ELSE FlowCnt(n)) \in 0 .. AUTO_FLUSH_CNT_THRES - 1
    BY <2>1, <1>c DEF LetsGo, FlowCnt
  <2> QED
    BY <1>f, <2>2 DEF RestType, RunFlow
<1>u. ASSUME NEW n \in Node, CountTimeout(n)
      PROVE  con_tx_cnt' \in [Node -> 0 .. AUTO_FLUSH_CNT_THRES - 1]
  <2>1. con_tx_cnt[n] \in 0 .. AUTO_FLUSH_CNT_THRES - 1
    BY <1>u DEF RestType
  <2>2. (IF TimeoutFlushes(n) THEN 0 ELSE con_tx_cnt[n] + 1) \in 0 .. AUTO_FLUSH_CNT_THRES - 1
    BY <2>1, <1>c DEF TimeoutFlushes
  <2> QED
    BY <1>u, <2>2 DEF RestType, CountTimeout
<1> USE DEF RestType, MasterTypeOK, SlaveTypeOK
<1>1. CASE MasterTxDone /\ UNCHANGED slaveVars
  BY <1>1 DEF MasterTxDone, rxVars, connVars, flowVars, masterVars, slaveVars
<1>2. CASE MasterSyncRsp /\ UNCHANGED slaveVars
  <2>1. /\ broadcast_chnn_idx' \in [Node -> 0 .. NB_BROADCAST - 1]
        /\ chnl_tbl' \in [Node -> [Channel -> Channel]]
    BY <1>2, <1>0, <1>b, <1>c, <1>t DEF MasterSyncRsp
  <2> QED
    BY <1>2, <2>1, <1>c DEF MasterSyncRsp, flowVars, slaveVars
<1>3. CASE MasterConnRsp /\ UNCHANGED slaveVars
  BY <1>3 DEF MasterConnRsp, masterVars, slaveVars
<1>4. CASE MasterSyncIgnores /\ UNCHANGED slaveVars
  BY <1>4 DEF MasterSyncIgnores, connVars, flowVars, masterVars, slaveVars
<1>5. CASE MasterSyncTimeout /\ UNCHANGED slaveVars
  <2>1. broadcast_chnn_idx' \in [Node -> 0 .. NB_BROADCAST - 1]
    BY <1>5, <1>0, <1>b DEF MasterSyncTimeout
  <2> QED
    BY <1>5, <2>1 DEF MasterSyncTimeout, rxVars, connVars, flowVars, masterVars, slaveVars
<1>6. CASE MasterRx /\ UNCHANGED slaveVars
  <2>1. con_tx_cnt' \in [Node -> 0 .. AUTO_FLUSH_CNT_THRES - 1] /\ misled' = misled
    BY <1>6, <1>0, <1>f DEF MasterRx
  <2>2. chnl_tbl' \in [Node -> [Channel -> Channel]]
    <3>1. \/ chnl_tbl' = chnl_tbl
          \/ /\ chnl_map["master"] # {}
             /\ chnl_tbl' = [chnl_tbl EXCEPT !["master"] = chn_table_calc(chnl_map["master"], AFH_HOP)]
      BY <1>6 DEF MasterRx, proc_rx_data, refresh_chnl_abd
    <3>2. chnl_map["master"] \in SUBSET Channel
      BY <1>0 DEF LinkType
    <3> QED
      BY <3>1, <3>2, <1>0, <1>t
  <2>3. /\ need_afh_flag' \in {0, 1, 2}
        /\ chnl_abd' \in Seq(Channel) /\ Len(chnl_abd') < AFH_NB_CHANNEL_ADB
        /\ chnl_used' \in 0 .. 255
    <3>1. /\ need_afh_flag' \in {need_afh_flag, 2}
          /\ \/ chnl_abd' = Abandoned /\ chnl_used' = Used
             \/ chnl_abd' = chnl_abd /\ chnl_used' = chnl_used
      BY <1>6 DEF MasterRx, proc_rx_data, refresh_chnl_abd
    <3>2. Abandoned \in Seq(Channel) /\ Len(Abandoned) < AFH_NB_CHANNEL_ADB /\ Used \in 0 .. 255
      BY <1>0, AbandonedType
    <3> QED
      BY <3>1, <3>2
  <2> QED
    BY <1>6, <2>1, <2>2, <2>3 DEF MasterRx, slaveVars
<1>7. CASE MasterTimeout /\ UNCHANGED slaveVars
  <2>1. con_tx_cnt' \in [Node -> 0 .. AUTO_FLUSH_CNT_THRES - 1]
    BY <1>7, <1>0, <1>u DEF MasterTimeout
  <2> QED
    BY <1>7, <2>1 DEF MasterTimeout, rxVars, connVars, masterVars, slaveVars
<1>8. CASE (SlaveSyncReq \/ SlaveSyncIgnores) /\ UNCHANGED masterVars
  BY <1>8 DEF SlaveSyncReq, SlaveSyncIgnores, connVars, flowVars, slaveVars, masterVars
<1>9. CASE (SlaveSyncRspSent \/ SlaveSyncTimeout) /\ UNCHANGED masterVars
  <2>1. broadcast_chnn_idx' \in [Node -> 0 .. NB_BROADCAST - 1]
    BY <1>9, <1>0, <1>b DEF SlaveSyncRspSent, SlaveSyncTimeout, SlaveNextBroadcast, NextBroadcast
  <2>2. rxTimed' \in BOOLEAN
    BY <1>9 DEF SlaveSyncRspSent, SlaveSyncTimeout, SlaveListens
  <2> QED
    BY <1>9, <2>1, <2>2 DEF SlaveSyncRspSent, SlaveSyncTimeout, rxVars, connVars, flowVars, masterVars
<1>10. CASE SlaveConnReq /\ UNCHANGED masterVars
  BY <1>10 DEF SlaveConnReq, rxVars, flowVars, masterVars
<1>13. CASE SlaveFirstTxDone /\ UNCHANGED masterVars
  <2>1. /\ chnl_tbl' \in [Node -> [Channel -> Channel]]
        /\ rxTimed' \in BOOLEAN /\ sync_first_tx' \in {0, 1} /\ ac' \in Word
    BY <1>13, <1>0, <1>r, <1>t DEF SlaveFirstTxDone, SlaveListens
  <2> QED
    BY <1>13, <2>1 DEF SlaveFirstTxDone, masterVars
<1>14. CASE SlaveRx /\ UNCHANGED masterVars
  <2>1. con_tx_cnt' \in [Node -> 0 .. AUTO_FLUSH_CNT_THRES - 1] /\ misled' = misled
    BY <1>14, <1>0, <1>f DEF SlaveRx
  <2>2. received' \in BOOLEAN
    BY <1>14, <1>0, FlowFacts DEF SlaveRx
  <2>3. need_clsf_flag' \in {0, 1}
    BY <1>14 DEF SlaveRx
  <2>4. reportLost' \in BOOLEAN
    BY <1>14 DEF SlaveRx
  <2>5. lag' \in Channel \cup {-1}
    <3>1. chnn_idx["master"] \in Channel /\ chnn_idx["slave"] \in Channel
      BY <1>0 DEF LinkType
    <3>2. (chnn_idx["master"] - chnn_idx["slave"]) % TOTAL_NB_CHNNEL \in Channel
      BY <3>1, LeadFacts DEF Lead
    <3> QED
      BY <1>14, <3>2 DEF SlaveRx
  <2> QED
    BY <1>14, <2>1, <2>2, <2>3, <2>4, <2>5 DEF SlaveRx, connVars, masterVars
<1>15. CASE SlaveTxDone /\ UNCHANGED masterVars
  <2>1. chnl_tbl' \in [Node -> [Channel -> Channel]]
    BY <1>15, <1>0, <1>r, <1>t DEF SlaveTxDone
  <2>2. afh_mode' \in Nat /\ rxTimed' \in BOOLEAN
    BY <1>15, <1>r DEF SlaveTxDone, SlaveListens
  <2> QED
    BY <1>15, <2>1, <2>2 DEF SlaveTxDone, flowVars, masterVars
<1>16. CASE SlaveFirstTimeout /\ UNCHANGED masterVars
  <2>1. con_tx_cnt' \in [Node -> 0 .. AUTO_FLUSH_CNT_THRES - 1]
    BY <1>16, <1>0, <1>u DEF SlaveFirstTimeout
  <2>2. reportLost' \in BOOLEAN /\ rxTimed' \in BOOLEAN
    BY <1>16 DEF SlaveFirstTimeout, SlaveListens
  <2> QED
    BY <1>16, <2>1, <2>2 DEF SlaveFirstTimeout, rxVars, connVars, masterVars
<1>17. CASE SlaveUserTask /\ UNCHANGED masterVars
  <2>1. qlty' \in [Channel -> AFH_BAD_CHNL_QLTY_THRES .. AFH_GOOD_CHNL_QLTY_THRES]
    BY <1>17, <1>c DEF SlaveUserTask, AFH_BAD_CHNL_QLTY_THRES
  <2> QED
    BY <1>17, <2>1 DEF SlaveUserTask, radioVars, rxVars, flowVars, masterVars
<1>18. CASE SlaveHears
  <2>1. misled' \in 0 .. MaxMisled
    BY <1>18, <1>0, MisledBound DEF SlaveHears, RestType
  <2>2. ASSUME NEW ok \in BOOLEAN, Rated(ok)
        PROVE  qlty' \in [Channel -> AFH_BAD_CHNL_QLTY_THRES .. AFH_GOOD_CHNL_QLTY_THRES]
    <3> DEFINE c == chnl_tbl["slave"][chnn_idx["slave"]]
               q == qlty[c]
    <3>1. c \in Channel
      BY <1>0 DEF LinkType
    <3>2. \/ qlty' = qlty
          \/ q < AFH_GOOD_CHNL_QLTY_THRES /\ qlty' = [qlty EXCEPT ![c] = q + 1]
          \/ q > AFH_BAD_CHNL_QLTY_THRES /\ qlty' = [qlty EXCEPT ![c] = q - 1]
      BY <2>2 DEF Rated
    <3>3. q \in AFH_BAD_CHNL_QLTY_THRES .. AFH_GOOD_CHNL_QLTY_THRES
      BY <3>1
    <3> HIDE DEF c, q
    <3>4. /\ q < AFH_GOOD_CHNL_QLTY_THRES => q + 1 \in AFH_BAD_CHNL_QLTY_THRES .. AFH_GOOD_CHNL_QLTY_THRES
          /\ q > AFH_BAD_CHNL_QLTY_THRES => q - 1 \in AFH_BAD_CHNL_QLTY_THRES .. AFH_GOOD_CHNL_QLTY_THRES
      BY <3>3, <1>c DEF AFH_BAD_CHNL_QLTY_THRES
    <3> QED
      BY <3>2, <3>4
  <2>3. qlty' \in [Channel -> AFH_BAD_CHNL_QLTY_THRES .. AFH_GOOD_CHNL_QLTY_THRES]
    BY <1>18, <2>2 DEF SlaveHears
  <2> QED
    BY <1>18, <2>1, <2>3 DEF SlaveHears, MasterOnAir, connVars, flowVars, masterVars
<1>21. CASE MasterHears
  <2>1. misled' \in 0 .. MaxMisled
    BY <1>21, <1>0, MisledBound DEF MasterHears, RestType
  <2> QED
    BY <1>21, <2>1 DEF MasterHears, SlaveOnAir, connVars, flowVars, masterVars, slaveVars
<1>19. CASE SlaveMisses
  BY <1>19 DEF SlaveMisses, MasterOnAir, rxVars, connVars, flowVars, masterVars
<1>20. CASE MasterWindowEnds
  BY <1>20 DEF MasterWindowEnds, rxVars, connVars, flowVars, masterVars, slaveVars
<1>22. CASE MasterMisses
  BY <1>22 DEF MasterMisses, SlaveOnAir, rxVars, connVars, flowVars, masterVars, slaveVars
<1>23. CASE SlaveWindowEnds
  BY <1>23 DEF SlaveWindowEnds, rxVars, connVars, flowVars, masterVars, slaveVars
<1>24. CASE UNCHANGED vars
  BY <1>24 DEF vars, airVars, radioVars, rxVars, connVars, flowVars, masterVars, slaveVars
<1> QED
  BY <1>1, <1>2, <1>3, <1>4, <1>5, <1>6, <1>7, <1>8, <1>9, <1>10, <1>13, <1>14, <1>15,
     <1>16, <1>17, <1>18, <1>19, <1>20, <1>21, <1>22, <1>23, <1>24, Zenon
  DEF Next, MasterStep, MasterLoop, SlaveStep, SlaveLoop, SlaveTask, MasterRadio, SlaveRadio

LEMMA RestInit == Init => RestType /\ NoMapChange
<1> SUFFICES ASSUME Init
             PROVE  RestType /\ NoMapChange
  OBVIOUS
<1>1. 0 \in Channel /\ 0 \in 0 .. NB_BROADCAST - 1 /\ NB_BROADCAST - 1 \in 0 .. NB_BROADCAST - 1
      /\ 0 \in 0 .. AUTO_FLUSH_CNT_THRES - 1
  <2>1. /\ TOTAL_NB_CHNNEL \in Nat \ {0} /\ NB_BROADCAST \in Nat \ {0}
        /\ AUTO_FLUSH_CNT_THRES \in Nat \ {0}
    BY HopAssumption
  <2> QED
    BY <2>1 DEF Channel
<1>2. 0 < AFH_NB_CHANNEL_ADB
  <2>1. AFH_NB_CHANNEL_MAX \in Nat \ {0}
    BY HopAssumption, ChannelSets, FS_EmptySet
  <2> QED
    BY <2>1 DEF AFH_NB_CHANNEL_ADB, AFH_NB_CHANNEL_MIN
<1>3. 0 \in AFH_BAD_CHNL_QLTY_THRES .. AFH_GOOD_CHNL_QLTY_THRES /\ 0 \in 0 .. MaxMisled
  <2>1. AFH_GOOD_CHNL_QLTY_THRES \in Nat /\ MaxMisled \in Nat
    BY HopAssumption
  <2> QED
    BY <2>1 DEF AFH_BAD_CHNL_QLTY_THRES
<1> USE DEF Init, AirInit, MasterInit, SlaveInit
<1>4. RestType
  <2>1. MasterTypeOK
    BY <1>2 DEF MasterTypeOK
  <2>2. SlaveTypeOK
    BY <1>3 DEF SlaveTypeOK, Word
  <2>3. /\ broadcast_chnn_idx \in [Node -> 0 .. NB_BROADCAST - 1]
        /\ chnl_tbl \in [Node -> [Channel -> Channel]]
        /\ con_tx_cnt \in [Node -> 0 .. AUTO_FLUSH_CNT_THRES - 1]
        /\ misled \in 0 .. MaxMisled
    BY <1>1, <1>3
  <2> QED
    BY <2>1, <2>2, <2>3 DEF RestType
<1>5. NoMapChange
  BY DEF NoMapChange, NoPacket, Node, LL_CHG_CHNL_MAP_REQ, LL_SYNC_REQ, LL_SYNC_RSP, LL_CMD_START
<1> QED
  BY <1>4, <1>5

(* Every variable keeps its type, among them the table of channels, the FIFO of
   abandoned ones and the quality of each, whatever the size of the tables:
   a map that has come to be empty, as the master's may, is never tabulated, for
   then chn_table_calc never returns. *)
THEOREM LinkTypeCorrect == Spec => []TypeOK
<1>1. LinkInv /\ RestType => TypeOK
  BY DEF LinkInv, LinkType, RestType, TypeOK, AirTypeOK
<1> QED
  BY <1>1, RestInit, RestStep, LinkInvariant, PTL DEF Spec
-----------------------------------------------------------------------------
(* The master has the map and the counts that it begins with. *)
Begun ==
    /\ chnl_map["master"] = channel_map
    /\ chnl_used = AFH_NB_CHANNEL_MAX
    /\ chnl_abd = << >>

(* The handshake takes that map to the slave. *)
AskInv ==
    /\ sync_flg["master"] = 0 => chnl_abd = << >>
    /\ \/ sync_first_tx = 1
       \/ /\ sync_flg["master"] = 0
          /\ \/ tx_buffer["master"].cmd = LL_CONN_REQ
             \/ rx_payload["slave"].cmd = LL_CONN_REQ
             \/ sync_flg["slave"] = 1
       => Begun
    /\ tx_buffer["master"].cmd = LL_CONN_REQ => tx_buffer["master"].chm = channel_map
    /\ rx_payload["slave"].cmd = LL_CONN_REQ => rx_payload["slave"].chm = channel_map
    /\ sync_first_tx = 1 /\ (radio["slave"] = "tx" \/ event["slave"] = "tx_done")
         => rx_payload["slave"].cmd = LL_CONN_REQ

(* The master reads a packet before the slave builds the next one. *)
ReadInv ==
    sync_flg["master"] = 1 /\ event["master"] = "rx" =>
      /\ Linked
      /\ rx_payload["master"] = tx_buffer["slave"]
      /\ event["slave"] \in {"none", "tx_done"}

Indicating == tx_buffer["slave"].cmd = LL_CHNL_CLASSIFICATION_IND

(* The slave's map is in its report, and that in the master's map. *)
NestInv ==
    Linked =>
      /\ chnl_map["slave"] \subseteq chnl_map["master"]
      /\ Indicating =>
           /\ chnl_map["slave"] \subseteq tx_buffer["slave"].chm
           /\ tx_buffer["slave"].chm \subseteq chnl_map["master"]

(* What the slave has found out since its last report it has yet to indicate;
   what it has reported the master has taken over, or it is under way. *)
ToldInv ==
    Linked /\ ~reportLost =>
      /\ Indicating => ~flushed["slave"]
      /\ need_clsf_flag = 0 =>
           chnl_map["slave"] = IF Indicating /\ taken["slave"] = 0
                               THEN tx_buffer["slave"].chm ELSE chnl_map["master"]

(* used is the number of channels in map, and abd has exactly those that map has
   lost, as long as there is room for them. *)
Counted(map, used, abd) ==
    /\ map \subseteq channel_map
    /\ used = Cardinality(map)
    /\ Cardinality(channel_map \ map) < AFH_NB_CHANNEL_ADB =>
         /\ Len(abd) = Cardinality(channel_map \ map)
         /\ channel_map \ map = {abd[i] : i \in DOMAIN abd}

CountInv ==
    sync_flg["master"] = 1 => Counted(chnl_map["master"], chnl_used, chnl_abd)

(* A garbled packet that looks like another may name a map of its own. *)
UngarbledInv == AskInv /\ ReadInv /\ NestInv /\ ToldInv /\ CountInv

MapInv == misled = 0 => UngarbledInv

(* The master takes a report over: refresh_chnl_abd. *)
LEMMA TakenOver ==
    ASSUME LinkType, MasterTypeOK, Counted(chnl_map["master"], chnl_used, chnl_abd),
           rx_payload["master"].chm \subseteq chnl_map["master"]
    PROVE  Counted(rx_payload["master"].chm, Used, Abandoned)
<1> DEFINE D == Differing
           n == Cardinality(D)
           map == chnl_map["master"]
           chm == rx_payload["master"].chm
           new == [i \in 1 .. n |-> Nth(D, i - 1)]
           all == chnl_abd \o new
<1>1. /\ chm \subseteq map /\ map \subseteq channel_map /\ channel_map \in SUBSET Channel
      /\ D = map \ chm /\ D \in SUBSET Channel
  BY HopAssumption DEF Counted, Differing
<1>2. /\ IsFiniteSet(map) /\ IsFiniteSet(chm) /\ IsFiniteSet(D) /\ IsFiniteSet(channel_map)
      /\ Cardinality(map) \in Nat /\ Cardinality(chm) \in Nat /\ n \in Nat
      /\ Cardinality(channel_map) \in Nat
  BY <1>1, ChannelSets
<1>3. Cardinality(map) = Cardinality(chm) + n
  <2>1. map = chm \cup D /\ chm \cap D = {}
    BY <1>1
  <2> HIDE DEF map, chm, D
  <2> QED
    BY <1>2, <2>1, FS_Union, FS_EmptySet
<1>4. Used = Cardinality(chm)
  <2>1. Cardinality(map) <= Cardinality(channel_map) /\ Cardinality(channel_map) < 256
    BY <1>1, <1>2, FS_Subset, HopAssumption
  <2>2. Used = (Cardinality(map) - n) % 256
    BY DEF Used, Counted
  <2> HIDE DEF map, chm, D, n
  <2> QED
    BY <1>2, <1>3, <2>1, <2>2
<1>5. ASSUME Cardinality(channel_map \ chm) < AFH_NB_CHANNEL_ADB
      PROVE  /\ Len(Abandoned) = Cardinality(channel_map \ chm)
             /\ channel_map \ chm = {Abandoned[i] : i \in DOMAIN Abandoned}
  <2>1. /\ channel_map \ chm = (channel_map \ map) \cup D
        /\ (channel_map \ map) \cap D = {}
    BY <1>1
  <2>2. IsFiniteSet(channel_map \ map) /\ Cardinality(channel_map \ map) \in Nat
    BY <1>1, ChannelSets
  <2>3. Cardinality(channel_map \ chm) = Cardinality(channel_map \ map) + n
    <3> DEFINE lost == channel_map \ map
    <3>1. IsFiniteSet(lost) /\ Cardinality(lost) \in Nat /\ lost \cap D = {}
      BY <2>1, <2>2
    <3>2. Cardinality(lost \cup D) = Cardinality(lost) + n
      <4> HIDE DEF lost, D
      <4>1. Cardinality(lost \cup D) = Cardinality(lost) + Cardinality(D) - Cardinality(lost \cap D)
        BY <1>2, <3>1, FS_Union
      <4>2. Cardinality(lost \cap D) = 0
        BY <3>1, FS_EmptySet
      <4>3. Cardinality(D) = n /\ n \in Nat
        BY <1>2
      <4> HIDE DEF n
      <4> QED
        BY <3>1, <4>1, <4>2, <4>3
    <3> QED
      BY <2>1, <3>2
  <2>4. AFH_NB_CHANNEL_ADB \in Nat
    <3>1. AFH_NB_CHANNEL_MAX \in Nat \ {0}
      BY HopAssumption, ChannelSets, FS_EmptySet
    <3> QED
      BY <3>1 DEF AFH_NB_CHANNEL_ADB, AFH_NB_CHANNEL_MIN
  <2>5. Cardinality(channel_map \ map) < AFH_NB_CHANNEL_ADB
    <3> HIDE DEF map, chm, D, n
    <3> QED
      BY <1>2, <1>5, <2>2, <2>3, <2>4
  <2>6. /\ Len(chnl_abd) = Cardinality(channel_map \ map)
        /\ channel_map \ map = {chnl_abd[i] : i \in DOMAIN chnl_abd}
    BY <2>5 DEF Counted
  <2>7. chnl_abd \in Seq(Channel) /\ DOMAIN chnl_abd = 1 .. Len(chnl_abd) /\ Len(chnl_abd) \in Nat
    BY DEF MasterTypeOK
  <2>8. /\ new \in Seq(Channel) /\ Len(new) = n /\ DOMAIN new = 1 .. n
        /\ D = {new[i] : i \in 1 .. n}
    <3>1. ASSUME NEW i \in 1 .. n
          PROVE  new[i] \in D
      <4>1. i - 1 \in Nat /\ i - 1 < n
        BY <1>2
      <4> HIDE DEF D
      <4> QED
        BY <1>1, <4>1, NthFacts
    <3>2. ASSUME NEW c \in D
          PROVE  \E i \in 1 .. n : new[i] = c
      <4> DEFINE k == Cardinality(Below(D, c))
      <4>1. k \in 0 .. n - 1 /\ Nth(D, k) = c
        <5> HIDE DEF D
        <5> QED
          BY <1>1, NthOfPlace
      <4> HIDE DEF k, D
      <4>2. k + 1 \in 1 .. n /\ k + 1 - 1 = k
        BY <1>2, <4>1
      <4>3. new[k + 1] = c
        BY <4>1, <4>2
      <4> QED
        BY <4>2, <4>3
    <3>3. new \in [1 .. n -> Channel]
      BY <1>1, <3>1
    <3> HIDE DEF new, D
    <3>4. new \in Seq(Channel) /\ Len(new) = n /\ DOMAIN new = 1 .. n
      BY <1>2, <3>3
    <3> QED
      BY <3>1, <3>2, <3>4
  <2> HIDE DEF new, D, n
  <2>9. /\ Len(all) = Len(chnl_abd) + n /\ all \in Seq(Channel)
        /\ DOMAIN all = 1 .. Len(chnl_abd) + n
    BY <1>2, <2>7, <2>8
  <2>10. Len(all) = Cardinality(channel_map \ chm)
    BY <2>3, <2>6, <2>9
  <2>11. Abandoned = all
    <3>1. Abandoned = SubSeq(all, 1, IF Len(all) < AFH_NB_CHANNEL_ADB THEN Len(all)
                                     ELSE AFH_NB_CHANNEL_ADB - 1)
      BY DEF Abandoned, new, n, D
    <3>2. Abandoned = SubSeq(all, 1, Len(all))
      BY <3>1, <1>5, <2>10
    <3> HIDE DEF all
    <3> QED
      BY <2>9, <3>2
  <2>12. channel_map \ chm = {all[i] : i \in DOMAIN all}
    <3> DEFINE a == Len(chnl_abd)
    <3>1. /\ \A i \in 1 .. a : all[i] = chnl_abd[i]
          /\ \A i \in 1 .. n : all[a + i] = new[i]
      BY <1>2, <2>7, <2>8
    <3>2. a \in Nat /\ DOMAIN all = 1 .. a + n
      BY <2>7, <2>9
    <3>3. channel_map \ map = {chnl_abd[i] : i \in 1 .. a}
      BY <2>6, <2>7
    <3> HIDE DEF all, a
    <3>4. \A j \in 1 .. a + n : all[j] \in (channel_map \ map) \cup D
      <4> TAKE j \in 1 .. a + n
      <4>1. CASE j \in 1 .. a
        BY <4>1, <3>1, <3>3
      <4>2. CASE j \notin 1 .. a
        <5>1. j - a \in 1 .. n /\ j = a + (j - a)
          BY <4>2, <1>2, <3>2
        <5> DEFINE k == j - a
        <5> HIDE DEF k
        <5>2. k \in 1 .. n /\ j = a + k
          BY <5>1 DEF k
        <5> QED
          BY <5>2, <3>1, <2>8
      <4> QED
        BY <4>1, <4>2
    <3>5. ASSUME NEW c \in channel_map \ map
          PROVE  \E j \in 1 .. a + n : all[j] = c
      <4>1. PICK i \in 1 .. a : chnl_abd[i] = c
        BY <3>3, <3>5
      <4>2. i \in 1 .. a + n
        BY <1>2, <3>2
      <4> QED
        BY <4>1, <4>2, <3>1
    <3>6. ASSUME NEW c \in D
          PROVE  \E j \in 1 .. a + n : all[j] = c
      <4>1. PICK i \in 1 .. n : new[i] = c
        BY <2>8
      <4>2. a + i \in 1 .. a + n
        BY <1>2, <3>2
      <4> QED
        BY <4>1, <4>2, <3>1
    <3> HIDE DEF map, chm
    <3> QED
      BY <2>1, <3>2, <3>4, <3>5, <3>6
  <2> QED
    BY <2>10, <2>11, <2>12
<1> QED
  BY <1>1, <1>4, <1>5 DEF Counted
-----------------------------------------------------------------------------
(* Nothing undoes that a garbled packet looked like another. *)
LEMMA MisledStep == LinkType /\ [Next]_vars /\ misled' = 0 => misled = 0
<1> SUFFICES ASSUME LinkType, [Next]_vars, misled' = 0
             PROVE  misled = 0
  OBVIOUS
<1>1. CASE SlaveHears
  BY <1>1, ArrivalFacts DEF SlaveHears, Arrival, Node
<1>2. CASE MasterHears
  BY <1>2, ArrivalFacts DEF MasterHears, Arrival, Node
<1>3. SlaveMisses \/ MasterMisses \/ MasterWindowEnds \/ SlaveWindowEnds => misled' = misled
  BY DEF SlaveMisses, MasterMisses, MasterWindowEnds, SlaveWindowEnds, rxVars
<1>4. MasterLoop => misled' = misled
  BY DEF MasterLoop, MasterTxDone, MasterSyncRsp, MasterConnRsp, MasterSyncIgnores, MasterSyncTimeout,
         MasterRx, MasterTimeout, RunFlow, rxVars
<1>5. SlaveLoop \/ SlaveUserTask => misled' = misled
  BY DEF SlaveLoop, SlaveSyncReq, SlaveSyncRspSent, SlaveConnReq, SlaveSyncIgnores, SlaveSyncTimeout,
         SlaveFirstTxDone, SlaveRx, SlaveTxDone, SlaveFirstTimeout, SlaveUserTask, RunFlow, rxVars
<1>6. UNCHANGED vars => misled' = misled
  BY DEF vars, airVars, rxVars
<1> QED
  BY <1>1, <1>2, <1>3, <1>4, <1>5, <1>6, Zenon
  DEF Next, MasterStep, SlaveStep, SlaveTask, MasterRadio, SlaveRadio

LEMMA MapStep ==
    ASSUME LinkInv, NoMapChange, RestType, TogetherInv, UngarbledInv, misled = 0, misled' = 0, [Next]_vars
    PROVE  UngarbledInv'
<1>0. /\ LinkType /\ LinkType' /\ AskedInv /\ AskedInv' /\ RspInv /\ RspInv' /\ WaitInv /\ WaitInv'
      /\ PhaseInv /\ PhaseInv' /\ BitsInv /\ FlowInv /\ LinkInv'
  BY LinkStep DEF LinkInv
<1>m. MasterTypeOK /\ "master" \in Node /\ "slave" \in Node
  BY DEF RestType, Node
<1>e. event["master"] # "none" => radio["master"] # "tx"
  BY DEF TogetherInv
<1>n. NoPacket.cmd = LL_CMD_START /\ DataPacket.cmd = LL_SYNC_DATA
  BY BuiltPackets
<1> USE DEF UngarbledInv, AskInv, ReadInv, NestInv, ToldInv, CountInv, Begun, Indicating, Linked,
            Node, LL_CMD_START, LL_SYNC_REQ, LL_SYNC_RSP, LL_ACCEPTED, LL_CONN_REQ, LL_CONN_RSP,
            LL_CHNL_CLASSIFICATION_REQ, LL_CHG_CHNL_MAP_REQ, LL_CHNL_CLASSIFICATION_IND, LL_SYNC_DATA
<1>1. CASE MasterTxDone /\ UNCHANGED slaveVars
  <2>1. /\ tx_buffer'["master"].cmd = tx_buffer["master"].cmd
        /\ tx_buffer'["master"].chm = tx_buffer["master"].chm
        /\ tx_buffer'["slave"] = tx_buffer["slave"]
    BY <1>1, <1>0 DEF MasterTxDone, LinkType, Packet
  <2> QED
    BY <1>1, <1>0, <2>1
    DEF MasterTxDone, rxVars, connVars, flowVars, masterVars, slaveVars, LinkType
<1>2. CASE MasterSyncRsp /\ UNCHANGED slaveVars
  <2>1. tx_buffer'["master"].cmd = LL_CONN_REQ /\ tx_buffer'["master"].chm = channel_map
        /\ tx_buffer'["slave"] = tx_buffer["slave"]
    BY <1>2, <1>0, BuiltPackets, HopAssumption DEF MasterSyncRsp, LinkType, Packet
  <2>2. /\ chnl_map'["master"] = channel_map /\ chnl_map'["slave"] = chnl_map["slave"]
        /\ chnl_used' = AFH_NB_CHANNEL_MAX /\ chnl_abd' = chnl_abd
        /\ rx_payload'["slave"] = rx_payload["slave"]
        /\ radio'["slave"] = radio["slave"] /\ event'["slave"] = event["slave"]
        /\ event'["master"] = "none" /\ sync_flg["master"] = 0
        /\ UNCHANGED <<sync_flg, sync_first_tx, taken, flushed, need_clsf_flag, reportLost>>
    BY <1>2, <1>0 DEF MasterSyncRsp, MasterSees, MasterStart, RxDone, flowVars, slaveVars, LinkType
  <2>3. Linked => chnl_map["master"] = channel_map
    BY <2>2
  <2> QED
    BY <1>0, <2>1, <2>2, <2>3
<1>3. CASE MasterConnRsp /\ UNCHANGED slaveVars
  <2>1. sync_flg["master"] = 0 /\ sync_flg["slave"] = 1 /\ Begun
    BY <1>3, <1>0 DEF MasterConnRsp, MasterSees, AskedInv, LinkType
  <2>2. Counted(channel_map, AFH_NB_CHANNEL_MAX, << >>)
    <3>1. channel_map \ channel_map = {} /\ Cardinality({}) = 0
          /\ AFH_NB_CHANNEL_MAX = Cardinality(channel_map)
      BY FS_EmptySet, HopAssumption
    <3>2. {} = {<< >>[i] : i \in DOMAIN << >>} /\ Len(<< >>) = 0
      OBVIOUS
    <3>3. channel_map \subseteq channel_map
      OBVIOUS
    <3> QED
      BY <3>1, <3>2, <3>3, Zenon DEF Counted
  <2>3. /\ UNCHANGED <<chnl_map, chnl_used, chnl_abd, sync_first_tx, flushed, need_clsf_flag, reportLost>>
        /\ sync_flg'["slave"] = sync_flg["slave"] /\ sync_flg'["master"] = 1
        /\ rx_payload'["slave"] = rx_payload["slave"]
        /\ radio'["slave"] = radio["slave"] /\ event'["slave"] = event["slave"]
        /\ event'["master"] = "none" /\ taken'["slave"] = taken["slave"]
        /\ tx_buffer'["slave"] = tx_buffer["slave"]
    BY <1>3, <1>0 DEF MasterConnRsp, MasterSees, MasterStart, RxDone, masterVars, slaveVars, LinkType
  <2>4. tx_buffer'["master"].cmd # LL_CONN_REQ
    BY <1>3, <1>0, BuiltPackets DEF MasterConnRsp, LinkType, Packet
  <2> HIDE DEF Counted
  <2> QED
    BY <2>1, <2>2, <2>3, <2>4
<1>4. CASE MasterSyncIgnores /\ UNCHANGED slaveVars
  BY <1>4, <1>0
  DEF MasterSyncIgnores, MasterSees, RxDone, connVars, flowVars, masterVars, slaveVars, LinkType
<1>5. CASE MasterSyncTimeout /\ UNCHANGED slaveVars
  BY <1>5, <1>0
  DEF MasterSyncTimeout, MasterSees, MasterStart, rxVars, connVars, flowVars, masterVars, slaveVars, LinkType
<1>6. CASE MasterRx /\ UNCHANGED slaveVars
  <2> DEFINE pkt == tx_buffer["slave"]
             rcvd == Flow("master").RCVD
             taking == rcvd /\ pkt.cmd = LL_CHNL_CLASSIFICATION_IND
  <2>1. /\ sync_flg["master"] = 1 /\ event["master"] = "rx"
        /\ Linked /\ rx_payload["master"] = pkt /\ event["slave"] \in {"none", "tx_done"}
    BY <1>6 DEF MasterRx, MasterSees
  <2>2. /\ taking => pkt.chm \subseteq chnl_map["master"] /\ chnl_map["slave"] \subseteq pkt.chm
        /\ chnl_map' = [chnl_map EXCEPT !["master"] = IF taking THEN pkt.chm ELSE chnl_map["master"]]
        /\ chnl_used' = IF taking THEN Used ELSE chnl_used
        /\ chnl_abd' = IF taking THEN Abandoned ELSE chnl_abd
    <3>1. taking => pkt.chm \subseteq chnl_map["master"] /\ chnl_map["slave"] \subseteq pkt.chm
      BY <2>1
    <3>2. CASE taking
      <4>1. chnl_map["master"] \cap pkt.chm = pkt.chm
        BY <3>1, <3>2
      <4>2. refresh_chnl_abd
        BY <1>6, <2>1, <3>2 DEF MasterRx, proc_rx_data
      <4> HIDE DEF taking, pkt
      <4> QED
        BY <2>1, <3>1, <3>2, <4>1, <4>2 DEF refresh_chnl_abd
    <3>3. CASE ~taking
      <4>1. UNCHANGED <<chnl_map, chnl_used, chnl_abd>>
        BY <1>6, <2>1, <3>3 DEF MasterRx, proc_rx_data
      <4> HIDE DEF taking, pkt
      <4> QED
        BY <1>0, <3>1, <3>3, <4>1 DEF LinkType
    <3> QED
      BY <3>2, <3>3
  <2>3. /\ UNCHANGED <<sync_flg, sync_first_tx, need_clsf_flag, reportLost>>
        /\ rx_payload'["slave"] = rx_payload["slave"]
        /\ radio'["slave"] = radio["slave"] /\ event'["slave"] = event["slave"]
        /\ event'["master"] = "none"
        /\ taken'["slave"] = IF rcvd THEN taken["slave"] + 1 ELSE taken["slave"]
        /\ flushed'["slave"] = flushed["slave"]
    BY <1>6, <1>0 DEF MasterRx, MasterStart, proc_rx_data, RunFlow, RxDone, slaveVars, LinkType
  <2>4. tx_buffer'["slave"] = pkt
    BY <1>6, <1>0 DEF MasterRx, LinkType
  <2>5. CountInv'
    <3>1. CASE taking
      <4>1. Counted(rx_payload["master"].chm, Used, Abandoned)
        BY <1>0, <1>m, <2>1, <2>2, <3>1, TakenOver
      <4>2. chnl_map'["master"] = rx_payload["master"].chm /\ chnl_used' = Used /\ chnl_abd' = Abandoned
        BY <1>0, <2>1, <2>2, <3>1 DEF LinkType
      <4> QED
        BY <4>1, <4>2
    <3>2. CASE ~taking
      <4>1. chnl_map'["master"] = chnl_map["master"] /\ chnl_used' = chnl_used /\ chnl_abd' = chnl_abd
        BY <1>0, <2>2, <3>2 DEF LinkType
      <4> QED
        BY <2>1, <4>1
    <3> QED
      BY <3>1, <3>2
  <2>6. /\ chnl_map'["slave"] = chnl_map["slave"]
        /\ chnl_map'["master"] = IF taking THEN pkt.chm ELSE chnl_map["master"]
        /\ taken["slave"] \in Nat
    BY <1>0, <2>2 DEF LinkType
  <2>7. AskInv'
    <3>1. tx_buffer'["master"].cmd = LL_CONN_REQ => tx_buffer'["master"].chm = channel_map
      <4> DEFINE q == IF LetsGo("master") THEN NewPacket ELSE tx_buffer["master"]
      <4>1. need_afh_flag' # 1
        BY <1>6 DEF NoMapChange, MasterRx, proc_rx_data, refresh_chnl_abd
      <4>2. q \in Packet /\ (q.cmd = LL_CONN_REQ => q.chm = channel_map)
        BY <1>0, <1>n, <4>1, BuiltPackets DEF NewPacket, LinkType
      <4>3. tx_buffer' = [tx_buffer EXCEPT !["master"] = WithBits(q, Flow("master"))]
        BY <1>6 DEF MasterRx
      <4> HIDE DEF q
      <4>4. WithBits(q, Flow("master")).cmd = q.cmd /\ WithBits(q, Flow("master")).chm = q.chm
        BY <4>2 DEF WithBits, Packet
      <4> QED
        BY <1>0, <4>2, <4>3, <4>4 DEF LinkType
    <3> QED
      BY <2>1, <2>3, <3>1
  <2>8. ReadInv' /\ NestInv'
    <3> HIDE DEF taking
    <3> QED
      BY <2>1, <2>2, <2>3, <2>4, <2>6 DEF taking
  <2>9. ToldInv'
    <3>1. CASE taking
      <4>1. rcvd /\ taken'["slave"] # 0 /\ chnl_map'["master"] = pkt.chm
        BY <2>3, <2>6, <3>1
      <4>2. pkt.chm \subseteq chnl_map["master"] /\ chnl_map["slave"] \subseteq pkt.chm
        BY <2>2, <3>1
      <4>3. ~reportLost /\ need_clsf_flag = 0 => chnl_map["slave"] = pkt.chm
        BY <2>1, <4>2
      <4>4. tx_buffer'["slave"] = pkt /\ ~(taken'["slave"] = 0)
        BY <2>4, <4>1
      <4> HIDE DEF taking, rcvd, Counted
      <4> QED
        BY <2>1, <2>3, <2>6, <4>1, <4>3, <4>4
    <3>2. CASE rcvd /\ ~taking
      BY <2>1, <2>3, <2>4, <2>6, <3>2
    <3>3. CASE ~rcvd
      BY <2>1, <2>3, <2>4, <2>6, <3>3
    <3> QED
      BY <3>1, <3>2, <3>3
  <2> QED
    BY <2>5, <2>7, <2>8, <2>9
<1>7. CASE MasterTimeout /\ UNCHANGED slaveVars
  <2> DEFINE p == AfterTimeout("master")
  <2>1. p \in Packet /\ (p.cmd = LL_CONN_REQ => p.chm = channel_map)
    <3>1. snnesn["master"].SN \in {0, 1} /\ snnesn["master"].NESN \in {0, 1}
      BY <1>0 DEF LinkType
    <3>2. WithBits(DataPacket, snnesn["master"]).cmd = LL_SYNC_DATA
      BY <3>1, <1>n, BuiltPackets, WithBitsFacts
    <3>3. p \in Packet
      BY <1>0, AfterTimeoutFacts
    <3> QED
      BY <3>2, <3>3 DEF AfterTimeout
  <2>2. tx_buffer' = [tx_buffer EXCEPT !["master"] = [p EXCEPT !.data =
            IF need_afh_flag # 1 /\ p.cmd = LL_CHNL_CLASSIFICATION_REQ THEN NextIdx("master") ELSE @]]
    BY <1>7 DEF MasterTimeout
  <2> HIDE DEF p
  <2>3. tx_buffer'["master"].cmd = p.cmd /\ tx_buffer'["master"].chm = p.chm
        /\ tx_buffer'["slave"] = tx_buffer["slave"]
    BY <2>1, <2>2, <1>0 DEF LinkType, Packet
  <2>4. /\ UNCHANGED <<sync_flg, sync_first_tx, need_clsf_flag, reportLost, rx_payload, chnl_map,
                       chnl_used, chnl_abd>>
        /\ radio'["slave"] = radio["slave"] /\ event'["slave"] = event["slave"]
        /\ event'["master"] = "none"
        /\ taken'["slave"] = taken["slave"] /\ flushed'["slave"] = flushed["slave"]
    BY <1>7, <1>0
    DEF MasterTimeout, MasterStart, CountTimeout, rxVars, connVars, masterVars, slaveVars, LinkType
  <2>5. sync_flg["master"] = 1
    BY <1>7 DEF MasterTimeout, MasterSees
  <2> HIDE DEF Counted
  <2> QED
    BY <2>1, <2>3, <2>4, <2>5
<1>8. CASE SlaveSyncReq /\ UNCHANGED masterVars
  <2>1. tx_buffer'["master"] = tx_buffer["master"]
    BY <1>8, <1>0 DEF SlaveSyncReq, LinkType
  <2>2. /\ sync_flg["slave"] = 0 /\ sync_flg["master"] = 0 /\ sync_first_tx = 0
        /\ UNCHANGED <<sync_flg, sync_first_tx, chnl_map, chnl_used, chnl_abd>>
        /\ rx_payload'["slave"].cmd = LL_CMD_START
    BY <1>8, <1>0, <1>n
    DEF SlaveSyncReq, SlaveSees, RxDone, AskedInv, connVars, slaveVars, masterVars, LinkType
  <2> QED
    BY <2>1, <2>2
<1>9. CASE SlaveSyncRspSent /\ UNCHANGED masterVars
  <2>1. tx_buffer'["master"] = tx_buffer["master"]
    BY <1>9, <1>0 DEF SlaveSyncRspSent, LinkType
  <2> QED
    BY <1>9, <1>0, <2>1
    DEF SlaveSyncRspSent, SlaveSees, SlaveListens, AskedInv, rxVars, connVars, flowVars, masterVars, LinkType
<1>10. CASE SlaveConnReq /\ UNCHANGED masterVars
  <2>1. tx_buffer'["master"] = tx_buffer["master"]
    BY <1>10, <1>0 DEF SlaveConnReq, LinkType
  <2> QED
    BY <1>10, <1>0, <2>1
    DEF SlaveConnReq, SlaveSees, SlaveSends, AskedInv, rxVars, flowVars, masterVars, LinkType
<1>11. CASE SlaveSyncIgnores /\ UNCHANGED masterVars
  BY <1>11, <1>0, <1>n
  DEF SlaveSyncIgnores, SlaveSees, RxDone, AskedInv, connVars, flowVars, slaveVars, masterVars, LinkType
<1>12. CASE SlaveSyncTimeout /\ UNCHANGED masterVars
  BY <1>12, <1>0
  DEF SlaveSyncTimeout, SlaveSees, SlaveListens, AskedInv, rxVars, connVars, flowVars, masterVars, LinkType
<1>13. CASE SlaveFirstTxDone /\ UNCHANGED masterVars
  <2>1. /\ sync_flg["slave"] = 1 /\ sync_first_tx = 1 /\ event["slave"] = "tx_done"
        /\ Begun /\ rx_payload["slave"].chm = channel_map /\ channel_map # {}
        /\ sync_flg["master"] = 1 => event["master"] # "rx"
    BY <1>13, <1>0, HopAssumption DEF SlaveFirstTxDone, SlaveSees, RspInv
  <2>2. /\ sync_first_tx' = 0 /\ chnl_map'["slave"] = channel_map /\ chnl_map'["master"] = chnl_map["master"]
        /\ tx_buffer'["slave"].cmd = LL_CMD_START /\ tx_buffer'["master"] = tx_buffer["master"]
        /\ UNCHANGED <<sync_flg, chnl_abd, chnl_used>>
        /\ rx_payload'["slave"].cmd = LL_CMD_START /\ event'["master"] = event["master"]
    <3>1. tx_buffer' = [tx_buffer EXCEPT !["slave"] = [tx_buffer["slave"] EXCEPT !.cmd = LL_CMD_START]]
      BY <1>13, <2>1 DEF SlaveFirstTxDone
    <3>2. tx_buffer'["slave"].cmd = LL_CMD_START /\ tx_buffer'["master"] = tx_buffer["master"]
      BY <3>1, <1>0 DEF LinkType, Packet
    <3> QED
      BY <1>13, <1>0, <1>n, <2>1, <3>2 DEF SlaveFirstTxDone, SlaveListens, RxDone, masterVars, LinkType
  <2> HIDE DEF Counted
  <2> QED
    BY <2>1, <2>2
<1>14. CASE SlaveRx /\ UNCHANGED masterVars
  <2> DEFINE f == Flow("slave")
             cmd == rx_payload["slave"].cmd
             q == IF LetsGo("slave") THEN Answer(cmd) ELSE tx_buffer["slave"]
  <2>1. /\ Linked /\ sync_flg["master"] = 1 /\ event["master"] # "rx"
        /\ rx_payload["slave"].NESN = snnesn["master"].NESN /\ cmd # LL_ACCEPTED
        /\ Flowing("slave")
    BY <1>14, <1>0 DEF SlaveRx, SlaveSees, LinkType, PhaseInv, RspInv, WaitInv, BitsInv, Heard, Peer, FlowInv
  <2>2. f.SENT /\ ~flushed["slave"] => taken["slave"] # 0
    BY <1>0, <2>1, FlowFacts, PeerFacts DEF Flowing
  <2>3. /\ taken'["slave"] = IF LetsGo("slave") THEN 0 ELSE taken["slave"]
        /\ flushed'["slave"] = IF LetsGo("slave") THEN ~f.SENT ELSE flushed["slave"]
        /\ f.SENT => LetsGo("slave")
    <3>1. Answers <=> LetsGo("slave")
      BY <2>1 DEF Answers
    <3> QED
      BY <1>14, <1>0, <3>1 DEF SlaveRx, RunFlow, LetsGo, LinkType
  <2>4. /\ need_clsf_flag' = IF LetsGo("slave") /\ Indicates(cmd) THEN 0 ELSE need_clsf_flag
        /\ reportLost' = (reportLost \/ (~f.SENT /\ LetsGo("slave")
                            /\ (Indicates(cmd) \/ Reports(tx_buffer["slave"]))))
        /\ tx_buffer' = [tx_buffer EXCEPT !["slave"] = WithBits(q, f)]
    BY <1>14 DEF SlaveRx
  <2>5. /\ UNCHANGED <<sync_flg, sync_first_tx, rx_payload, chnl_map, chnl_used, chnl_abd>>
        /\ radio'["slave"] = "tx" /\ event'["slave"] = "none" /\ event'["master"] = event["master"]
    BY <1>14, <1>0 DEF SlaveRx, SlaveSends, connVars, masterVars, LinkType
  <2>6. /\ Answer(cmd) \in Packet
        /\ Answer(cmd).cmd = LL_CHNL_CLASSIFICATION_IND <=> Indicates(cmd)
        /\ Indicates(cmd) => Answer(cmd).chm = chnl_map["slave"]
    <3>1. Answer(cmd) \in Packet
      BY <1>0, AnswerType
    <3>2. Accepts(cmd).cmd = LL_ACCEPTED
      BY DEF Accepts, NoPacket
    <3> DEFINE ind == [NoPacket EXCEPT !.cmd = LL_CHNL_CLASSIFICATION_IND, !.chm = chnl_map["slave"], !.len = "APP"]
    <3>3. ind.cmd = LL_CHNL_CLASSIFICATION_IND /\ ind.chm = chnl_map["slave"]
      BY DEF NoPacket
    <3> HIDE DEF ind
    <3>4. CASE cmd \in Request
      BY <3>1, <3>2, <3>4 DEF Answer, Indicates, Request
    <3>5. CASE cmd \notin Request /\ Indicates(cmd)
      <4>1. Answer(cmd) = ind
        BY <2>1, <3>5 DEF Answer, ind
      <4> QED
        BY <3>1, <3>3, <3>5, <4>1
    <3>6. CASE cmd \notin Request /\ ~Indicates(cmd)
      <4>1. Answer(cmd) = DataPacket
        BY <2>1, <3>6 DEF Answer
      <4> QED
        BY <3>1, <3>6, <4>1, <1>n
    <3> QED
      BY <3>4, <3>5, <3>6
  <2>7. q \in Packet
    BY <1>0, <2>6 DEF LinkType
  <2> HIDE DEF f, cmd, q
  <2>8. /\ tx_buffer'["slave"].cmd = q.cmd /\ tx_buffer'["slave"].chm = q.chm
        /\ tx_buffer'["master"] = tx_buffer["master"]
    <3>1. WithBits(q, f).cmd = q.cmd /\ WithBits(q, f).chm = q.chm
      BY <2>7 DEF WithBits, Packet
    <3> QED
      BY <1>0, <2>4, <3>1 DEF LinkType
  <2>9. Reports(tx_buffer["slave"]) <=> Indicating
    BY DEF Reports
  <2>10. CASE LetsGo("slave")
    <3>1. q = Answer(cmd)
      BY <2>10 DEF q
    <3>2. tx_buffer'["slave"].cmd = LL_CHNL_CLASSIFICATION_IND <=> Indicates(cmd)
      BY <2>6, <2>8, <3>1
    <3>3. Indicates(cmd) => tx_buffer'["slave"].chm = chnl_map["slave"]
      BY <2>6, <2>8, <3>1
    <3>4. AskInv' /\ ReadInv' /\ NestInv' /\ CountInv'
      <4> HIDE DEF Counted
      <4> QED
        BY <2>1, <2>5, <2>8, <3>2, <3>3
    <3>5. ToldInv'
      <4>1. taken'["slave"] = 0 /\ (flushed'["slave"] <=> ~f.SENT)
        BY <2>3, <2>10
      <4>2. CASE Indicates(cmd)
        BY <2>1, <2>4, <2>5, <2>10, <3>2, <3>3, <4>1, <4>2
      <4>3. CASE ~Indicates(cmd)
        <5>1. need_clsf_flag' = need_clsf_flag /\ (~reportLost' => ~reportLost /\ (Indicating => f.SENT))
          BY <2>4, <2>9, <2>10, <4>3
        <5>2. ~reportLost' /\ need_clsf_flag' = 0 => chnl_map["slave"] = chnl_map["master"]
          BY <2>1, <2>2, <5>1
        <5> QED
          BY <2>5, <3>2, <4>3, <5>2
      <4> QED
        BY <4>2, <4>3
    <3> QED
      BY <3>4, <3>5
  <2>11. CASE ~LetsGo("slave")
    <3>1. q = tx_buffer["slave"]
      BY <2>11 DEF q
    <3>2. /\ taken'["slave"] = taken["slave"] /\ (flushed'["slave"] <=> flushed["slave"])
          /\ need_clsf_flag' = need_clsf_flag /\ (reportLost' <=> reportLost)
      BY <2>3, <2>4, <2>11
    <3> HIDE DEF Counted
    <3> QED
      BY <2>1, <2>5, <2>8, <3>1, <3>2
  <2> QED
    BY <2>10, <2>11
<1>15. CASE SlaveTxDone /\ UNCHANGED masterVars
  BY <1>15, <1>0, <1>n
  DEF SlaveTxDone, SlaveSees, SlaveListens, RxDone, NoMapChange, flowVars, masterVars, LinkType
<1>16. CASE SlaveFirstTimeout /\ UNCHANGED masterVars
  <2>1. Linked /\ sync_flg["master"] = 1 /\ event["slave"] = "timeout" /\ event["master"] # "rx"
    BY <1>16, <1>0 DEF SlaveFirstTimeout, SlaveSees, LinkType, RspInv, WaitInv
  <2>2. /\ UNCHANGED <<sync_flg, sync_first_tx, rx_payload, chnl_map, chnl_used, chnl_abd, need_clsf_flag>>
        /\ radio'["slave"] = "rx" /\ event'["slave"] = "none" /\ event'["master"] = event["master"]
        /\ tx_buffer'["master"] = tx_buffer["master"]
        /\ reportLost' = (reportLost \/ (TimeoutFlushes("slave") /\ Reports(tx_buffer["slave"])))
        /\ tx_buffer'["slave"] = AfterTimeout("slave")
    BY <1>16, <1>0 DEF SlaveFirstTimeout, SlaveListens, rxVars, connVars, masterVars, LinkType
  <2>3. Reports(tx_buffer["slave"]) <=> Indicating
    BY DEF Reports
  <2> HIDE DEF Counted
  <2>4. CASE TimeoutFlushes("slave")
    <3>1. tx_buffer'["slave"].cmd = LL_SYNC_DATA
      <4>1. snnesn["slave"].SN \in {0, 1} /\ snnesn["slave"].NESN \in {0, 1}
        BY <1>0 DEF LinkType
      <4> QED
        BY <2>2, <2>4, <4>1, <1>n, BuiltPackets, WithBitsFacts DEF AfterTimeout
    <3>2. ~reportLost' => ~reportLost /\ ~Indicating
      BY <2>2, <2>3, <2>4
    <3>3. ToldInv'
      BY <2>1, <2>2, <3>1, <3>2
    <3>4. AskInv' /\ ReadInv' /\ NestInv' /\ CountInv'
      BY <2>1, <2>2, <3>1
    <3> QED
      BY <3>3, <3>4
  <2>5. CASE ~TimeoutFlushes("slave")
    <3>1. tx_buffer'["slave"] = tx_buffer["slave"] /\ (reportLost' <=> reportLost)
          /\ taken'["slave"] = taken["slave"] /\ (flushed'["slave"] <=> flushed["slave"])
      BY <1>16, <1>0, <2>2, <2>5 DEF AfterTimeout, SlaveFirstTimeout, CountTimeout, LinkType
    <3> QED
      BY <2>1, <2>2, <3>1
  <2> QED
    BY <2>4, <2>5
<1>17. CASE SlaveUserTask /\ UNCHANGED masterVars
  BY <1>17, <1>0 DEF SlaveUserTask, radioVars, rxVars, flowVars, masterVars, LinkType
<1>18. CASE SlaveHears
  <2>1. Arrival("slave", tx_buffer["master"])
    BY <1>18, <1>0, ArrivalFacts, PeerFacts DEF SlaveHears
  <2>2. radio["slave"] = "rx" /\ sync_first_tx # 1
    BY <1>18, <1>0 DEF SlaveHears, RspInv
  <2>3. /\ UNCHANGED <<sync_flg, sync_first_tx, tx_buffer, chnl_map, chnl_used, chnl_abd, need_clsf_flag,
                       reportLost, taken, flushed>>
        /\ radio'["slave"] = "off"
    BY <1>18, <1>0 DEF SlaveHears, MasterOnAir, connVars, flowVars, masterVars, LinkType
  <2>4. event'["master"] = "tx_done" /\ rx_payload'["slave"] = tx_buffer["master"]
    BY <2>1, <1>0, PeerFacts DEF Arrival, LinkType
  <2> HIDE DEF Counted
  <2> QED
    BY <2>2, <2>3, <2>4
<1>19. CASE SlaveMisses
  BY <1>19, <1>0, <1>e
  DEF SlaveMisses, MasterOnAir, SlaveReady, RspInv, rxVars, connVars, flowVars, masterVars, LinkType
<1>20. CASE MasterWindowEnds
  BY <1>20, <1>0 DEF MasterWindowEnds, rxVars, connVars, flowVars, masterVars, slaveVars, LinkType
<1>21. CASE MasterHears
  <2>1. Arrival("master", tx_buffer["slave"])
    BY <1>21, <1>0, ArrivalFacts, PeerFacts DEF MasterHears
  <2>2. radio["slave"] = "tx" /\ (sync_flg["master"] = 1 => Linked)
    BY <1>21, <1>0 DEF MasterHears, SlaveOnAir, LinkType, AskedInv, RspInv
  <2>3. /\ UNCHANGED <<sync_flg, sync_first_tx, tx_buffer, chnl_map, chnl_used, chnl_abd, need_clsf_flag,
                       reportLost, taken, flushed>>
    BY <1>21, <1>0 DEF MasterHears, SlaveOnAir, connVars, flowVars, masterVars, slaveVars, LinkType
  <2>4. /\ event'["master"] = "rx" /\ event'["slave"] = "tx_done"
        /\ rx_payload'["slave"] = rx_payload["slave"]
        /\ rx_payload'["master"] = tx_buffer["slave"]
    BY <2>1, <1>0, PeerFacts DEF Arrival, LinkType
  <2> HIDE DEF Counted
  <2> QED
    BY <2>2, <2>3, <2>4
<1>22. CASE MasterMisses
  BY <1>22, <1>0 DEF MasterMisses, SlaveOnAir, rxVars, connVars, flowVars, masterVars, slaveVars, LinkType
<1>23. CASE SlaveWindowEnds
  BY <1>23, <1>0 DEF SlaveWindowEnds, AskedInv, rxVars, connVars, flowVars, masterVars, slaveVars, LinkType
<1>24. CASE UNCHANGED vars
  BY <1>24 DEF vars, airVars, radioVars, rxVars, connVars, flowVars, masterVars, slaveVars
<1> QED
  BY <1>1, <1>2, <1>3, <1>4, <1>5, <1>6, <1>7, <1>8, <1>9, <1>10, <1>11, <1>12, <1>13, <1>14, <1>15,
     <1>16, <1>17, <1>18, <1>19, <1>20, <1>21, <1>22, <1>23, <1>24, Zenon
  DEF Next, MasterStep, MasterLoop, SlaveStep, SlaveLoop, SlaveTask, MasterRadio, SlaveRadio

(* The master's map is the slave's, but for what the slave has yet to tell; the
   master counts its channels, and each channel that it has lost is in the FIFO:
   ReadInv and NestInv say that a report never names a channel that the master
   has given up, and ToldInv that none is let go before the master has it. *)
THEOREM MapsAreKept == Spec => []MapsKept
<1>1. Init => TogetherInv /\ RestType /\ NoMapChange /\ MapInv
  <2> SUFFICES ASSUME Init
               PROVE  MapInv
    BY RestInit, TogetherInit
  <2>1. sync_flg["master"] = 0 /\ sync_flg["slave"] = 0 /\ sync_first_tx = 0 /\ chnl_abd = << >>
    BY DEF Init, AirInit, SlaveInit, MasterInit, Node
  <2>2. tx_buffer["master"].cmd = LL_SYNC_REQ /\ rx_payload["slave"].cmd = LL_CMD_START
    BY BuiltPackets DEF Init, AirInit, Node, Packet
  <2> QED
    BY <2>1, <2>2
    DEF MapInv, UngarbledInv, AskInv, ReadInv, NestInv, ToldInv, CountInv, Linked, LL_CONN_REQ, LL_SYNC_REQ, LL_CMD_START
<1>2. LinkInv /\ NoMapChange /\ RestType /\ TogetherInv /\ MapInv /\ [Next]_vars => MapInv'
  BY MisledStep, MapStep DEF MapInv, LinkInv
<1>3. LinkInv /\ RestType /\ MapInv => MapsKept
  <2> SUFFICES ASSUME LinkInv, RestType, MapInv
               PROVE  MapsAgree /\ ChannelsKept
    BY DEF MapsKept
  <2>1. MapsAgree
    <3>1. need_clsf_flag \in {0, 1}
      BY DEF RestType, SlaveTypeOK
    <3> QED
      BY <3>1 DEF MapsAgree, MapInv, UngarbledInv, ToldInv, Connected, Linked, Untold, Indicating
  <2>2. ChannelsKept
    <3> SUFFICES ASSUME sync_flg["master"] = 1, misled = 0
                 PROVE  /\ chnl_used = Cardinality(chnl_map["master"])
                        /\ Cardinality(channel_map \ chnl_map["master"]) < AFH_NB_CHANNEL_ADB =>
                             channel_map = chnl_map["master"] \cup {chnl_abd[i] : i \in DOMAIN chnl_abd}
      BY DEF ChannelsKept
    <3>1. Counted(chnl_map["master"], chnl_used, chnl_abd)
      BY DEF MapInv, UngarbledInv, CountInv
    <3>2. channel_map = chnl_map["master"] \cup (channel_map \ chnl_map["master"])
      BY <3>1 DEF Counted
    <3> QED
      BY <3>1, <3>2 DEF Counted
  <2> QED
    BY <2>1, <2>2
<1> QED
  BY <1>1, <1>2, <1>3, TogetherStep, NoMapChangeStep, RestStep, LinkInvariant, PTL DEF Spec
=============================================================================
