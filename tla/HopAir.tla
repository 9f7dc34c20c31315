------------------------------- MODULE HopAir -------------------------------
(***************************************************************************)
(* What the two nodes of the frequency hopping link share, the master      *)
(* src/vendor/freq_hopping_le_master/main.c and the slave                  *)
(* src/vendor/freq_hopping_le_slave/main.c: packets, the channel table,    *)
(* the SN/NESN flow control, and the state that both main.c declare.       *)
(*                                                                         *)
(* One action of a node is one pass of its main loop that finds a flag set *)
(* by irq_handler.  Time is not modelled except for two consequences of    *)
(* the intervals (1.25 ms, then 500 ms) being long: the slave reads a      *)
(* packet while the master still listens for the answer, and it listens    *)
(* again before the master's next packet.                                  *)
(***************************************************************************)
EXTENDS Integers, Sequences, FiniteSets

CONSTANTS
    TOTAL_NB_CHNNEL,       \* length of the channel table
    AFH_HOP,               \* hop increment
    channel_map,           \* channels used at first
    AFH_NB_CHANNEL_MAX,    \* their number
    AUTO_FLUSH_CNT_THRES,  \* failed events after which a packet is given up
    AFH_GOOD_CHNL_QLTY_THRES,
    NB_BROADCAST,          \* channels of the handshake
    MaxMisled              \* bound on packets with a wrong CRC that look like others

Node == {"master", "slave"}
Peer(n) == IF n = "master" THEN "slave" ELSE "master"

Channel == 0 .. TOTAL_NB_CHNNEL - 1
AFH_BAD_CHNL_QLTY_THRES == -AFH_GOOD_CHNL_QLTY_THRES

ASSUME HopAssumption ==
    /\ TOTAL_NB_CHNNEL \in Nat \ {0}
    /\ AFH_HOP \in Channel
    /\ channel_map \subseteq Channel /\ channel_map # {}
    /\ AFH_NB_CHANNEL_MAX = Cardinality(channel_map) /\ AFH_NB_CHANNEL_MAX < 256
    /\ AUTO_FLUSH_CNT_THRES \in 1 .. 255
    /\ AFH_GOOD_CHNL_QLTY_THRES \in 1 .. 127
    /\ NB_BROADCAST \in Nat \ {0}
    /\ MaxMisled \in Nat

LL_CMD_START == 0
LL_SYNC_REQ == 1
LL_SYNC_RSP == 2
LL_ACCEPTED == 3
LL_CONN_REQ == 5
LL_CONN_RSP == 6
LL_CHNL_CLASSIFICATION_REQ == 17
LL_CHG_CHNL_MAP_REQ == 18
LL_CHNL_CLASSIFICATION_IND == 19
LL_SYNC_DATA == 20
Cmd == {LL_CMD_START, LL_SYNC_REQ, LL_SYNC_RSP, LL_ACCEPTED, LL_CONN_REQ, LL_CONN_RSP,
        LL_CHNL_CLASSIFICATION_REQ, LL_CHG_CHNL_MAP_REQ, LL_CHNL_CLASSIFICATION_IND, LL_SYNC_DATA}

AFH_MODE_ENABLE == 1

(* Sync words: that of the handshake, conn_sync_word, conn_sync_word with its
   first byte zeroed, and any other. *)
Word == {"sync", "conn", "zeroed", "other"}

(* cmd is the opcode of a handshake packet or the command of a later one; data
   its first data byte; chm and ac are in some packets only.  len is the fixed
   payload length it is sent with, SYNC_ or APP_FIX_PAYLOAD_LEN. *)
Packet == [cmd : Cmd, SN : {0, 1}, NESN : {0, 1}, data : Nat, chm : SUBSET Channel,
           ac : Word, len : {"SYNC", "APP"}]

NoPacket == [cmd |-> LL_CMD_START, SN |-> 0, NESN |-> 0, data |-> 0, chm |-> {},
             ac |-> "sync", len |-> "SYNC"]

VARIABLES
    radio,               \* "tx", "rx" or "off"
    event,               \* the flag set by irq_handler and not yet seen by the loop
    sync_flg,            \* connected
    broadcast_chnn_idx,
    chnn_idx,            \* sync_chnn_idx of the master, next_chnn_idx of the slave
    format,              \* gen_fsk_packet_format_set
    tx_buffer,
    rx_payload,          \* NoPacket once nothing reads it any more
    rx_crc_err_flag,
    chnl_map,
    chnl_tbl,
    snnesn,
    con_tx_cnt,
    misled,              \* packets with a wrong CRC so far that looked like others
    taken,               \* how often the packet in tx_buffer was taken by the peer
    flushed              \* auto flush put the packet in tx_buffer

radioVars == <<radio, event, broadcast_chnn_idx, chnn_idx, format>>
rxVars == <<rx_payload, rx_crc_err_flag, misled>>
connVars == <<sync_flg, chnl_map, chnl_tbl>>
flowVars == <<snnesn, con_tx_cnt, taken, flushed>>
airVars == <<radioVars, rxVars, connVars, flowVars, tx_buffer>>

AirInit ==
    /\ radio = [n \in Node |-> IF n = "master" THEN "tx" ELSE "rx"]
    /\ event = [n \in Node |-> "none"]
    /\ sync_flg = [n \in Node |-> 0]
    /\ broadcast_chnn_idx = [n \in Node |-> IF n = "master" THEN 0 ELSE NB_BROADCAST - 1]
    /\ chnn_idx = [n \in Node |-> 0]
    /\ format = [n \in Node |-> "SYNC"]
    /\ tx_buffer = [n \in Node |->
         [NoPacket EXCEPT !.cmd = IF n = "master" THEN LL_SYNC_REQ ELSE LL_SYNC_RSP]]
    /\ rx_payload = [n \in Node |-> NoPacket]
    /\ rx_crc_err_flag = [n \in Node |-> FALSE]
    /\ chnl_map = [n \in Node |-> {}]
    /\ chnl_tbl = [n \in Node |-> [i \in Channel |-> 0]]
    /\ snnesn = [n \in Node |-> [SN |-> 0, NESN |-> 0]]
    /\ con_tx_cnt = [n \in Node |-> 0]
    /\ misled = 0
    /\ taken = [n \in Node |-> 1]
    /\ flushed = [n \in Node |-> FALSE]

AirTypeOK ==
    /\ radio \in [Node -> {"off", "tx", "rx"}]
    /\ event \in [Node -> {"none", "rx", "tx_done", "timeout"}]
    /\ sync_flg \in [Node -> {0, 1}]
    /\ broadcast_chnn_idx \in [Node -> 0 .. NB_BROADCAST - 1]
    /\ chnn_idx \in [Node -> Channel]
    /\ format \in [Node -> {"SYNC", "APP"}]
    /\ tx_buffer \in [Node -> Packet]
    /\ rx_payload \in [Node -> Packet]
    /\ rx_crc_err_flag \in [Node -> BOOLEAN]
    /\ chnl_map \in [Node -> SUBSET Channel]
    /\ chnl_tbl \in [Node -> [Channel -> Channel]]
    /\ snnesn \in [Node -> [SN : {0, 1}, NESN : {0, 1}]]
    /\ con_tx_cnt \in [Node -> 0 .. AUTO_FLUSH_CNT_THRES - 1]
    /\ misled \in 0 .. MaxMisled
    /\ taken \in [Node -> Nat]
    /\ flushed \in [Node -> BOOLEAN]
-----------------------------------------------------------------------------
(* The element of S with i smaller ones. *)
Nth(S, i) == CHOOSE c \in S : Cardinality({d \in S : d < c}) = i

(* The i-th entry is k = (i+1)*hop if k is in the map, or else the used channel
   number k mod numused. *)
chn_table_calc(map, hop) ==
    [i \in Channel |->
        LET k == ((i + 1) * hop) % TOTAL_NB_CHNNEL IN
        IF k \in map
        THEN k
        ELSE Nth(map, k % Cardinality(map))]

NextIdx(n) == (chnn_idx[n] + 1) % TOTAL_NB_CHNNEL

(* Mutant: NESN is not flipped when a packet is taken. *)
FlowKeepsNesn(peer, local, err) ==
    LET rcvd == peer.SN = local.NESN /\ ~err
        sent == peer.NESN # local.SN
    IN [NESN |-> local.NESN,
        SN   |-> IF sent THEN peer.NESN ELSE local.SN,
        SENT |-> sent, RCVD |-> rcvd]

(* Mutant: any packet with a right CRC is taken for an acknowledgement. *)
FlowAnyAck(peer, local, err) ==
    LET rcvd == peer.SN = local.NESN /\ ~err
    IN [NESN |-> IF rcvd THEN 1 - peer.SN ELSE local.NESN,
        SN   |-> IF err THEN local.SN ELSE 1 - local.SN,
        SENT |-> ~err, RCVD |-> rcvd]

(* ll_flow_process: bits of the packet received, own bits, CRC error flag.  The
   bits SENT and RCVD of the result are used by one handler each and not kept
   in snnesn; see received in HopSlave. *)
ll_flow_process(peer, local, err) ==
    LET rcvd == peer.SN = local.NESN /\ ~err
        sent == peer.NESN # local.SN
    IN [NESN |-> IF rcvd THEN 1 - peer.SN ELSE local.NESN,
        SN   |-> IF sent THEN peer.NESN ELSE local.SN,
        SENT |-> sent, RCVD |-> rcvd]

Flow(n) == ll_flow_process(rx_payload[n], snnesn[n], rx_crc_err_flag[n])

(* con_tx_cnt after ll_flow_process, and whether it lets go of the packet. *)
FlowCnt(n) == con_tx_cnt[n] + (IF Flow(n).SENT THEN 0 ELSE 1)
LetsGo(n) == Flow(n).SENT \/ FlowCnt(n) >= AUTO_FLUSH_CNT_THRES

RxDone(n) == rx_payload' = [rx_payload EXCEPT ![n] = NoPacket]

(* The packet with the present bits: ptx->type = snnesn << 2 & 0xc. *)
WithBits(pkt, bits) == [pkt EXCEPT !.SN = bits.SN, !.NESN = bits.NESN]

DataPacket ==
    [NoPacket EXCEPT !.cmd = LL_SYNC_DATA, !.len = "APP"]

(* Mutant: auto flush waits for one failed event more. *)
TimeoutFlushesLate(n) == con_tx_cnt[n] >= AUTO_FLUSH_CNT_THRES

(* A receive timeout counts as a failed event: auto flush gives up the packet
   for a data packet with the same bits. *)
TimeoutFlushes(n) == con_tx_cnt[n] + 1 >= AUTO_FLUSH_CNT_THRES

AfterTimeout(n) ==
    IF TimeoutFlushes(n) THEN WithBits(DataPacket, snnesn[n]) ELSE tx_buffer[n]

CountTimeout(n) ==
    /\ con_tx_cnt' = [con_tx_cnt EXCEPT ![n] = IF TimeoutFlushes(n) THEN 0 ELSE @ + 1]
    /\ taken' = [taken EXCEPT ![n] = IF TimeoutFlushes(n) THEN 0 ELSE @]
    /\ flushed' = [flushed EXCEPT ![n] = @ \/ TimeoutFlushes(n)]
    /\ UNCHANGED snnesn

(* ll_flow_process at node n, which then lets go of its packet for one built
   anew, or keeps it. *)
RunFlow(n, built) ==
    /\ snnesn' = [snnesn EXCEPT ![n] = [SN |-> Flow(n).SN, NESN |-> Flow(n).NESN]]
    /\ rx_crc_err_flag' = [rx_crc_err_flag EXCEPT ![n] = FALSE]
    /\ con_tx_cnt' = [con_tx_cnt EXCEPT ![n] = IF LetsGo(n) THEN 0 ELSE FlowCnt(n)]
    /\ taken' = [m \in Node |->
         IF m = n THEN IF built THEN 0 ELSE taken[n]
                  ELSE IF Flow(n).RCVD THEN taken[m] + 1 ELSE taken[m]]
    /\ flushed' = [flushed EXCEPT ![n] = IF built THEN ~Flow(n).SENT ELSE @]
    /\ UNCHANGED misled
-----------------------------------------------------------------------------
(* The channel and sync word that a node is set to. *)
Tuned(n, connected, word) ==
    IF connected THEN <<word, chnl_tbl[n][chnn_idx[n]]>>
                 ELSE <<"sync", broadcast_chnn_idx[n]>>

(* What a packet may look like when its CRC is wrong: itself, or another.  It
   never becomes a packet of the handshake that a node waits for, but for
   LL_SYNC_RSP. *)
GarbledInto(p, cmd, SN, NESN, word, chm) ==
    [p EXCEPT !.cmd = cmd, !.SN = SN, !.NESN = NESN, !.ac = word, !.chm = chm]

OnlyIn(p, cmd, S) == IF p.cmd = cmd THEN S ELSE {}

Garblings(p) ==
    {GarbledInto(p, cmd, SN, NESN, word, chm) :
        cmd \in {p.cmd, LL_CMD_START, LL_SYNC_RSP, LL_ACCEPTED, LL_CHNL_CLASSIFICATION_REQ,
                 LL_CHG_CHNL_MAP_REQ}, SN \in {0, 1}, NESN \in {0, 1},
        word \in {p.ac} \cup OnlyIn(p, LL_CONN_REQ, {"other"}),
        chm \in {p.chm} \cup OnlyIn(p, LL_CONN_REQ, {{}, {0}})}

(* irq_handler on a packet p: the flag is set whatever its CRC.  A packet of
   the other length fails the CRC, too.  Meanwhile the sender has sent it. *)
Arrives(n, p, ok) ==
    /\ event' = [event EXCEPT ![n] = "rx", ![Peer(n)] = "tx_done"]
    /\ rx_payload' = [rx_payload EXCEPT ![n] = p]
    /\ rx_crc_err_flag' = [rx_crc_err_flag EXCEPT ![n] = @ \/ ~ok]

ArrivesWhole(n) ==
    /\ Arrives(n, tx_buffer[Peer(n)], tx_buffer[Peer(n)].len = format[n])
    /\ UNCHANGED misled

ArrivesGarbled(n) ==
    \E p \in Garblings(tx_buffer[Peer(n)]) :
        /\ Arrives(n, p, FALSE)
        /\ misled' = IF p = tx_buffer[Peer(n)] THEN misled ELSE misled + 1
        /\ misled' <= MaxMisled
=============================================================================
