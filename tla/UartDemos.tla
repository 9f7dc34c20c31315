------------------------------ MODULE UartDemos ------------------------------
(***************************************************************************)
(* src/drivers/uart.c and the demonstrations src/vendor/uart_ndma and      *)
(* src/vendor/uart_dma, each an interrupt handler that receives and a main *)
(* loop that sends back what was received.  The first takes byte by byte,  *)
(* the second lets the DMA move whole packets.  Before, a node is given    *)
(* its baud rate.  The three share no state: uart says which is looked at. *)
(*                                                                         *)
(* The line numbers its bytes, modulo a bound.                             *)
(***************************************************************************)
EXTENDS Integers, Sequences

CONSTANTS
    TRANS_BUF_LEN,   \* bytes of a block that uart_ndma sends back
    LineMod,         \* its numbers start again after so many
    SysClock,        \* the system clocks, in MHz, and the baud rates,
    Baud             \* in units of 100, that a node may be configured for

ASSUME UartDemoAssumption ==
    /\ TRANS_BUF_LEN \in Nat \ {0, 1} /\ LineMod \in Nat /\ LineMod > 2 * TRANS_BUF_LEN
    /\ SysClock \subseteq Nat \ {0} /\ Baud \subseteq Nat \ {0}

VARIABLES
    uart,            \* "init", or the demonstration: "ndma" or "dma"
    nodes,           \* the nodes on a line that have a baud rate
    uart_pc,         \* where the main loop of the demonstration is
    uart_line,       \* the number of the next byte on the line
    uart_ndmairq_cnt, uart_rx_flag,
    recv_buff,       \* and one place more, which belongs to another variable
    echoed,          \* the bytes sent back so far, by this turn of the loop
    late,            \* a byte came between the start of the turn and its first byte
    uart_dma_rx_flag, uart_dma_tx_flag,
    sending,         \* transmissions under way
    TX_DONE          \* FLD_UART_TX_DONE, whose interrupt is pending

ndmaVars == <<uart_line, uart_ndmairq_cnt, uart_rx_flag, recv_buff, echoed, late>>
dmaVars == <<uart_dma_rx_flag, uart_dma_tx_flag, sending, TX_DONE>>
uartVars == <<uart, nodes, uart_pc, ndmaVars, dmaVars>>

Next1(b) == (b + 1) % LineMod

UartInit ==
    /\ uart \in {"init", "ndma", "dma"} /\ nodes = << >> /\ uart_pc = "wait"
    /\ uart_line = 0 /\ uart_ndmairq_cnt = 0 /\ uart_rx_flag = 0
    /\ recv_buff = [i \in 0 .. TRANS_BUF_LEN |-> LineMod] /\ echoed = << >> /\ late = FALSE
    /\ uart_dma_rx_flag = 0 /\ uart_dma_tx_flag = 1 /\ sending = 0 /\ TX_DONE = FALSE

UartAt(demo, from, to) ==
    /\ uart = demo
    /\ uart_pc = from /\ uart_pc' = to
    /\ UNCHANGED <<uart, nodes>>
-----------------------------------------------------------------------------
(***************************************************************************)
(* The baud rate: a bit lasts (div + 1) * (bwpc + 1) cycles.  GetBetterBwpc *)
(* looks for the two in integers, with one decimal.                        *)
(***************************************************************************)
IsPrime(n) ==
    \/ n =< 3
    \/ n % 2 # 0 /\ n % 3 # 0
       /\ \A i \in {6 * k + 5 : k \in 0 .. n \div 6} :
            i * i < n => n % i # 0 /\ n % (i + 2) # 0

Rounded(baud, clock) ==
    LET n == (10000 * clock) \div baud
        dec == (100000 * clock) \div baud - 10 * n
    IN IF IsPrime(n) \/ (dec > 5 /\ ~IsPrime(n + 1)) THEN n + 1 ELSE n

(* Each width, with the divider it would need in tenths. *)
GetBetterBwpc(baud, clock) ==
    LET width == 3 .. 15
        n == Rounded(baud, clock)
        D == [i \in width |-> (10 * n) \div (i + 1)]
        dec == [i \in width |-> D[i] % 10]
        usable == {i \in width : D[i] \div 10 # 1}
        latest(S) == CHOOSE i \in S : \A j \in S : j =< i
        min == latest({i \in usable : \A j \in usable : dec[i] =< dec[j]})
        max == latest({i \in width : \A j \in width : dec[i] >= dec[j]})
    IN IF dec[min] < 5 /\ (dec[max] >= 5 => dec[min] < 10 - dec[max])
       THEN [bwpc |-> min, div |-> D[min] \div 10 - 1]
       ELSE [bwpc |-> max, div |-> D[max] \div 10]

uart_init_baudrate(baud, clock) ==
    /\ uart = "init" /\ Len(nodes) < 2
    /\ nodes' = Append(nodes, [baud |-> baud, clock |-> clock,
                               set |-> GetBetterBwpc(baud, clock)])
    /\ UNCHANGED <<uart, uart_pc, ndmaVars, dmaVars>>

(* Two others are looked at. *)
OtherNodes ==
    /\ uart = "init" /\ Len(nodes) = 2
    /\ nodes' = << >>
    /\ UNCHANGED <<uart, uart_pc, ndmaVars, dmaVars>>
-----------------------------------------------------------------------------
(* A byte arrives, and irq_handler takes it: it goes into the buffer, or is
   read to be forgotten.  While a block is sent back, the first bytes go into a
   FIFO at once and the others as fast as bytes arrive, so that only the first
   byte to arrive may come before its place was read. *)
NdmaIrq ==
    /\ uart = "ndma"
    /\ uart_pc = "echo" => uart_ndmairq_cnt = 0 \/ uart_ndmairq_cnt < Len(echoed)
    /\ uart_line' = Next1(uart_line)
    /\ IF uart_rx_flag = 0
       THEN /\ recv_buff' = [recv_buff EXCEPT ![uart_ndmairq_cnt] = uart_line]
            /\ uart_ndmairq_cnt' = uart_ndmairq_cnt + 1
            /\ uart_rx_flag' = IF uart_ndmairq_cnt' % TRANS_BUF_LEN = 0 THEN 1 ELSE 0
            /\ late' = (late \/ (uart_pc = "echo" /\ echoed = << >>))
       ELSE UNCHANGED <<recv_buff, uart_ndmairq_cnt, uart_rx_flag, late>>
    /\ UNCHANGED <<uart, nodes, uart_pc, echoed, dmaVars>>

(* The main loop, a step at a time.  The last of its steps sends trans_buff. *)
NdmaTest ==
    /\ UartAt("ndma", "wait", IF uart_rx_flag = 1 THEN "count" ELSE "send")
    /\ UNCHANGED <<ndmaVars, dmaVars>>

(* Mutant: the count is left as it is. *)
CountKept ==
    /\ UartAt("ndma", "count", "flag")
    /\ UNCHANGED <<ndmaVars, dmaVars>>

NdmaCount ==
    /\ UartAt("ndma", "count", "flag")
    /\ uart_ndmairq_cnt' = 0
    /\ UNCHANGED <<uart_line, uart_rx_flag, recv_buff, echoed, late, dmaVars>>

NdmaFlag ==
    /\ UartAt("ndma", "flag", "echo")
    /\ uart_rx_flag' = 0
    /\ UNCHANGED <<uart_line, uart_ndmairq_cnt, recv_buff, echoed, late, dmaVars>>

NdmaEcho ==
    /\ UartAt("ndma", "echo", IF Len(echoed) + 1 = TRANS_BUF_LEN THEN "send" ELSE "echo")
    /\ echoed' = Append(echoed, recv_buff[Len(echoed)])
    /\ UNCHANGED <<uart_line, uart_ndmairq_cnt, uart_rx_flag, recv_buff, late, dmaVars>>

NdmaSend ==
    /\ UartAt("ndma", "send", "wait")
    /\ echoed' = << >> /\ late' = FALSE
    /\ UNCHANGED <<uart_line, uart_ndmairq_cnt, uart_rx_flag, recv_buff, dmaVars>>
-----------------------------------------------------------------------------
(* A packet has arrived. *)
DmaRxIrq ==
    /\ uart = "dma"
    /\ uart_dma_rx_flag' = 1
    /\ UNCHANGED <<uart, nodes, uart_pc, ndmaVars, uart_dma_tx_flag, sending, TX_DONE>>

(* A transmission ends, long after the store that follows its start. *)
DmaSent ==
    /\ uart = "dma" /\ sending > 0 /\ uart_pc \notin {"flag", "flag2"}
    /\ sending' = sending - 1 /\ TX_DONE' = TRUE
    /\ UNCHANGED <<uart, nodes, uart_pc, ndmaVars, uart_dma_rx_flag, uart_dma_tx_flag>>

DmaTxIrq ==
    /\ uart = "dma" /\ TX_DONE
    /\ uart_dma_tx_flag' = 1 /\ TX_DONE' = FALSE
    /\ UNCHANGED <<uart, nodes, uart_pc, ndmaVars, uart_dma_rx_flag, sending>>

DmaTest ==
    /\ UartAt("dma", "wait", IF uart_dma_rx_flag = 1 THEN "spin" ELSE "test2")
    /\ uart_dma_rx_flag' = 0
    /\ UNCHANGED <<ndmaVars, uart_dma_tx_flag, sending, TX_DONE>>

uart_send_dma ==
    /\ sending' = sending + 1 /\ TX_DONE' = FALSE
    /\ UNCHANGED <<ndmaVars, uart_dma_rx_flag, uart_dma_tx_flag>>

DmaEcho == uart_dma_tx_flag = 1 /\ UartAt("dma", "spin", "flag") /\ uart_send_dma

DmaClear(from, to) ==
    /\ UartAt("dma", from, to)
    /\ uart_dma_tx_flag' = 0
    /\ UNCHANGED <<ndmaVars, uart_dma_rx_flag, sending, TX_DONE>>

DmaSend == uart_dma_tx_flag = 1 /\ UartAt("dma", "test2", "flag2") /\ uart_send_dma

DmaRest ==
    /\ uart_dma_tx_flag # 1 /\ UartAt("dma", "test2", "wait")
    /\ UNCHANGED <<ndmaVars, dmaVars>>

UartNext ==
    \/ \E baud \in Baud, clock \in SysClock : uart_init_baudrate(baud, clock)
    \/ OtherNodes
    \/ NdmaIrq \/ NdmaTest \/ NdmaCount \/ NdmaFlag \/ NdmaEcho \/ NdmaSend
    \/ DmaRxIrq \/ DmaSent \/ DmaTxIrq \/ DmaTest \/ DmaEcho \/ DmaSend \/ DmaRest
    \/ DmaClear("flag", "test2") \/ DmaClear("flag2", "wait")

UartSpec == UartInit /\ [][UartNext]_uartVars
-----------------------------------------------------------------------------
UartTypeOK ==
    /\ uart \in {"init", "ndma", "dma"}
    /\ nodes \in Seq([baud : Baud, clock : SysClock, set : [bwpc : 3 .. 15, div : 0 .. 65535]])
    /\ uart_pc \in {"wait", "count", "flag", "echo", "send", "spin", "test2", "flag2"}
    /\ uart_line \in 0 .. LineMod - 1
    /\ uart_ndmairq_cnt \in 0 .. TRANS_BUF_LEN /\ uart_rx_flag \in {0, 1}
    /\ recv_buff \in [0 .. TRANS_BUF_LEN -> 0 .. LineMod] /\ late \in BOOLEAN
    /\ uart_dma_rx_flag \in {0, 1} /\ uart_dma_tx_flag \in {0, 1}
    /\ sending \in Nat /\ TX_DONE \in BOOLEAN

(* What uart_ndma sends back are bytes that followed each other on the line,
   and no byte is put behind the end of the buffer: the count is cleared before
   the flag that lets the interrupt use it, and then the interrupt fills the
   buffer that is being sent.  A byte that comes in between those two takes the
   place of the first (uart_ndma/main.c:92-95). *)
BlockEchoed ==
    /\ recv_buff[TRANS_BUF_LEN] = LineMod
    /\ \A i \in 1 .. Len(echoed) - 1 : i > 1 \/ ~late => echoed[i + 1] = Next1(echoed[i])

(* uart_dma starts no transmission while another is under way, and does not
   wait for the end of one that is over: whenever the flag is down the
   interrupt that raises it is still to come (uart_dma/main.c:90-102). *)
SendsInTurn ==
    /\ sending =< 1
    /\ uart_dma_tx_flag = 0 => sending = 1 \/ TX_DONE

(* Two nodes that were given the same rate understand each other, whatever
   their clocks: within the nine and a half bits of a byte they drift apart by
   less than half a bit (uart.c:54-119). *)
Ticks(i) == (nodes[i].set.div + 1) * (nodes[i].set.bwpc + 1)

BaudsAgree ==
    Len(nodes) = 2 /\ nodes[1].baud = nodes[2].baud =>
        \A i \in {1, 2} :
            19 * (Ticks(i) * nodes[3 - i].clock - Ticks(3 - i) * nodes[i].clock)
                < Ticks(3 - i) * nodes[i].clock

(* The demonstrations and the baud rates that they share with the UART update. *)
UartSound == BlockEchoed /\ SendsInTurn /\ BaudsAgree
=============================================================================
