------------------------------ MODULE SoftUart ------------------------------
(***************************************************************************)
(* The UART receiver in software of src/vendor/uart_soft_rx/main.c.  A     *)
(* falling edge on the pin starts a timer whose interrupts sample the bits *)
(* of a byte; after a byte the timer is set to the time that ends a frame. *)
(* The frame's buffer is then handed to the main loop and the other one is *)
(* filled.  The main loop runs with the interrupts enabled.                *)
(*                                                                         *)
(* A byte is the set of its bits that are 1.  The line is a frame of bytes *)
(* with gaps shorter than the timeout; a start bit that comes as the       *)
(* timeout ends counts as either, since setting the timer clears its       *)
(* interrupt.  soft_uart_rx_dis, which nobody calls, is left out.          *)
(***************************************************************************)
EXTENDS Integers, Sequences, FiniteSets

CONSTANTS
    Bits,                 \* in a byte, 8 in the program
    SOFT_UART_REC_LEN_MAX,
    MaxFrame,             \* how many bytes a frame may have
    Nobody,               \* no frame waits for the main loop
    Behind  \* how many frames may still be with the main loop when the first
            \* byte of another one is in

VARIABLES
    rec_data, rec_length, data_over_flag, \* per buffer
    sotf_uart_rx_buff_state,
    index,             \* of the buffer being filled
    bit_num, temp_byte,
    timer_application, \* "idle" also before the timer is first started
    process,           \* where soft_uart_rx_data_process is
    line,              \* the frame on the line: its whole bytes, and the bits of
                       \* the one on its way
    sent               \* the whole frame that each buffer was handed over with,
                       \* until the main loop is done with it

gotVars == <<rec_data, rec_length, data_over_flag, sotf_uart_rx_buff_state>>
softVars == <<gotVars, index, bit_num, temp_byte, timer_application, process,
              line, sent>>

ASSUME SoftAssumption ==
    /\ Bits \in Nat \ {0} /\ SOFT_UART_REC_LEN_MAX \in Nat \ {0}
    /\ MaxFrame \in Nat /\ Behind \in Nat

Buffer == 0 .. 1  \* SOFT_UART_REC_GROUP_MAX is 2

SoftByte == SUBSET (0 .. Bits - 1)

ASSUME NobodyAssumption == Nobody \notin Seq(SoftByte)

(* soft_uart_rx_init, soft_uart_rx_enable *)
SoftInit ==
    /\ rec_data = [i \in Buffer |-> [k \in 1 .. SOFT_UART_REC_LEN_MAX |-> {}]]
    /\ rec_length = [i \in Buffer |-> 0]
    /\ data_over_flag = [i \in Buffer |-> 0]
    /\ sotf_uart_rx_buff_state = [i \in Buffer |-> "EMPTY_REC"]
    /\ index = 0
    /\ bit_num = 0 /\ temp_byte = {}
    /\ timer_application = "idle"
    /\ process = [at |-> "test", i |-> 0]
    /\ line = [whole |-> << >>, bits |-> {}]
    /\ sent = [i \in Buffer |-> Nobody]
-----------------------------------------------------------------------------
(* A start bit: the interrupt of the pin, which is disabled during a byte. *)
GpioIrq ==
    /\ timer_application # "sampling"
    /\ Len(line.whole) < MaxFrame
    /\ timer_application' = "sampling"
    /\ UNCHANGED <<gotVars, index, bit_num, temp_byte, process, line, sent>>

OnLine(b) == line.bits \cup (IF b THEN {bit_num} ELSE {})

(* Bits are dropped while the buffer waits for the main loop. *)
Sampled(b) ==
    IF b /\ sotf_uart_rx_buff_state[index] = "EMPTY_REC"
    THEN temp_byte \cup {bit_num}
    ELSE temp_byte

SampleBit(b) ==
    /\ timer_application = "sampling" /\ bit_num + 1 < Bits
    /\ temp_byte' = Sampled(b)
    /\ bit_num' = bit_num + 1
    /\ line' = [line EXCEPT !.bits = OnLine(b)]
    /\ UNCHANGED <<gotVars, index, timer_application, process, sent>>

(* Mutant: the byte is stored whatever the length, over the last one. *)
StoreLast(byte) ==
    LET n == rec_length[index]
        k == IF n < SOFT_UART_REC_LEN_MAX THEN n + 1 ELSE n IN
    /\ rec_data' = [rec_data EXCEPT ![index][k] = byte]
    /\ rec_length' = [rec_length EXCEPT ![index] = k]
    /\ data_over_flag' = [data_over_flag EXCEPT ![index] = IF n = k THEN 1 ELSE @]

StoreByte(byte) ==
    LET n == rec_length[index] IN
    IF n < SOFT_UART_REC_LEN_MAX
    THEN /\ rec_data' = [rec_data EXCEPT ![index][n + 1] = byte]
         /\ rec_length' = [rec_length EXCEPT ![index] = n + 1]
         /\ UNCHANGED data_over_flag
    ELSE /\ data_over_flag' = [data_over_flag EXCEPT ![index] = 1]
         /\ UNCHANGED <<rec_data, rec_length>>

LastBit(b) ==
    /\ timer_application = "sampling" /\ bit_num + 1 = Bits
    /\ line.whole = << >> => Cardinality({i \in Buffer : sent[i] # Nobody}) <= Behind
    /\ StoreByte(Sampled(b))
    /\ timer_application' = "timeout"
    /\ bit_num' = 0 /\ temp_byte' = {}
    /\ line' = [whole |-> Append(line.whole, OnLine(b)), bits |-> {}]
    /\ UNCHANGED <<sotf_uart_rx_buff_state, index, process, sent>>

(* The frame ends; the other buffer is next, if any is empty. *)
FrameEnds ==
    LET now == [sotf_uart_rx_buff_state EXCEPT ![index] = "WAIT"] IN
    /\ timer_application = "timeout"
    /\ sotf_uart_rx_buff_state' = now
    /\ index' = IF \E i \in Buffer : now[i] = "EMPTY_REC" THEN (index + 1) % 2 ELSE index
    /\ timer_application' = "idle"
    /\ bit_num' = 0
    /\ sent' = [sent EXCEPT ![index] = line.whole]
    /\ line' = [whole |-> << >>, bits |-> {}]
    /\ UNCHANGED <<rec_data, rec_length, data_over_flag, temp_byte, process>>
-----------------------------------------------------------------------------
(* soft_uart_rx_data_process: buffer i is tested, the callback prints it, and
   it is cleared. *)
At(stage) == process.at = stage

Go(stage) == process' = [process EXCEPT !.at = stage]

NextBuffer == process' = [at |-> "test", i |-> (process.i + 1) % 2]

ProcessTest ==
    /\ At("test")
    /\ IF sotf_uart_rx_buff_state[process.i] = "WAIT" THEN Go("callback") ELSE NextBuffer
    /\ UNCHANGED <<gotVars, index, bit_num, temp_byte, timer_application, line, sent>>

soft_uart_rx_callback ==
    /\ At("callback")
    /\ data_over_flag' = [data_over_flag EXCEPT ![process.i] = 0]
    /\ Go("clear")
    /\ UNCHANGED <<rec_data, rec_length, sotf_uart_rx_buff_state, index, bit_num,
                   temp_byte, timer_application, line, sent>>

ProcessClear ==
    /\ At("clear")
    /\ rec_data' = [rec_data EXCEPT ![process.i] =
                      [k \in DOMAIN @ |-> IF k <= rec_length[process.i] THEN {} ELSE @[k]]]
    /\ Go("length")
    /\ UNCHANGED <<rec_length, data_over_flag, sotf_uart_rx_buff_state, index, bit_num,
                   temp_byte, timer_application, line, sent>>

(* The length set to 0 is that of the buffer being filled. *)
ProcessLength ==
    /\ At("length")
    /\ rec_length' = [rec_length EXCEPT ![index] = 0]
    /\ Go("mark")
    /\ UNCHANGED <<rec_data, data_over_flag, sotf_uart_rx_buff_state, index, bit_num,
                   temp_byte, timer_application, line, sent>>

ProcessMark ==
    /\ At("mark")
    /\ sotf_uart_rx_buff_state' = [sotf_uart_rx_buff_state EXCEPT ![process.i] = "EMPTY_REC"]
    /\ NextBuffer
    /\ sent' = [sent EXCEPT ![process.i] = Nobody]
    /\ UNCHANGED <<rec_data, rec_length, data_over_flag, index, bit_num, temp_byte,
                   timer_application, line>>

SoftNext ==
    \/ GpioIrq
    \/ \E b \in BOOLEAN : SampleBit(b) \/ LastBit(b)
    \/ FrameEnds
    \/ ProcessTest \/ soft_uart_rx_callback \/ ProcessClear
    \/ ProcessLength \/ ProcessMark

SoftSpec == SoftInit /\ [][SoftNext]_softVars
-----------------------------------------------------------------------------
SoftTypeOK ==
    /\ rec_data \in [Buffer -> [1 .. SOFT_UART_REC_LEN_MAX -> SoftByte]]
    /\ rec_length \in [Buffer -> 0 .. SOFT_UART_REC_LEN_MAX]
    /\ data_over_flag \in [Buffer -> {0, 1}]
    /\ sotf_uart_rx_buff_state \in [Buffer -> {"EMPTY_REC", "WAIT"}]
    /\ index \in Buffer
    /\ bit_num \in 0 .. Bits - 1 /\ temp_byte \in SoftByte
    /\ timer_application \in {"sampling", "timeout", "idle"}
    /\ process.at \in {"test", "callback", "clear", "length", "mark"}
    /\ process.i \in Buffer
    /\ \A k \in 1 .. Len(line.whole) : line.whole[k] \in SoftByte
    /\ line.bits \in SoftByte

(* The frame that the main loop finds in a buffer is the one that was on the
   line when the buffer was handed over, whole, or cut to the buffer's length
   and flagged, however the interrupts of the next frame meet the main loop at
   work on this one (main.c:106-114, main.c:235-242). *)
FrameIntact ==
    \A i \in Buffer :
        (process = [at |-> "callback", i |-> i]) =>
            /\ sent[i] # Nobody
            /\ rec_length[i] = (IF Len(sent[i]) > SOFT_UART_REC_LEN_MAX
                                THEN SOFT_UART_REC_LEN_MAX ELSE Len(sent[i]))
            /\ \A k \in 1 .. rec_length[i] : rec_data[i][k] = sent[i][k]
            /\ data_over_flag[i] = 1 <=> Len(sent[i]) > SOFT_UART_REC_LEN_MAX
=============================================================================
