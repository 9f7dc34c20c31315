---------------------------- MODULE SerialProofs ----------------------------
(***************************************************************************)
(* The serial lines that an interrupt and a main loop share: the UART      *)
(* receiver in software, the demonstrations of the UART, and the control   *)
(* endpoint of USB.                                                        *)
(***************************************************************************)
EXTENDS SoftUart, UartDemos, UsbControl, FiniteSetTheorems, SequenceTheorems, TLAPS

(***************************************************************************)
(* The UART receiver in software.                                          *)
(***************************************************************************)

(* What buffer i is to hold of a frame. *)
HoldsFrame(i, frame) ==
    /\ rec_length[i] = (IF Len(frame) > SOFT_UART_REC_LEN_MAX
                        THEN SOFT_UART_REC_LEN_MAX ELSE Len(frame))
    /\ \A k \in 1 .. rec_length[i] : rec_data[i][k] = frame[k]
    /\ data_over_flag[i] = 1 <=> Len(frame) > SOFT_UART_REC_LEN_MAX

FrameType ==
    /\ line \in [whole : Seq(SoftByte), bits : SoftByte]
    /\ process \in [at : {"test", "callback", "clear", "length", "mark"}, i : Buffer]
    /\ sent \in [Buffer -> Seq(SoftByte) \cup {Nobody}]

(* The bits that the handler keeps are those of the line. *)
BitsAgree ==
    /\ temp_byte = line.bits
    /\ timer_application # "sampling" => line.bits = {} /\ bit_num = 0
    /\ timer_application = "timeout" => line.whole # << >>

(* A buffer waits while its frame is with the main loop, which is at no other. *)
Waiting ==
    /\ \A i \in Buffer : sotf_uart_rx_buff_state[i] = "WAIT" <=> sent[i] # Nobody
    /\ process.at # "test" => sent[process.i] # Nobody

(* No frame is with the main loop: the one on the line is in its buffer as far
   as it came, and the other buffer has no mark of an earlier one. *)
Filling ==
    /\ sent = [i \in Buffer |-> Nobody]
    /\ HoldsFrame(index, line.whole)
    /\ data_over_flag[1 - index] = 0

(* A frame is with the main loop, and no byte of another one came: its buffer is
   the one that is not filled, and as the main loop is done with a part of it
   that part is ready for the next but one frame. *)
Handing ==
    /\ sent[index] = Nobody /\ sent[1 - index] # Nobody
    /\ line.whole = << >>
    /\ data_over_flag[index] = 0
    /\ process.at \in {"test", "callback"} => HoldsFrame(1 - index, sent[1 - index])
    /\ process.at \in {"clear", "length", "mark"} => data_over_flag[1 - index] = 0
    /\ process.at = "mark" => rec_length[index] = 0

SoftInv ==
    /\ SoftTypeOK /\ FrameType
    /\ BitsAgree /\ Waiting
    /\ Filling \/ Handing

LEMMA Buffers ==
    ASSUME index \in Buffer
    PROVE  /\ Buffer = {index, 1 - index} /\ index # 1 - index
           /\ 1 - index \in Buffer /\ (index + 1) % 2 = 1 - index
BY DEF Buffer

LEMMA SoftInvInit == SoftInit => SoftInv
BY SoftAssumption
   DEF SoftInit, SoftInv, SoftTypeOK, FrameType, BitsAgree, Waiting, Filling, HoldsFrame,
       Buffer, SoftByte

(* A first byte comes only when no frame is with the main loop. *)
LEMMA NoneBehind ==
    ASSUME Behind = 0, NEW b \in BOOLEAN, LastBit(b), SoftInv PROVE Filling
<1>1. CASE line.whole = << >>
  <2> DEFINE S == {i \in Buffer : sent[i] # Nobody}
  <2>1. Cardinality(S) <= 0
    BY <1>1 DEF LastBit
  <2>2. IsFiniteSet(S)
    <3>1. IsFiniteSet(Buffer)
      <4>1. 0 \in Int /\ 1 \in Int
        OBVIOUS
      <4>2. IsFiniteSet(0 .. 1)
        BY ONLY <4>1, FS_Interval
      <4> QED
        BY <4>2 DEF Buffer
    <3> QED
      BY <3>1, FS_Subset
  <2>3. S = {}
    <3>1. Cardinality(S) \in Nat
      BY <2>2, FS_CardinalityType
    <3> QED
      BY <2>1, <2>2, <3>1, FS_EmptySet
  <2>4. 1 - index \in Buffer
    BY Buffers DEF SoftInv, SoftTypeOK
  <2> QED
    BY <2>3, <2>4 DEF SoftInv, Handing
<1>2. CASE line.whole # << >>
  BY <1>2 DEF SoftInv, Handing
<1> QED
  BY <1>1, <1>2

LEMMA Emptied ==
    ASSUME SoftInv PROVE sotf_uart_rx_buff_state[index] = "EMPTY_REC"
BY Buffers DEF SoftInv, SoftTypeOK, Waiting, Filling, Handing

(* The bits of a byte. *)
LEMMA BitKept ==
    ASSUME SoftInv, NEW b \in BOOLEAN
    PROVE  Sampled(b) = OnLine(b) /\ OnLine(b) \in SoftByte
BY Emptied DEF Sampled, OnLine, SoftInv, BitsAgree, SoftTypeOK, SoftByte

(* Where nothing of the buffers changes, they hold what they held. *)
LEMMA FrameKept ==
    ASSUME NEW i \in Buffer, NEW frame, HoldsFrame(i, frame),
           rec_length'[i] = rec_length[i], rec_data'[i] = rec_data[i],
           data_over_flag'[i] = data_over_flag[i]
    PROVE  HoldsFrame(i, frame)'
BY DEF HoldsFrame

(* A byte is stored behind those of the frame that came before it. *)
LEMMA ByteStored ==
    ASSUME SoftTypeOK, NEW i \in Buffer, i = index,
           NEW frame \in Seq(SoftByte), NEW byte \in SoftByte,
           HoldsFrame(i, frame), StoreByte(byte)
    PROVE  HoldsFrame(i, Append(frame, byte))'
<1> USE SoftAssumption DEF SoftTypeOK
<1> DEFINE n == rec_length[i]
           N == SOFT_UART_REC_LEN_MAX
           longer == Append(frame, byte)
<1> SUFFICES HoldsFrame(i, longer)'
  OBVIOUS
<1>1. n \in 0 .. N /\ N \in Nat \ {0} /\ Len(frame) \in Nat
  OBVIOUS
<1>2. Len(longer) = Len(frame) + 1
  OBVIOUS
<1>3. /\ n = (IF Len(frame) > N THEN N ELSE Len(frame))
      /\ \A k \in 1 .. n : rec_data[i][k] = frame[k]
      /\ data_over_flag[i] = 1 <=> Len(frame) > N
  BY DEF HoldsFrame
<1>4. CASE n < N
  <2>1. /\ rec_data' = [rec_data EXCEPT ![i][n + 1] = byte]
        /\ rec_length' = [rec_length EXCEPT ![i] = n + 1]
        /\ data_over_flag' = data_over_flag
    BY <1>4 DEF StoreByte
  <2>2. Len(frame) = n /\ n + 1 \in 1 .. N /\ ~(Len(frame) + 1 > N)
    BY <1>1, <1>3, <1>4
  <2>4. rec_length'[i] = n + 1
    BY <2>1, <2>2
  <2>5. \A k \in 1 .. n + 1 :
           rec_data'[i][k] = (IF k = n + 1 THEN byte ELSE rec_data[i][k])
    BY <2>1, <2>2
  <2>6. \A k \in 1 .. n + 1 : longer[k] = (IF k = n + 1 THEN byte ELSE frame[k])
    BY <2>2
  <2>7. \A k \in 1 .. n + 1 : k # n + 1 => k \in 1 .. n
    BY <1>1
  <2>8. \A k \in 1 .. n + 1 : rec_data'[i][k] = longer[k]
    BY <1>3, <2>5, <2>6, <2>7
  <2>9. \A k \in 1 .. rec_length'[i] : rec_data'[i][k] = longer[k]
    BY <2>4, <2>8
  <2>10. data_over_flag'[i] = 1 <=> Len(longer) > N
    BY <1>1, <1>2, <1>3, <2>1, <2>2
  <2>11. rec_length'[i] = (IF Len(longer) > N THEN N ELSE Len(longer))
    BY <1>2, <2>2, <2>4
  <2> HIDE DEF longer
  <2> QED
    BY ONLY <2>9, <2>10, <2>11 DEF HoldsFrame
<1>5. CASE ~(n < N)
  <2>1. /\ data_over_flag' = [data_over_flag EXCEPT ![i] = 1]
        /\ rec_data' = rec_data /\ rec_length' = rec_length
    BY <1>5 DEF StoreByte
  <2>2. n = N /\ Len(frame) >= N /\ Len(longer) > N
    BY <1>1, <1>2, <1>3, <1>5
  <2>3. \A k \in 1 .. N : longer[k] = frame[k]
    BY <1>1, <2>2
  <2>4. \A k \in 1 .. rec_length'[i] : rec_data'[i][k] = longer[k]
    BY <1>3, <2>1, <2>2, <2>3
  <2>5. data_over_flag'[i] = 1 /\ rec_length'[i] = N
    BY <2>1, <2>2
  <2> HIDE DEF longer
  <2> QED
    BY ONLY <2>2, <2>4, <2>5 DEF HoldsFrame
<1> QED
  BY <1>4, <1>5

LEMMA StoredType ==
    ASSUME SoftTypeOK, NEW byte \in SoftByte, StoreByte(byte)
    PROVE  /\ rec_data' \in [Buffer -> [1 .. SOFT_UART_REC_LEN_MAX -> SoftByte]]
           /\ rec_length' \in [Buffer -> 0 .. SOFT_UART_REC_LEN_MAX]
           /\ data_over_flag' \in [Buffer -> {0, 1}]
           /\ \A i \in Buffer : i # index => data_over_flag'[i] = data_over_flag[i]
<1>1. CASE rec_length[index] < SOFT_UART_REC_LEN_MAX
  <2>1. rec_length[index] + 1 \in 1 .. SOFT_UART_REC_LEN_MAX
    BY <1>1, SoftAssumption DEF SoftTypeOK
  <2>2. rec_data'
           = [rec_data EXCEPT ![index] = [@ EXCEPT ![rec_length[index] + 1] = byte]]
    BY <1>1 DEF StoreByte
  <2>3. rec_data' \in [Buffer -> [1 .. SOFT_UART_REC_LEN_MAX -> SoftByte]]
    BY <2>1, <2>2 DEF SoftTypeOK
  <2>4. rec_length' = [rec_length EXCEPT ![index] = rec_length[index] + 1]
        /\ data_over_flag' = data_over_flag
    BY <1>1 DEF StoreByte
  <2>5. rec_length' \in [Buffer -> 0 .. SOFT_UART_REC_LEN_MAX]
    <3>1. rec_length[index] + 1 \in 0 .. SOFT_UART_REC_LEN_MAX
      BY <2>1
    <3> QED
      BY <2>4, <3>1 DEF SoftTypeOK
  <2> QED
    BY <2>3, <2>4, <2>5 DEF SoftTypeOK
<1>2. CASE ~(rec_length[index] < SOFT_UART_REC_LEN_MAX)
  BY <1>2 DEF SoftTypeOK, StoreByte
<1> QED
  BY <1>1, <1>2

LEMMA LastBitKeeps ==
    ASSUME Behind = 0, SoftInv, NEW b \in BOOLEAN, LastBit(b) PROVE SoftInv'
<1> SUFFICES ASSUME NEW frame, frame = line.whole, NEW byte, byte = OnLine(b),
                    NEW i, i = index
             PROVE  SoftInv'
  OBVIOUS
<1>1. Filling
  BY NoneBehind
<1>2. byte \in SoftByte /\ StoreByte(byte) /\ frame \in Seq(SoftByte)
  BY BitKept DEF LastBit, SoftInv, FrameType
<1>3. HoldsFrame(i, Append(frame, byte))'
  <2>1. i \in Buffer /\ HoldsFrame(i, frame)
    BY <1>1 DEF SoftInv, SoftTypeOK, Filling
  <2> QED
    BY <1>2, <2>1, ByteStored DEF SoftInv
<1>4. line' = [whole |-> Append(frame, byte), bits |-> {}]
  BY DEF LastBit
<1>5. Append(frame, byte) \in Seq(SoftByte) \ {<< >>}
  BY <1>2
<1>6. /\ rec_data' \in [Buffer -> [1 .. SOFT_UART_REC_LEN_MAX -> SoftByte]]
      /\ rec_length' \in [Buffer -> 0 .. SOFT_UART_REC_LEN_MAX]
      /\ data_over_flag' \in [Buffer -> {0, 1}]
      /\ \A j \in Buffer : j # index => data_over_flag'[j] = data_over_flag[j]
  BY <1>2, StoredType DEF SoftInv
<1>7. /\ UNCHANGED <<sotf_uart_rx_buff_state, index, process, sent>>
      /\ timer_application' = "timeout" /\ bit_num' = 0 /\ temp_byte' = {}
  BY DEF LastBit
<1>8. line'.whole = Append(frame, byte) /\ line'.bits = {}
      /\ line' \in [whole : Seq(SoftByte), bits : SoftByte]
  BY <1>4, <1>5 DEF SoftByte
<1>9. SoftTypeOK'
  <2>1. \A k \in 1 .. Len(line'.whole) : line'.whole[k] \in SoftByte
    BY <1>5, <1>8
  <2> QED
    BY <1>6, <1>7, <1>8, <2>1, SoftAssumption DEF SoftInv, SoftTypeOK, SoftByte
<1>10. FrameType' /\ BitsAgree'
  BY <1>5, <1>7, <1>8 DEF SoftInv, FrameType, BitsAgree
<1>11. Waiting'
  BY <1>7 DEF SoftInv, Waiting
<1>12. Filling'
  <2>1. data_over_flag'[1 - index] = 0
    BY <1>1, <1>6, Buffers DEF SoftInv, SoftTypeOK, Filling
  <2> QED
    BY <1>1, <1>3, <1>7, <1>8, <2>1 DEF Filling
<1> QED
  BY <1>9, <1>10, <1>11, <1>12 DEF SoftInv

LEMMA BitsComeAndGo ==
    ASSUME SoftInv,
           GpioIrq \/ (\E b \in BOOLEAN : SampleBit(b)) \/ UNCHANGED softVars
    PROVE  SoftInv'
<1>1. /\ UNCHANGED <<gotVars, index, process, sent>>
      /\ line'.whole = line.whole
      /\ line' \in [whole : Seq(SoftByte), bits : SoftByte]
      /\ temp_byte' = line'.bits
      /\ timer_application' # "sampling" => line'.bits = {} /\ bit_num' = 0
      /\ timer_application' = "timeout" => line'.whole # << >>
      /\ bit_num' \in 0 .. Bits - 1
      /\ timer_application' \in {"sampling", "timeout", "idle"}
  <2>1. CASE GpioIrq
    BY <2>1 DEF GpioIrq, SoftInv, FrameType, SoftTypeOK, BitsAgree
  <2>2. ASSUME NEW b \in BOOLEAN, SampleBit(b) PROVE <1>1!:
    <3>1. temp_byte' = OnLine(b) /\ OnLine(b) \in SoftByte
      BY <2>2, BitKept DEF SampleBit
    <3>2. bit_num' \in 0 .. Bits - 1
      BY <2>2, SoftAssumption DEF SampleBit, SoftInv, SoftTypeOK
    <3> QED
      BY <2>2, <3>1, <3>2 DEF SampleBit, SoftInv, FrameType, SoftTypeOK, BitsAgree
  <2>3. CASE UNCHANGED softVars
    BY <2>3 DEF softVars, SoftInv, FrameType, SoftTypeOK, BitsAgree
  <2> QED
    BY <2>1, <2>2, <2>3
<1>2. SoftTypeOK' /\ FrameType' /\ BitsAgree'
  <2>1. line'.bits \in SoftByte
    BY <1>1
  <2> QED
    BY <1>1, <2>1 DEF SoftInv, SoftTypeOK, FrameType, BitsAgree, gotVars
<1>3. Waiting'
  BY <1>1 DEF SoftInv, Waiting, gotVars
<1>4. Filling => Filling'
  BY <1>1 DEF Filling, HoldsFrame, gotVars
<1>5. Handing => Handing'
  BY <1>1 DEF Handing, HoldsFrame, gotVars
<1> QED
  BY <1>2, <1>3, <1>4, <1>5 DEF SoftInv

(* The buffer that was filled is handed over, and the other one is next. *)
LEMMA FrameEndsKeeps == ASSUME SoftInv, FrameEnds PROVE SoftInv'
<1> SUFFICES ASSUME NEW i \in Buffer, i = index, NEW frame \in Seq(SoftByte), frame = line.whole
             PROVE  SoftInv'
  BY DEF SoftInv, SoftTypeOK, FrameType
<1>1. Filling
  BY DEF FrameEnds, SoftInv, BitsAgree, Handing
<1>2. /\ Buffer = {i, 1 - i} /\ i # 1 - i /\ 1 - i \in Buffer
      /\ 1 - (1 - i) = i /\ (i + 1) % 2 = 1 - i
  BY Buffers DEF Buffer
<1>3. /\ sotf_uart_rx_buff_state' = [sotf_uart_rx_buff_state EXCEPT ![i] = "WAIT"]
      /\ UNCHANGED <<rec_data, rec_length, data_over_flag, temp_byte, process>>
      /\ timer_application' = "idle" /\ bit_num' = 0
      /\ sent' = [sent EXCEPT ![i] = frame]
      /\ line' = [whole |-> << >>, bits |-> {}]
  BY DEF FrameEnds
<1>4. index' = 1 - i
  <2>1. sotf_uart_rx_buff_state[1 - i] = "EMPTY_REC"
    BY <1>1, <1>2 DEF SoftInv, SoftTypeOK, Waiting, Filling
  <2> QED
    BY <1>2, <2>1 DEF FrameEnds, SoftInv, SoftTypeOK
<1>5. frame # Nobody
  BY NobodyAssumption
<1>6. SoftTypeOK'
  BY <1>2, <1>3, <1>4, SoftAssumption DEF SoftInv, SoftTypeOK, SoftByte
<1>7. FrameType' /\ BitsAgree'
  BY <1>3 DEF SoftInv, FrameType, BitsAgree, SoftByte, FrameEnds
<1>8. sent' = [j \in Buffer |-> IF j = i THEN frame ELSE Nobody]
  BY <1>1, <1>3 DEF Filling
<1>9. Waiting'
  <2>1. ASSUME NEW j \in Buffer
        PROVE  sotf_uart_rx_buff_state'[j] = "WAIT" <=> sent'[j] # Nobody
    BY <1>1, <1>3, <1>5, <1>8 DEF SoftInv, SoftTypeOK, Waiting, Filling
  <2>2. process'.at = "test"
    BY <1>1, <1>3 DEF SoftInv, SoftTypeOK, Waiting, Filling
  <2> QED
    BY <2>1, <2>2 DEF Waiting
<1>10. Handing'
  <2>1. sent'[index'] = Nobody /\ sent'[1 - index'] = frame
    BY <1>2, <1>4, <1>8
  <2>2. process'.at = "test"
    BY <1>1, <1>3 DEF SoftInv, SoftTypeOK, Waiting, Filling
  <2>3. HoldsFrame(i, frame)'
    BY <1>1, <1>3, FrameKept DEF Filling
  <2>4. HoldsFrame(1 - index, sent[1 - index])'
    BY <1>2, <1>4, <2>1, <2>3 DEF HoldsFrame
  <2>5. data_over_flag'[index'] = 0
    BY <1>1, <1>3, <1>4 DEF Filling
  <2> QED
    BY <1>3, <1>5, <2>1, <2>2, <2>4, <2>5 DEF Handing
<1> QED
  BY <1>6, <1>7, <1>9, <1>10 DEF SoftInv

(* The main loop at work on a buffer: it is the one that waits. *)
LEMMA AtTheOther ==
    ASSUME SoftInv, process.at # "test"
    PROVE  Handing /\ process.i = 1 - index /\ process.i # index
BY Buffers DEF SoftInv, SoftTypeOK, Waiting, Filling, Handing

LEMMA ProcessTestKeeps == ASSUME SoftInv, ProcessTest PROVE SoftInv'
<1>1. /\ UNCHANGED <<gotVars, index, bit_num, temp_byte, timer_application, line, sent>>
      /\ process' \in [at : {"test", "callback"}, i : Buffer]
      /\ process'.at = "callback" => sent[process'.i] # Nobody
      /\ process.at = "test"
  <2>1. (process.i + 1) % 2 \in Buffer
    BY DEF Buffer, SoftInv, SoftTypeOK
  <2>2. CASE sotf_uart_rx_buff_state[process.i] = "WAIT"
    <3>1. process' = [process EXCEPT !.at = "callback"] /\ sent[process.i] # Nobody
      BY <2>2 DEF ProcessTest, Go, SoftInv, SoftTypeOK, Waiting
    <3> QED
      BY <3>1 DEF ProcessTest, At, SoftInv, FrameType
  <2>3. CASE sotf_uart_rx_buff_state[process.i] # "WAIT"
    <3>1. process' = [at |-> "test", i |-> (process.i + 1) % 2]
      BY <2>3 DEF ProcessTest, NextBuffer
    <3> QED
      BY <2>1, <3>1 DEF ProcessTest, At
  <2> QED
    BY <2>2, <2>3
<1>2. SoftTypeOK' /\ FrameType' /\ BitsAgree' /\ Waiting'
  BY <1>1 DEF SoftInv, SoftTypeOK, FrameType, BitsAgree, Waiting, gotVars
<1>3. Filling => Filling'
  BY <1>1 DEF Filling, HoldsFrame, gotVars
<1>4. Handing => Handing'
  BY <1>1 DEF Handing, HoldsFrame, gotVars
<1> QED
  BY <1>2, <1>3, <1>4 DEF SoftInv

LEMMA CallbackKeeps == ASSUME SoftInv, soft_uart_rx_callback PROVE SoftInv'
<1> USE DEF soft_uart_rx_callback, At, Go
<1>1. Handing /\ process.i = 1 - index /\ process.i # index
  BY AtTheOther
<1>2. SoftTypeOK' /\ FrameType' /\ BitsAgree' /\ Waiting'
  BY DEF SoftInv, SoftTypeOK, FrameType, BitsAgree, Waiting
<1>3. Handing'
  BY <1>1 DEF Handing, SoftInv, SoftTypeOK
<1> QED
  BY <1>2, <1>3 DEF SoftInv

LEMMA ClearKeeps == ASSUME SoftInv, ProcessClear PROVE SoftInv'
<1> USE DEF ProcessClear, At, Go
<1>1. Handing
  BY AtTheOther
<1>2. rec_data' \in [Buffer -> [1 .. SOFT_UART_REC_LEN_MAX -> SoftByte]]
  BY DEF SoftInv, SoftTypeOK, SoftByte
<1>3. SoftTypeOK' /\ FrameType' /\ BitsAgree' /\ Waiting'
  BY <1>2 DEF SoftInv, SoftTypeOK, FrameType, BitsAgree, Waiting
<1>4. Handing'
  BY <1>1 DEF Handing
<1> QED
  BY <1>3, <1>4 DEF SoftInv

LEMMA LengthKeeps == ASSUME SoftInv, ProcessLength PROVE SoftInv'
<1> USE DEF ProcessLength, At, Go
<1>1. Handing
  BY AtTheOther
<1>0. rec_length' \in [Buffer -> 0 .. SOFT_UART_REC_LEN_MAX]
  <2>1. 0 \in 0 .. SOFT_UART_REC_LEN_MAX
    BY SoftAssumption
  <2> QED
    BY <2>1 DEF SoftInv, SoftTypeOK
<1>2. SoftTypeOK' /\ FrameType' /\ BitsAgree' /\ Waiting'
  BY <1>0 DEF SoftInv, SoftTypeOK, FrameType, BitsAgree, Waiting
<1>3. Handing'
  BY <1>1 DEF Handing, SoftInv, SoftTypeOK
<1> QED
  BY <1>2, <1>3 DEF SoftInv

LEMMA MarkKeeps == ASSUME SoftInv, ProcessMark PROVE SoftInv'
<1> USE DEF ProcessMark, At, NextBuffer
<1>1. Handing /\ process.i = 1 - index /\ process.i # index
  BY AtTheOther
<1>2. Buffer = {index, 1 - index} /\ (process.i + 1) % 2 \in Buffer
  BY Buffers DEF SoftInv, SoftTypeOK, Buffer
<1>3. SoftTypeOK' /\ FrameType' /\ BitsAgree'
  BY <1>2 DEF SoftInv, SoftTypeOK, FrameType, BitsAgree
<1>4. sent' = [i \in Buffer |-> Nobody]
  BY <1>1, <1>2 DEF Handing, SoftInv, FrameType
<1>5. Waiting'
  BY <1>1, <1>2, <1>4 DEF SoftInv, SoftTypeOK, Waiting, Handing
<1>6. Filling'
  <2>1. HoldsFrame(index, << >>)'
    BY <1>1, SoftAssumption DEF Handing, HoldsFrame
  <2> QED
    BY <1>1, <1>4, <2>1 DEF Filling, Handing, HoldsFrame
<1> QED
  BY <1>3, <1>5, <1>6 DEF SoftInv

LEMMA SoftInvStep ==
    ASSUME Behind = 0, SoftInv, [SoftNext]_softVars PROVE SoftInv'
BY BitsComeAndGo, LastBitKeeps, FrameEndsKeeps, ProcessTestKeeps, CallbackKeeps,
   ClearKeeps, LengthKeeps, MarkKeeps DEF SoftNext

(* If the main loop is done with a frame before the first byte of the next one
   is in, every callback gets the frame that was on the line, whatever the
   lengths of bytes, buffers and frames (main.c:106-114, main.c:235-242). *)
THEOREM FramesArriveIntact == ASSUME Behind = 0 PROVE SoftSpec => []FrameIntact
<1>1. SoftInit => SoftInv
  BY SoftInvInit
<1>2. SoftInv /\ [SoftNext]_softVars => SoftInv'
  BY SoftInvStep
<1>3. SoftInv => FrameIntact
  BY AtTheOther DEF FrameIntact, SoftInv, SoftTypeOK, Handing, HoldsFrame
<1> QED
  BY <1>1, <1>2, <1>3, PTL DEF SoftSpec
-----------------------------------------------------------------------------
(***************************************************************************)
(* The demonstrations of the UART.                                         *)
(***************************************************************************)

(* From place k of the buffer on bytes follow each other. *)
InOrderFrom(k) ==
    \A j \in k .. TRANS_BUF_LEN - 2 : recv_buff[j + 1] = Next1(recv_buff[j])

NdmaType ==
    /\ uart_pc \in {"wait", "count", "flag", "echo", "send"}
    /\ uart_line \in 0 .. LineMod - 1
    /\ uart_ndmairq_cnt \in 0 .. TRANS_BUF_LEN /\ uart_rx_flag \in {0, 1}
    /\ recv_buff \in [0 .. TRANS_BUF_LEN -> 0 .. LineMod] /\ late \in BOOLEAN
    /\ echoed \in Seq(0 .. LineMod)

(* While the flag is down the bytes before the count were the last on the line;
   the flag goes up when the buffer is full, and from then on the interrupt
   leaves it alone until the flag is taken back. *)
Collecting ==
    /\ recv_buff[TRANS_BUF_LEN] = LineMod
    /\ uart_rx_flag = 0 =>
         /\ uart_ndmairq_cnt < TRANS_BUF_LEN
         /\ \A j \in 0 .. uart_ndmairq_cnt - 2 : recv_buff[j + 1] = Next1(recv_buff[j])
         /\ uart_ndmairq_cnt > 0 => uart_line = Next1(recv_buff[uart_ndmairq_cnt - 1])
    /\ uart_rx_flag = 1 => InOrderFrom(0)
    /\ uart_pc \in {"count", "flag"} => uart_rx_flag = 1
    /\ uart_pc = "flag" => uart_ndmairq_cnt = 0

(* While a block is sent back the interrupt stays behind: it overwrites what was
   sent, or, before anything was, the first byte. *)
Echoing ==
    LET L == Len(echoed) IN
    /\ uart_pc \in {"wait", "count", "flag"} => echoed = << >> /\ ~late
    /\ uart_pc = "echo" =>
         /\ uart_rx_flag = 0 /\ L < TRANS_BUF_LEN
         /\ uart_ndmairq_cnt <= 1 \/ uart_ndmairq_cnt <= L
         /\ InOrderFrom(IF L > 0 THEN L ELSE IF late THEN 1 ELSE 0)
         /\ L > 0 /\ (L > 1 \/ ~late) => recv_buff[L] = Next1(echoed[L])
    /\ \A i \in 1 .. L - 1 : i > 1 \/ ~late => echoed[i + 1] = Next1(echoed[i])

NdmaInv == NdmaType /\ Collecting /\ Echoing

(* While the flag is down a transmission is under way, or the interrupt of its
   end to come; while it is up neither. *)
DmaInv ==
    /\ uart_pc \in {"wait", "spin", "flag", "test2", "flag2"}
    /\ sending \in Nat /\ TX_DONE \in BOOLEAN /\ uart_dma_tx_flag \in {0, 1}
    /\ uart_pc \in {"flag", "flag2"} => uart_dma_tx_flag = 1 /\ sending = 1 /\ ~TX_DONE
    /\ uart_pc \notin {"flag", "flag2"} =>
         /\ uart_dma_tx_flag = 1 => sending = 0 /\ ~TX_DONE
         /\ uart_dma_tx_flag = 0 => sending = (IF TX_DONE THEN 0 ELSE 1)

(* The demonstration that is not looked at stands still. *)
StandsStill ==
    /\ uart \in {"init", "ndma", "dma"}
    /\ uart # "init" => nodes = << >>
    /\ uart # "ndma" => recv_buff[TRANS_BUF_LEN] = LineMod /\ echoed = << >>
    /\ uart # "dma" => sending = 0 /\ uart_dma_tx_flag = 1

UartInv ==
    /\ StandsStill
    /\ uart = "ndma" => NdmaInv
    /\ uart = "dma" => DmaInv

LEMMA NumberFollows ==
    ASSUME NEW n \in 0 .. LineMod PROVE Next1(n) \in 0 .. LineMod - 1
BY UartDemoAssumption DEF Next1

LEMMA BlockIsFull ==
    ASSUME NEW n \in 1 .. TRANS_BUF_LEN PROVE n % TRANS_BUF_LEN = 0 <=> n = TRANS_BUF_LEN
<1>1. CASE n = TRANS_BUF_LEN
  BY <1>1, UartDemoAssumption
<1>2. CASE n # TRANS_BUF_LEN
  <2>1. n % TRANS_BUF_LEN = n
    BY <1>2, UartDemoAssumption
  <2> QED
    BY <1>2, <2>1
<1> QED
  BY <1>1, <1>2

LEMMA UartInvInit == UartInit => UartInv
<1> SUFFICES ASSUME UartInit PROVE UartInv
  OBVIOUS
<1>1. TRANS_BUF_LEN \in Nat \ {0, 1} /\ LineMod \in Nat /\ LineMod > 0
  BY UartDemoAssumption
<1>2. recv_buff[TRANS_BUF_LEN] = LineMod
      /\ recv_buff \in [0 .. TRANS_BUF_LEN -> 0 .. LineMod]
  BY <1>1 DEF UartInit
<1>3. NdmaInv
  BY <1>1, <1>2 DEF UartInit, NdmaInv, NdmaType, Collecting, Echoing
<1>4. DmaInv
  BY DEF UartInit, DmaInv
<1> QED
  BY <1>2, <1>3, <1>4 DEF UartInit, UartInv, StandsStill

(* A byte of the line goes into the buffer. *)
LEMMA NdmaIrqKeeps ==
    ASSUME NdmaInv, uart = "ndma", NdmaIrq PROVE NdmaInv'
<1>0. TRANS_BUF_LEN \in Nat \ {0, 1} /\ LineMod \in Nat /\ LineMod > 0
  BY UartDemoAssumption
<1>1. uart_line' \in 0 .. LineMod - 1 /\ uart_line' = Next1(uart_line)
  BY <1>0, NumberFollows DEF NdmaInv, NdmaType, NdmaIrq
<1>2. UNCHANGED <<uart_pc, echoed>>
  BY DEF NdmaIrq
<1>3. CASE uart_rx_flag = 1
  <2>1. UNCHANGED <<recv_buff, uart_ndmairq_cnt, uart_rx_flag, late>>
    BY <1>3 DEF NdmaIrq
  <2>2. NdmaType'
    BY <1>1, <1>2, <2>1 DEF NdmaInv, NdmaType
  <2>3. Collecting'
    BY <1>2, <1>3, <2>1 DEF NdmaInv, Collecting, InOrderFrom
  <2>4. Echoing'
    BY <1>2, <1>3, <2>1 DEF NdmaInv, Echoing, InOrderFrom
  <2> QED
    BY <2>2, <2>3, <2>4 DEF NdmaInv
<1>4. CASE uart_rx_flag = 0
  <2> DEFINE c == uart_ndmairq_cnt
             L == Len(echoed)
             T == TRANS_BUF_LEN
  <2>1. c \in 0 .. T - 1 /\ c' = c + 1 /\ L \in Nat
    BY <1>0, <1>4 DEF NdmaInv, NdmaType, Collecting, NdmaIrq
  <2>2. recv_buff' = [recv_buff EXCEPT ![c] = uart_line]
        /\ uart_rx_flag' = (IF c' % T = 0 THEN 1 ELSE 0)
    BY <1>4 DEF NdmaIrq
  <2>10. /\ uart_pc = "echo" => c = 0 \/ c < L
         /\ late' <=> late \/ (uart_pc = "echo" /\ L = 0)
         /\ late' \in BOOLEAN
    <3>1. echoed = << >> <=> L = 0
      BY DEF NdmaInv, NdmaType
    <3> QED
      BY <1>4, <3>1 DEF NdmaIrq, NdmaInv, NdmaType
  <2>9. c \in 0 .. T /\ uart_line \in 0 .. LineMod /\ recv_buff \in [0 .. T -> 0 .. LineMod]
    BY <1>0, <2>1 DEF NdmaInv, NdmaType
  <2>3. /\ recv_buff' \in [0 .. T -> 0 .. LineMod] /\ recv_buff'[c] = uart_line
        /\ \A j \in 0 .. T : j # c => recv_buff'[j] = recv_buff[j]
    BY <2>2, <2>9
  <2>4. c + 1 \in 1 .. T /\ uart_rx_flag' = (IF c + 1 = T THEN 1 ELSE 0)
    <3>1. c + 1 \in 1 .. T
      BY <1>0, <2>1
    <3>2. (c + 1) % T = 0 <=> c + 1 = T
      BY <3>1, BlockIsFull
    <3> QED
      BY <2>1, <2>2, <3>1, <3>2
  <2>5. NdmaType'
    <3>1. c' \in 0 .. T /\ uart_rx_flag' \in {0, 1}
      BY <1>0, <2>1, <2>4
    <3> QED
      BY <1>1, <1>2, <2>3, <2>10, <3>1 DEF NdmaInv, NdmaType
  <2>6. \A j \in 0 .. c - 1 : recv_buff'[j + 1] = Next1(recv_buff'[j])
    <3> TAKE j \in 0 .. c - 1
    <3>1. j \in 0 .. T /\ j # c /\ recv_buff'[j] = recv_buff[j]
      BY <1>0, <2>1, <2>3
    <3>2. CASE j + 1 = c
      BY <1>4, <2>1, <2>3, <3>1, <3>2 DEF NdmaInv, Collecting
    <3>3. CASE j + 1 # c
      <4>1. j \in 0 .. c - 2 /\ j + 1 \in 0 .. T /\ j + 1 # c
        BY <1>0, <2>1, <3>3
      <4> QED
        BY <1>4, <2>3, <3>1, <4>1 DEF NdmaInv, Collecting
    <3> QED
      BY <3>2, <3>3
  <2>7. Collecting'
    <3>1. recv_buff'[T] = LineMod
      BY <1>0, <2>1, <2>3 DEF NdmaInv, Collecting
    <3>2. uart_rx_flag' = 0 =>
            /\ c' < T
            /\ \A j \in 0 .. c' - 2 : recv_buff'[j + 1] = Next1(recv_buff'[j])
            /\ c' > 0 => uart_line' = Next1(recv_buff'[c' - 1])
      BY <1>0, <1>1, <2>1, <2>3, <2>4, <2>6
    <3>3. uart_rx_flag' = 1 => \A j \in 0 .. T - 2 : recv_buff'[j + 1] = Next1(recv_buff'[j])
      BY <1>0, <2>1, <2>4, <2>6
    <3>4. uart_pc' \notin {"count", "flag"}
      BY <1>2, <1>4 DEF NdmaInv, Collecting
    <3> QED
      BY <3>1, <3>2, <3>3, <3>4 DEF Collecting, InOrderFrom
  <2>8. Echoing'
    <3>1. CASE uart_pc # "echo"
      <4>1. late' <=> late
        BY <2>10, <3>1
      <4>2. UNCHANGED <<uart_pc, echoed>>
        BY <1>2
      <4> QED
        BY <3>1, <4>1, <4>2 DEF NdmaInv, Echoing
    <3>2. CASE uart_pc = "echo"
      <4> DEFINE k == IF L > 0 THEN L ELSE IF late' THEN 1 ELSE 0
      <4>1. L < T /\ InOrderFrom(IF L > 0 THEN L ELSE IF late THEN 1 ELSE 0)
            /\ (L > 0 /\ (L > 1 \/ ~late) => recv_buff[L] = Next1(echoed[L]))
        BY <3>2 DEF NdmaInv, Echoing
      <4>2. L > 0 => (late' <=> late)
        BY <2>1, <2>10
      <4>11. \A i \in 1 .. L - 1 : i > 1 \/ ~late => echoed[i + 1] = Next1(echoed[i])
        BY DEF NdmaInv, Echoing
      <4> HIDE DEF L, c, T
      <4>3. L = 0 => late' /\ c = 0
        BY <2>1, <2>10, <3>2
      <4>9. T \in Nat \ {0, 1} /\ c \in 0 .. T /\ L \in Nat /\ L < T
            /\ (c = 0 \/ c < L)
        BY <1>0, <2>10, <2>9, <2>1, <3>2, <4>1 DEF T
      <4>4. ~(c + 1 = T) /\ c + 1 <= (IF L > 0 THEN L ELSE 1)
        BY ONLY <4>9
      <4>5. \A j \in k .. T - 2 : recv_buff'[j + 1] = Next1(recv_buff'[j])
        <5> TAKE j \in k .. T - 2
        <5>1. j \in 0 .. T /\ j + 1 \in 0 .. T /\ j # c /\ j + 1 # c
          <6>1. k \in Nat /\ c < k
            BY <4>3, <4>9
          <6> QED
            BY ONLY <4>9, <6>1, j \in k .. T - 2
        <5>2. recv_buff[j + 1] = Next1(recv_buff[j])
          BY <4>1, <4>2, <4>3, <4>9 DEF InOrderFrom, T
        <5> QED
          BY <2>3, <5>1, <5>2
      <4>6. L > 0 /\ (L > 1 \/ ~late) => recv_buff'[L] = Next1(echoed[L])
        <5>1. L > 0 => L \in 0 .. T /\ L # c
          BY <4>9
        <5> QED
          BY <2>3, <4>1, <5>1
      <4>7. \A i \in 1 .. L - 1 : i > 1 \/ ~late' => echoed[i + 1] = Next1(echoed[i])
        BY <4>2, <4>9, <4>11
      <4>8. uart_rx_flag' = 0 /\ (c' <= 1 \/ c' <= L)
        BY <2>1, <2>4, <4>4
      <4>12. L > 0 /\ (L > 1 \/ ~late') => recv_buff'[L] = Next1(echoed[L])
        BY <4>2, <4>6
      <4>13. /\ uart_pc' = "echo" /\ echoed' = echoed /\ Len(echoed') = L
             /\ uart_ndmairq_cnt' = c'
        BY <1>2, <3>2 DEF L, c
      <4> QED
        BY <4>5, <4>7, <4>8, <4>9, <4>12, <4>13 DEF Echoing, InOrderFrom, T
    <3> QED
      BY <3>1, <3>2
  <2> QED
    BY <2>5, <2>7, <2>8 DEF NdmaInv
<1> QED
  BY <1>3, <1>4 DEF NdmaInv, NdmaType

(* The main loop sends the next byte back. *)
LEMMA NdmaEchoKeeps ==
    ASSUME NdmaInv, uart = "ndma", NdmaEcho PROVE NdmaInv'
<1> DEFINE L == Len(echoed)
           T == TRANS_BUF_LEN
           from == IF L > 0 THEN L ELSE IF late THEN 1 ELSE 0
<1>1. /\ uart_pc = "echo" /\ uart_pc' = (IF L + 1 = T THEN "send" ELSE "echo")
      /\ echoed' = Append(echoed, recv_buff[L])
      /\ UNCHANGED <<uart_line, uart_ndmairq_cnt, uart_rx_flag, recv_buff>>
  BY DEF NdmaEcho, UartAt
<1>2. (late' <=> late) /\ late' \in BOOLEAN
  BY DEF NdmaEcho, NdmaInv, NdmaType
<1>3. /\ T \in Nat \ {0, 1} /\ L \in Nat /\ L < T
      /\ uart_ndmairq_cnt <= 1 \/ uart_ndmairq_cnt <= L
      /\ uart_ndmairq_cnt \in Nat
  BY <1>1, UartDemoAssumption DEF NdmaInv, NdmaType, Echoing
<1>4. InOrderFrom(from) /\ (L > 0 /\ (L > 1 \/ ~late) => recv_buff[L] = Next1(echoed[L]))
  BY <1>1 DEF NdmaInv, Echoing
<1>5. recv_buff[L] \in 0 .. LineMod
  BY <1>3 DEF NdmaInv, NdmaType
<1>6. /\ echoed' \in Seq(0 .. LineMod) /\ Len(echoed') = L + 1
      /\ echoed'[L + 1] = recv_buff[L]
      /\ \A i \in 1 .. L : echoed'[i] = echoed[i]
  BY <1>1, <1>5 DEF NdmaInv, NdmaType
<1>7. NdmaType'
  <2>1. uart_pc' \in {"echo", "send"}
    BY <1>1
  <2> QED
    BY <1>1, <1>2, <1>6, <2>1 DEF NdmaInv, NdmaType
<1>8. Collecting'
  <2>1. uart_pc' \notin {"count", "flag"} /\ uart_rx_flag = 0
    BY <1>1 DEF NdmaInv, Echoing
  <2> QED
    BY <1>1, <2>1 DEF NdmaInv, Collecting
<1>9. InOrderFrom(L + 1)
  BY <1>3, <1>4 DEF InOrderFrom
<1>10. ASSUME L + 1 > 1 \/ ~late, L + 1 < T
       PROVE  recv_buff[L + 1] = Next1(recv_buff[L])
  <2>1. L \in from .. T - 2
    BY <1>3, <1>10
  <2> QED
    BY <1>4, <2>1 DEF InOrderFrom
<1>11. ASSUME NEW i \in 1 .. L, i > 1 \/ ~late PROVE echoed'[i + 1] = Next1(echoed'[i])
  <2>1. CASE i = L
    BY <1>3, <1>4, <1>6, <1>11, <2>1
  <2>2. CASE i # L
    <3>1. i \in 1 .. L - 1 /\ i + 1 \in 1 .. L
      BY <1>3, <2>2
    <3>2. echoed[i + 1] = Next1(echoed[i])
      BY <1>11, <3>1 DEF NdmaInv, Echoing
    <3> QED
      BY <1>6, <3>1, <3>2
  <2> QED
    BY <2>1, <2>2
<1>12. Echoing'
  <2> HIDE DEF L, T
  <2>1. uart_pc' \notin {"wait", "count", "flag"}
    BY <1>1
  <2>2. uart_pc' = "echo" => L + 1 < T
    BY <1>1, <1>3
  <2>3. uart_rx_flag' = 0 /\ (uart_ndmairq_cnt' <= 1 \/ uart_ndmairq_cnt' <= L + 1)
    BY <1>1, <1>3 DEF NdmaInv, Echoing
  <2>4. \A j \in L + 1 .. T - 2 : recv_buff'[j + 1] = Next1(recv_buff'[j])
    BY <1>1, <1>9 DEF InOrderFrom, L, T
  <2>5. uart_pc' = "echo" /\ (L + 1 > 1 \/ ~late')
          => recv_buff'[L + 1] = Next1(echoed'[L + 1])
    BY <1>1, <1>2, <1>6, <1>10, <2>2
  <2>6. \A i \in 1 .. L : i > 1 \/ ~late' => echoed'[i + 1] = Next1(echoed'[i])
    BY <1>2, <1>11
  <2>7. L + 1 > 0 /\ (L + 1) - 1 = L
    BY <1>3
  <2>8. Len(echoed') = L + 1
    BY <1>6 DEF L
  <2> QED
    BY <2>1, <2>2, <2>3, <2>4, <2>5, <2>6, <2>7, <2>8 DEF Echoing, InOrderFrom, T
<1> QED
  BY <1>7, <1>8, <1>12 DEF NdmaInv

(* The other steps of the main loop. *)
LEMMA NdmaLoopKeeps ==
    ASSUME NdmaInv, uart = "ndma", NdmaTest \/ NdmaCount \/ NdmaFlag \/ NdmaSend
    PROVE  NdmaInv'
<1>0. TRANS_BUF_LEN \in Nat \ {0, 1} /\ echoed = << >> => Len(echoed) = 0
  BY UartDemoAssumption
<1>1. CASE NdmaTest
  <2>1. /\ UNCHANGED ndmaVars /\ uart_pc' \in {"count", "send"}
        /\ uart_pc = "wait" /\ (uart_pc' = "count" => uart_rx_flag = 1)
    BY <1>1 DEF NdmaTest, UartAt
  <2> QED
    BY <2>1 DEF NdmaInv, NdmaType, Collecting, Echoing, ndmaVars, InOrderFrom
<1>2. CASE NdmaCount
  <2>1. /\ UNCHANGED <<uart_line, uart_rx_flag, recv_buff, echoed, late>>
        /\ uart_ndmairq_cnt' = 0 /\ uart_pc = "count" /\ uart_pc' = "flag"
    BY <1>2 DEF NdmaCount, UartAt
  <2> QED
    BY <2>1, UartDemoAssumption DEF NdmaInv, NdmaType, Collecting, Echoing, InOrderFrom
<1>3. CASE NdmaFlag
  <2>1. /\ UNCHANGED <<uart_line, uart_ndmairq_cnt, recv_buff, echoed, late>>
        /\ uart_rx_flag' = 0 /\ uart_pc = "flag" /\ uart_pc' = "echo"
    BY <1>3 DEF NdmaFlag, UartAt
  <2>2. uart_ndmairq_cnt = 0 /\ InOrderFrom(0) /\ echoed = << >> /\ ~late
    BY <2>1 DEF NdmaInv, Collecting, Echoing
  <2>3. NdmaType' /\ Collecting'
    BY <2>1, <2>2, UartDemoAssumption DEF NdmaInv, NdmaType, Collecting
  <2>4. Len(echoed') = 0 /\ ~late'
    BY <2>1, <2>2
  <2>5. InOrderFrom(0)'
    BY <2>1, <2>2 DEF InOrderFrom
  <2>6. Echoing'
    <3>1. \A j \in 0 .. TRANS_BUF_LEN - 2 : recv_buff'[j + 1] = Next1(recv_buff'[j])
      BY <2>5 DEF InOrderFrom
    <3>2. uart_pc' = "echo" /\ uart_rx_flag' = 0 /\ uart_ndmairq_cnt' = 0
      BY <2>1, <2>2
    <3>3. TRANS_BUF_LEN \in Nat \ {0, 1}
      BY UartDemoAssumption
    <3> QED
      BY ONLY <2>4, <3>1, <3>2, <3>3 DEF Echoing, InOrderFrom
  <2> QED
    BY <2>3, <2>6 DEF NdmaInv
<1>4. CASE NdmaSend
  <2>1. /\ UNCHANGED <<uart_line, uart_ndmairq_cnt, uart_rx_flag, recv_buff>>
        /\ echoed' = << >> /\ ~late' /\ late' \in BOOLEAN
        /\ uart_pc = "send" /\ uart_pc' = "wait"
    BY <1>4 DEF NdmaSend, UartAt
  <2>2. NdmaType' /\ Collecting'
    BY <2>1 DEF NdmaInv, NdmaType, Collecting, InOrderFrom
  <2>4. Len(echoed') = 0
    BY <2>1
  <2>3. Echoing'
    BY <2>1, <2>4 DEF Echoing
  <2> QED
    BY <2>2, <2>3 DEF NdmaInv
<1> QED
  BY <1>1, <1>2, <1>3, <1>4

LEMMA DmaStepKeeps ==
    ASSUME DmaInv, uart = "dma",
           \/ DmaRxIrq \/ DmaSent \/ DmaTxIrq \/ DmaTest \/ DmaEcho \/ DmaSend \/ DmaRest
           \/ DmaClear("flag", "test2") \/ DmaClear("flag2", "wait")
    PROVE  DmaInv'
<1> USE DEF DmaInv, UartAt, uart_send_dma
<1>1. CASE DmaRxIrq
  BY <1>1 DEF DmaRxIrq
<1>2. CASE DmaSent
  BY <1>2 DEF DmaSent
<1>3. CASE DmaTxIrq
  BY <1>3 DEF DmaTxIrq
<1>4. CASE DmaTest
  BY <1>4 DEF DmaTest
<1>5. CASE DmaEcho \/ DmaSend
  <2>1. /\ uart_pc \in {"spin", "test2"} /\ uart_pc' \in {"flag", "flag2"}
        /\ uart_dma_tx_flag = 1 /\ uart_dma_tx_flag' = 1
        /\ sending' = sending + 1 /\ TX_DONE' = FALSE
    BY <1>5 DEF DmaEcho, DmaSend
  <2>2. sending' = 1
    BY <2>1
  <2>3. ~TX_DONE' /\ TX_DONE' \in BOOLEAN
    BY <2>1
  <2>4. uart_pc' \in {"flag", "flag2"} /\ uart_dma_tx_flag' = 1
    BY <2>1
  <2> QED
    BY ONLY <2>2, <2>3, <2>4 DEF DmaInv
<1>6. CASE DmaRest
  <2>1. /\ uart_pc = "test2" /\ uart_pc' = "wait"
        /\ UNCHANGED <<uart_dma_tx_flag, sending, TX_DONE>>
    BY <1>6 DEF DmaRest, dmaVars
  <2> QED
    BY <2>1
<1>7. CASE DmaClear("flag", "test2") \/ DmaClear("flag2", "wait")
  BY <1>7 DEF DmaClear
<1> QED
  BY <1>1, <1>2, <1>3, <1>4, <1>5, <1>6, <1>7

LEMMA UartInvStep == UartInv /\ [UartNext]_uartVars => UartInv'
<1> SUFFICES ASSUME UartInv, [UartNext]_uartVars PROVE UartInv'
  OBVIOUS
<1>1. CASE (\E baud \in Baud, clock \in SysClock : uart_init_baudrate(baud, clock)) \/ OtherNodes
  BY <1>1 DEF UartInv, StandsStill, uart_init_baudrate, OtherNodes, ndmaVars, dmaVars
<1>2. CASE NdmaIrq \/ NdmaTest \/ NdmaCount \/ NdmaFlag \/ NdmaEcho \/ NdmaSend
  <2>1. uart = "ndma" /\ UNCHANGED <<uart, nodes, dmaVars>>
    BY <1>2 DEF NdmaIrq, NdmaTest, NdmaCount, NdmaFlag, NdmaEcho, NdmaSend, UartAt
  <2>2. NdmaInv'
    BY <1>2, <2>1, NdmaIrqKeeps, NdmaEchoKeeps, NdmaLoopKeeps DEF UartInv
  <2> QED
    BY <2>1, <2>2 DEF UartInv, StandsStill, dmaVars
<1>3. CASE \/ DmaRxIrq \/ DmaSent \/ DmaTxIrq \/ DmaTest \/ DmaEcho \/ DmaSend \/ DmaRest
           \/ DmaClear("flag", "test2") \/ DmaClear("flag2", "wait")
  <2>1. uart = "dma" /\ UNCHANGED <<uart, nodes, ndmaVars>>
    BY <1>3 DEF DmaRxIrq, DmaSent, DmaTxIrq, DmaTest, DmaEcho, DmaSend, DmaRest, DmaClear,
               UartAt, uart_send_dma
  <2>2. DmaInv'
    BY <1>3, <2>1, DmaStepKeeps DEF UartInv
  <2> QED
    BY <2>1, <2>2 DEF UartInv, StandsStill, ndmaVars
<1>4. CASE UNCHANGED uartVars
  BY <1>4 DEF uartVars, ndmaVars, dmaVars, UartInv, StandsStill, NdmaInv, NdmaType, Collecting,
             Echoing, InOrderFrom, DmaInv
<1> QED
  BY <1>1, <1>2, <1>3, <1>4 DEF UartNext

(* In both demonstrations, whatever the length of a block: what uart_ndma sends
   back are bytes that followed each other on the line, but for a first one that
   came late, and uart_dma neither sends two packets at once nor waits for the
   end of one that is over (uart_ndma/main.c:92-95, uart_dma/main.c:90-102).
   The baud rates are another matter. *)
THEOREM DemosSound == UartSpec => [](uart # "init" => UartSound)
<1>1. UartInit => UartInv
  BY UartInvInit
<1>2. UartInv /\ [UartNext]_uartVars => UartInv'
  BY UartInvStep
<1>3. UartInv => (uart # "init" => UartSound)
  <2> SUFFICES ASSUME UartInv, uart # "init" PROVE UartSound
    OBVIOUS
  <2>1. BlockEchoed
    BY DEF UartInv, StandsStill, NdmaInv, Collecting, Echoing, BlockEchoed
  <2>2. SendsInTurn
    BY DEF UartInv, StandsStill, DmaInv, SendsInTurn
  <2>3. BaudsAgree
    BY DEF UartInv, StandsStill, BaudsAgree
  <2> QED
    BY <2>1, <2>2, <2>3 DEF UartSound
<1> QED
  BY <1>1, <1>2, <1>3, PTL DEF UartSpec
-----------------------------------------------------------------------------
(***************************************************************************)
(* The control endpoint of USB.                                            *)
(***************************************************************************)

UsbByte == (Descriptor \X Nat) \cup Value

UsbRecord ==
    [g_response : Seq(UsbByte), g_stall : {0, 1},
     usb_len_idx_0 : 0 .. 8, usb_len_idx_s : Nat, usb_len_idx_h : Nat,
     reg_usb_sups_cyc_cali : {"0x38", "0x18"},
     setting : [Setting -> Value],
     control_request : Request \cup {<< >>},
     fifo : Request \cup Seq(UsbByte),
     data_ctl : {"nak", "ack", "stall"}, sta_ctl : {"nak", "ack", "stall"}]

Transfer ==
    [stage : {"in", "out", "status", "ending", "done", "stalled"},
     request : Request, got : Seq(UsbByte), marked : BOOLEAN]

UsbShape ==
    /\ usb \in UsbRecord
    /\ host = NoTransfer \/ host \in Transfer
    /\ believed \in [Setting -> SUBSET Value]

(* What a request for a descriptor that there is promises. *)
Promises(r) ==
    /\ \/ r.kind = "device" /\ r.of \in DeviceDesc
       \/ r.kind = "interface" /\ r.of \in InterfaceDesc
    /\ r.of # "unknown"

Promised(r) == Cut(Content(r.of), r.length)

(* What the device refuses. *)
Fails(r) ==
    r.kind = "refused" \/ (r.kind \in {"device", "interface"} /\ r.of = "unknown")

(* Of a promise the host has p bytes, whole packets, and wants more. *)
HasGot(r, p) ==
    /\ p \in 0 .. Len(Promised(r)) /\ p % 8 = 0 /\ p < r.length
    /\ Len(host.got) = p /\ host.got = SubSeq(Promised(r), 1, p)
    /\ host.marked

(* The host takes a setting for what it may be, unless a reset is under way,
   which leaves it as the host takes it to be. *)
BelievedRight ==
    /\ \A s \in Setting :
         s # "usb_mouse_report_proto" \/ "RESET" \notin irq => usb.setting[s] \in believed[s]
    /\ "RESET" \in irq => DefaultValue \in believed["usb_mouse_report_proto"]

(* Which interrupts may be pending at which stage. *)
PendingAt ==
    \/ host = NoTransfer /\ irq \subseteq {"RESET"}
    \/ host # NoTransfer /\ irq = {} /\ host.stage \in {"in", "out", "status", "ending", "done", "stalled"}
    \/ host # NoTransfer /\ irq = {"SETUP"} /\ host.stage = FirstStage(host.request)
    \/ /\ host # NoTransfer /\ irq = {"SETUP", "STA"} /\ host.stage = "ending"
       /\ FirstStage(host.request) = "status"
    \/ host # NoTransfer /\ irq = {"DATA"} /\ host.stage \in {"in", "status"}
    \/ host # NoTransfer /\ irq \in {{"STA"}, {"DATA", "STA"}} /\ host.stage = "ending"

(* A request that the device has not seen. *)
Unseen(r) ==
    /\ usb.fifo = r /\ usb.data_ctl = "nak"
    /\ host.got = << >> /\ host.marked

(* One that it has. *)
Seen(r) ==
    /\ usb.control_request = r /\ usb.usb_len_idx_h = r.length
    /\ usb.g_stall = (IF Fails(r) THEN 1 ELSE 0)
    /\ r.kind = "device" /\ ~Fails(r) => usb.usb_len_idx_s = DescLen[r.of]

(* The stages in which data goes to the host. *)
In(r) ==
    /\ r.kind \in {"device", "interface", "get"}
    /\ irq = {} => usb.data_ctl = (IF Fails(r) THEN "stall" ELSE "ack")
    /\ irq = {} /\ ~Fails(r) =>
         /\ usb.fifo \in Seq(UsbByte)
         /\ Promises(r) =>
              \E p \in Nat, n \in 0 .. 8 :
                /\ HasGot(r, p)
                /\ n = (IF Len(Promised(r)) - p < 8 THEN Len(Promised(r)) - p ELSE 8)
                /\ usb.fifo = SubSeq(Promised(r), p + 1, p + n)
                /\ usb.g_response = SubSeq(Promised(r), p + n + 1, Len(Promised(r)))
                /\ r.kind = "device" /\ n = 0 => usb.reg_usb_sups_cyc_cali = "0x18"
         /\ r.kind = "get" => host.got = << >> /\ \E v \in believed[r.of] : usb.fifo = <<v>>
    /\ irq = {"DATA"} =>
         /\ ~Fails(r) /\ r.kind # "get" /\ usb.data_ctl = "nak"
         /\ Promises(r) =>
              \E p \in Nat :
                /\ HasGot(r, p)
                /\ usb.g_response = SubSeq(Promised(r), p + 1, Len(Promised(r)))

Out(r) == r.kind = "set" /\ r.of = "LineCoding" /\ usb.data_ctl = "ack"

(* The data is over. *)
Over(r) ==
    /\ Promises(r) => host.got = Promised(r)
    /\ r.kind \in {"device", "interface"} => ~Fails(r)
    /\ r.kind = "get" => \E v \in believed[r.of] : host.got = <<v>>
    /\ r.kind = "device" => host.marked
    /\ r.kind = "set" =>
         IF "DATA" \in irq THEN r.of = "LineCoding" /\ usb.fifo = <<r.value>>
                           ELSE usb.setting[r.of] = r.value
    /\ r.kind = "refused" => "DATA" \notin irq

Answer(r) ==
    /\ r.kind = "set" => r.value \in believed[r.of]
    /\ host.stage \in {"in", "out", "status"} => usb.sta_ctl = "nak"
    /\ host.stage = "ending" =>
         usb.sta_ctl = (IF "STA" \in irq THEN "nak" ELSE IF Fails(r) THEN "stall" ELSE "ack")
    /\ "SETUP" \in irq => Unseen(r)
    /\ "SETUP" \notin irq =>
         /\ Seen(r)
         /\ host.stage = "in" => In(r)
         /\ host.stage = "out" => Out(r)
         /\ host.stage \in {"status", "ending", "done"} => Over(r)
         /\ host.stage = "done" => ~Fails(r)
         /\ host.stage = "stalled" => Fails(r)

Answered == \A r \in Request : host # NoTransfer /\ host.request = r => Answer(r)

UsbInv ==
    /\ UsbShape
    /\ BelievedRight
    /\ PendingAt
    /\ Answered

LEMMA Requests ==
    ASSUME NEW r \in Request
    PROVE  /\ r.kind \in {"device", "interface", "get", "set", "refused"}
           /\ r.length \in Nat
           /\ r.kind \in {"device", "interface"} => r.length > 0
           /\ r.kind = "device" => r.of \in DeviceDesc \cup {"unknown"}
           /\ r.kind = "interface" => r.of \in InterfaceDesc \cup {"unknown", "ignored"}
           /\ r.kind \in {"get", "set"} => r.of \in Setting
           /\ r.kind = "set" => r.value \in Value
<1>1. CASE r \in [kind : {"device"}, of : DeviceDesc \cup {"unknown"}, length : AskLen]
  <2>1. r.kind = "device" /\ r.of \in DeviceDesc \cup {"unknown"} /\ r.length \in AskLen
    BY <1>1
  <2>2. r.length \in Nat \ {0}
    BY <2>1, UsbAssumption
  <2> QED
    BY <2>1, <2>2
<1>2. CASE r \in [kind : {"interface"}, of : InterfaceDesc \cup {"unknown", "ignored"},
                  length : AskLen]
  <2>1. r.kind = "interface" /\ r.of \in InterfaceDesc \cup {"unknown", "ignored"} /\ r.length \in AskLen
    BY <1>2
  <2>2. r.length \in Nat \ {0}
    BY <2>1, UsbAssumption
  <2> QED
    BY <2>1, <2>2
<1>3. CASE r \in [kind : {"get"}, of : Setting, length : {7}]
  BY <1>3
<1>4. CASE r \in [kind : {"set"}, of : Setting, value : Value, length : {7}]
  BY <1>4
<1>5. CASE r \in [kind : {"refused"}, length : {0}]
  BY <1>5
<1> QED
  BY <1>1, <1>2, <1>3, <1>4, <1>5 DEF Request

LEMMA Contents ==
    ASSUME NEW d \in Descriptor
    PROVE  Content(d) \in Seq(UsbByte) /\ Len(Content(d)) = DescLen[d] /\ DescLen[d] \in Nat \ {0}
<1>1. DescLen[d] \in Nat \ {0}
  BY UsbAssumption
<1> QED
  BY <1>1 DEF Content, UsbByte

LEMMA CutIs ==
    ASSUME NEW s \in Seq(UsbByte), NEW n \in Nat
    PROVE  /\ Cut(s, n) \in Seq(UsbByte)
           /\ Cut(s, n) = SubSeq(s, 1, IF Len(s) < n THEN Len(s) ELSE n)
           /\ Len(Cut(s, n)) = (IF Len(s) < n THEN Len(s) ELSE n)
<1> DEFINE m == IF Len(s) < n THEN Len(s) ELSE n
<1>1. m \in 0 .. Len(s)
  OBVIOUS
<1>2. \A i \in 1 .. m : s[i] \in UsbByte
  BY <1>1
<1>3. 1 \in Int /\ m \in Int
  BY <1>1
<1> HIDE DEF m
<1>4. SubSeq(s, 1, m) \in Seq(UsbByte)
      /\ Len(SubSeq(s, 1, m)) = IF 1 <= m THEN m - 1 + 1 ELSE 0
  BY <1>2, <1>3, SubSeqProperties
<1> QED
  BY <1>1, <1>4 DEF m, Cut

(* A promise has a first byte, and ends where the descriptor or the length asked
   for does. *)
LEMMA PromiseIs ==
    ASSUME NEW r \in Request, Promises(r)
    PROVE  /\ Promised(r) \in Seq(UsbByte) /\ Len(Promised(r)) \in Nat \ {0}
           /\ Len(Promised(r)) = (IF DescLen[r.of] < r.length THEN DescLen[r.of] ELSE r.length)
<1>1. r.of \in Descriptor /\ r.length \in Nat \ {0}
  BY Requests DEF Promises, Descriptor
<1>2. /\ Content(r.of) \in Seq(UsbByte) /\ Len(Content(r.of)) = DescLen[r.of]
      /\ DescLen[r.of] \in Nat \ {0}
  BY <1>1, Contents
<1> DEFINE C == Content(r.of)
           n == r.length
<1>3. C \in Seq(UsbByte) /\ n \in Nat
  BY <1>1, <1>2
<1> HIDE DEF C, n
<1>4. Cut(C, n) \in Seq(UsbByte) /\ Len(Cut(C, n)) = (IF Len(C) < n THEN Len(C) ELSE n)
  BY <1>3, CutIs
<1>5. /\ Promised(r) \in Seq(UsbByte)
      /\ Len(Promised(r)) = (IF DescLen[r.of] < r.length THEN DescLen[r.of] ELSE r.length)
  BY <1>2, <1>4 DEF C, n, Promised
<1> QED
  BY <1>1, <1>2, <1>5

LEMMA PartOfRest ==
    ASSUME NEW F \in Seq(UsbByte), NEW p \in 0 .. Len(F),
           NEW a \in 1 .. Len(F) - p + 1, NEW b \in a - 1 .. Len(F) - p
    PROVE  /\ SubSeq(SubSeq(F, p + 1, Len(F)), a, b) = SubSeq(F, p + a, p + b)
           /\ SubSeq(F, p + a, p + b) \in Seq(UsbByte)
<1> DEFINE R == SubSeq(F, p + 1, Len(F))
           L == SubSeq(R, a, b)
           S == SubSeq(F, p + a, p + b)
<1>1. /\ Len(F) \in Nat /\ p \in Nat /\ a \in Nat /\ b \in Nat /\ a > 0 /\ b >= a - 1
      /\ p + b <= Len(F)
  OBVIOUS
<1>2. \A i \in 1 .. Len(F) : F[i] \in UsbByte
  OBVIOUS
<1>3. /\ R \in Seq(UsbByte) /\ Len(R) = Len(F) - p
      /\ \A i \in 1 .. Len(F) - p : R[i] = F[p + i]
  <2>1. \A i \in p + 1 .. Len(F) : F[i] \in UsbByte
    BY <1>1, <1>2
  <2>2. p + 1 \in Int /\ Len(F) \in Int
    BY <1>1
  <2>3. /\ R \in Seq(UsbByte)
        /\ Len(R) = IF p + 1 <= Len(F) THEN Len(F) - (p + 1) + 1 ELSE 0
        /\ \A i \in 1 .. Len(F) - (p + 1) + 1 : R[i] = F[(p + 1) + i - 1]
    BY <2>1, <2>2, SubSeqProperties
  <2> QED
    BY <1>1, <2>3
<1>4. /\ L \in Seq(UsbByte) /\ Len(L) = b - a + 1
      /\ \A i \in 1 .. b - a + 1 : L[i] = R[a + i - 1]
  <2> HIDE DEF R
  <2>1. \A i \in a .. b : R[i] \in UsbByte
    BY <1>1, <1>3
  <2>2. a \in Int /\ b \in Int
    BY <1>1
  <2>3. /\ L \in Seq(UsbByte)
        /\ Len(L) = IF a <= b THEN b - a + 1 ELSE 0
        /\ \A i \in 1 .. b - a + 1 : L[i] = R[a + i - 1]
    BY <2>1, <2>2, SubSeqProperties
  <2> QED
    BY <1>1, <2>3
<1>5. /\ S \in Seq(UsbByte) /\ Len(S) = b - a + 1
      /\ \A i \in 1 .. b - a + 1 : S[i] = F[p + a + i - 1]
  <2>1. \A i \in p + a .. p + b : F[i] \in UsbByte
    BY <1>1, <1>2
  <2>2. p + a \in Int /\ p + b \in Int
    BY <1>1
  <2>3. /\ S \in Seq(UsbByte)
        /\ Len(S) = IF p + a <= p + b THEN (p + b) - (p + a) + 1 ELSE 0
        /\ \A i \in 1 .. (p + b) - (p + a) + 1 : S[i] = F[(p + a) + i - 1]
    BY <2>1, <2>2, SubSeqProperties
  <2> QED
    BY <1>1, <2>3
<1> HIDE DEF R, L, S
<1>6. ASSUME NEW i \in 1 .. Len(L) PROVE L[i] = S[i]
  <2>1. i \in 1 .. b - a + 1 /\ a + i - 1 \in 1 .. Len(F) - p
    BY <1>1, <1>4
  <2>2. R[a + i - 1] = F[p + (a + i - 1)] /\ p + (a + i - 1) = p + a + i - 1
    BY <1>1, <1>3, <2>1
  <2> QED
    BY <1>4, <1>5, <2>1, <2>2
<1>7. L = S
  BY <1>4, <1>5, <1>6, SeqEqual
<1> QED
  BY <1>5, <1>7 DEF L, S, R

(* What usb_send_response does: n bytes a go out, and b is left. *)
Sending(d, e, n, a, b) ==
    /\ e \in UsbRecord /\ n \in 0 .. 8 /\ a \in Seq(UsbByte)
    /\ e.usb_len_idx_0 = n /\ e.fifo = a /\ e.g_response = b
    /\ e.g_stall = d.g_stall /\ e.usb_len_idx_s = d.usb_len_idx_s
    /\ e.usb_len_idx_h = d.usb_len_idx_h /\ e.setting = d.setting
    /\ e.control_request = d.control_request
    /\ e.data_ctl = d.data_ctl /\ e.sta_ctl = d.sta_ctl

LEMMA SendingIs ==
    ASSUME NEW d \in UsbRecord, NEW n \in 0 .. 8, NEW a \in Seq(UsbByte), NEW b \in Seq(UsbByte),
           NEW e, e = [d EXCEPT !.usb_len_idx_0 = n, !.fifo = a, !.g_response = b]
    PROVE  Sending(d, e, n, a, b)
BY DEF Sending, UsbRecord

(* What it makes of a response of which p bytes were sent. *)
LEMMA ResponseSent ==
    ASSUME NEW d \in UsbRecord, NEW F \in Seq(UsbByte), NEW p \in 0 .. Len(F),
           d.g_response = SubSeq(F, p + 1, Len(F)),
           NEW n, n = (IF Len(F) - p < 8 THEN Len(F) - p ELSE 8)
    PROVE  /\ p + n \in 0 .. Len(F)
           /\ Sending(d, usb_send_response(d), n,
                      SubSeq(F, p + 1, p + n), SubSeq(F, p + n + 1, Len(F)))
<1> DEFINE R == d.g_response
           m == Len(F)
<1>1. n \in 0 .. 8 /\ p + n \in 0 .. m /\ m \in Nat /\ p \in Nat /\ n \in Nat
  OBVIOUS
<1>2. \A i \in 1 .. m : F[i] \in UsbByte
  OBVIOUS
<1>3. SubSeq(F, p + 1, p + n) \in Seq(UsbByte)
  <2>1. \A i \in p + 1 .. p + n : F[i] \in UsbByte
    BY <1>1, <1>2
  <2> QED
    BY <1>1, <2>1, SubSeqProperties
<1>4. SubSeq(F, p + n + 1, m) \in Seq(UsbByte)
  <2>1. \A i \in p + n + 1 .. m : F[i] \in UsbByte
    BY <1>1, <1>2
  <2> QED
    BY <1>1, <2>1, SubSeqProperties
<1>5. R \in Seq(UsbByte) /\ Len(R) = m - p
  <2>1. \A i \in p + 1 .. m : F[i] \in UsbByte
    BY <1>1, <1>2
  <2>2. p + 1 \in Int /\ m \in Int
    BY <1>1
  <2>3. SubSeq(F, p + 1, m) \in Seq(UsbByte)
        /\ Len(SubSeq(F, p + 1, m)) = IF p + 1 <= m THEN m - (p + 1) + 1 ELSE 0
    BY <2>1, <2>2, SubSeqProperties
  <2> QED
    BY <1>1, <2>3
<1>6. n = (IF Len(R) < 8 THEN Len(R) ELSE 8)
  BY <1>5
<1>7. Cut(R, n) = SubSeq(F, p + 1, p + n)
  <2>1. Cut(R, n) = SubSeq(R, 1, n)
    BY <1>1, <1>6 DEF Cut
  <2>2. 1 \in 1 .. m - p + 1 /\ n \in 0 .. m - p
    BY <1>1
  <2>3. SubSeq(R, 1, n) = SubSeq(F, p + 1, p + n)
    BY <1>1, <2>2, PartOfRest
  <2> QED
    BY <2>1, <2>3
<1>8. SubSeq(R, n + 1, Len(R)) = SubSeq(F, p + n + 1, m)
  <2>1. n + 1 \in 1 .. Len(F) - p + 1 /\ m - p \in (n + 1) - 1 .. Len(F) - p
    BY <1>1
  <2>4. ASSUME NEW a \in 1 .. Len(F) - p + 1, NEW b \in a - 1 .. Len(F) - p
        PROVE  SubSeq(R, a, b) = SubSeq(F, p + a, p + b)
    BY PartOfRest
  <2>2. SubSeq(R, n + 1, m - p) = SubSeq(F, p + (n + 1), p + (m - p))
    BY ONLY <2>1, <2>4
  <2>3. p + (n + 1) = p + n + 1 /\ p + (m - p) = m
    BY <1>1
  <2> QED
    BY <1>5, <2>2, <2>3
<1>9. usb_send_response(d)
        = [d EXCEPT !.usb_len_idx_0 = n, !.fifo = Cut(R, n),
                    !.g_response = SubSeq(R, n + 1, Len(R))]
  BY <1>6 DEF usb_send_response
<1> DEFINE a == SubSeq(F, p + 1, p + n)
           b == SubSeq(F, p + n + 1, m)
<1>10. usb_send_response(d) = [d EXCEPT !.usb_len_idx_0 = n, !.fifo = a, !.g_response = b]
  BY <1>7, <1>8, <1>9
<1>11. a \in Seq(UsbByte) /\ b \in Seq(UsbByte)
  BY <1>3, <1>4
<1> HIDE DEF a, b
<1>12. Sending(d, usb_send_response(d), n, a, b)
  BY <1>1, <1>10, <1>11, SendingIs
<1> QED
  BY <1>1, <1>12 DEF a, b

(* What it makes of one that is new. *)
LEMMA FirstSent ==
    ASSUME NEW d \in UsbRecord, NEW F, F = d.g_response,
           NEW n, n = (IF Len(F) < 8 THEN Len(F) ELSE 8)
    PROVE  Sending(d, usb_send_response(d), n, SubSeq(F, 1, n), SubSeq(F, n + 1, Len(F)))
<1>1. F \in Seq(UsbByte) /\ Len(F) \in Nat
  BY DEF UsbRecord
<1>2. SubSeq(F, 1, Len(F)) = F
  BY <1>1, SubSeqFull
<1>3. ASSUME NEW p \in 0 .. Len(F), p = 0
      PROVE  Sending(d, usb_send_response(d), n,
                     SubSeq(F, p + 1, p + n), SubSeq(F, p + n + 1, Len(F)))
  <2>1. p + 1 = 1 /\ n = (IF Len(F) - p < 8 THEN Len(F) - p ELSE 8)
    BY <1>1, <1>3
  <2>2. d.g_response = SubSeq(F, p + 1, Len(F))
    BY <1>2, <2>1
  <2> QED
    BY <1>1, <2>1, <2>2, ResponseSent
<1>4. n \in Nat /\ 0 + n = n /\ 0 + n + 1 = n + 1 /\ 0 + 1 = 1 /\ 0 \in 0 .. Len(F)
  BY <1>1
<1> QED
  BY <1>3, <1>4

(* What usb_handle_request makes of a request that was just read. *)
Prepared(d, e, r) ==
    /\ e \in UsbRecord
    /\ e.control_request = r /\ e.usb_len_idx_h = r.length
    /\ e.g_stall = (IF Fails(r) THEN 1 ELSE 0)
    /\ e.sta_ctl = d.sta_ctl
    /\ r.kind = "device" /\ ~Fails(r) => e.usb_len_idx_s = DescLen[r.of]
    /\ e.setting = (IF r.kind = "set" /\ r.of # "LineCoding"
                    THEN [d.setting EXCEPT ![r.of] = r.value] ELSE d.setting)
    /\ r.kind \in {"device", "interface", "get"} => e.fifo \in Seq(UsbByte)
    /\ Promises(r) =>
         \E n \in 0 .. 8 :
            /\ n = (IF Len(Promised(r)) < 8 THEN Len(Promised(r)) ELSE 8)
            /\ e.fifo = SubSeq(Promised(r), 1, n)
            /\ e.g_response = SubSeq(Promised(r), n + 1, Len(Promised(r)))
    /\ r.kind = "get" => e.fifo = <<d.setting[r.of]>>

LEMMA SendPrepared ==
    ASSUME NEW d, NEW r \in Request, r.kind \in {"device", "interface"},
           NEW P \in UsbRecord, P.control_request = r, P.usb_len_idx_h = r.length,
           P.setting = d.setting, P.sta_ctl = d.sta_ctl,
           P.g_stall = (IF Fails(r) THEN 1 ELSE 0),
           r.kind = "device" /\ ~Fails(r) => P.usb_len_idx_s = DescLen[r.of],
           Promises(r) => P.g_response = Promised(r)
    PROVE  Prepared(d, usb_send_response(P), r)
<1> DEFINE F == P.g_response
           n == IF Len(F) < 8 THEN Len(F) ELSE 8
           e == usb_send_response(P)
<1>1. Sending(P, e, n, SubSeq(F, 1, n), SubSeq(F, n + 1, Len(F)))
  BY FirstSent
<1>2. n = (IF Len(F) < 8 THEN Len(F) ELSE 8)
  OBVIOUS
<1> HIDE DEF e, n
<1>3. /\ e \in UsbRecord /\ e.control_request = r /\ e.usb_len_idx_h = r.length
      /\ e.g_stall = (IF Fails(r) THEN 1 ELSE 0) /\ e.sta_ctl = d.sta_ctl
      /\ e.setting = d.setting /\ e.fifo \in Seq(UsbByte)
      /\ e.usb_len_idx_s = P.usb_len_idx_s
      /\ n \in 0 .. 8 /\ e.fifo = SubSeq(F, 1, n) /\ e.g_response = SubSeq(F, n + 1, Len(F))
  BY <1>1 DEF Sending
<1>4. Promises(r) =>
        \E k \in 0 .. 8 :
          /\ k = (IF Len(Promised(r)) < 8 THEN Len(Promised(r)) ELSE 8)
          /\ e.fifo = SubSeq(Promised(r), 1, k)
          /\ e.g_response = SubSeq(Promised(r), k + 1, Len(Promised(r)))
  BY <1>2, <1>3
<1>5. Prepared(d, e, r)
  BY <1>3, <1>4 DEF Prepared
<1> QED
  BY <1>5 DEF e

LEMMA Stalling ==
    ASSUME NEW d \in UsbRecord, NEW e, e = Stall(d)
    PROVE  /\ e \in UsbRecord /\ e.g_stall = 1 /\ e.fifo = d.fifo
           /\ e.control_request = d.control_request /\ e.usb_len_idx_h = d.usb_len_idx_h
           /\ e.setting = d.setting /\ e.sta_ctl = d.sta_ctl
BY DEF Stall, UsbRecord

LEMMA DevicePrepared ==
    ASSUME NEW d \in UsbRecord, NEW r \in Request, d.control_request = r,
           d.usb_len_idx_h = r.length, d.g_stall = 0, r.kind = "device"
    PROVE  Prepared(d, usb_send_response(usb_prepare_desc_data(d)), r)
<1> DEFINE P == usb_prepare_desc_data(d)
<1>1. r.of \in DeviceDesc \cup {"unknown"} /\ r.length \in Nat
  BY Requests
<1>2. CASE r.of = "unknown"
  <2>1. << >> \in Seq(UsbByte)
    OBVIOUS
  <2>2. PICK q : q = [d EXCEPT !.g_response = << >>, !.usb_len_idx_s = 0]
    OBVIOUS
  <2>3. /\ q \in UsbRecord /\ q.control_request = r /\ q.usb_len_idx_h = r.length
        /\ q.setting = d.setting /\ q.sta_ctl = d.sta_ctl
    BY <2>1, <2>2 DEF UsbRecord
  <2>4. P = Stall(q)
    BY <1>2, <2>2 DEF usb_prepare_desc_data
  <2>5. Fails(r) /\ ~Promises(r)
    BY <1>2 DEF Fails, Promises
  <2> HIDE DEF P
  <2>6. P \in UsbRecord /\ P.g_stall = 1 /\ P.control_request = r
        /\ P.usb_len_idx_h = r.length /\ P.setting = d.setting /\ P.sta_ctl = d.sta_ctl
    BY <2>3, <2>4, Stalling
  <2>7. Prepared(d, usb_send_response(P), r)
    BY <2>5, <2>6, SendPrepared
  <2> QED
    BY <2>7 DEF P
<1>3. CASE r.of # "unknown"
  <2>1. P = [d EXCEPT !.g_response = Promised(r), !.usb_len_idx_s = DescLen[r.of]]
    BY <1>3 DEF usb_prepare_desc_data, Promised
  <2>2. Promises(r) /\ ~Fails(r)
    BY <1>1, <1>3 DEF Promises, Fails
  <2>3. Promised(r) \in Seq(UsbByte) /\ DescLen[r.of] \in Nat
    <3>1. r.of \in Descriptor
      BY <1>1, <1>3 DEF Descriptor
    <3> QED
      BY <2>2, <3>1, PromiseIs, Contents
  <2> HIDE DEF P
  <2>4. P \in UsbRecord /\ P.g_stall = 0 /\ P.control_request = r /\ P.g_response = Promised(r)
        /\ P.usb_len_idx_h = r.length /\ P.setting = d.setting /\ P.sta_ctl = d.sta_ctl
        /\ P.usb_len_idx_s = DescLen[r.of]
    BY <2>1, <2>3 DEF UsbRecord
  <2>5. Prepared(d, usb_send_response(P), r)
    BY <2>2, <2>4, SendPrepared
  <2> QED
    BY <2>5 DEF P
<1> QED
  BY <1>2, <1>3

LEMMA InterfacePrepared ==
    ASSUME NEW d \in UsbRecord, NEW r \in Request, d.control_request = r,
           d.usb_len_idx_h = r.length, d.g_stall = 0, r.kind = "interface"
    PROVE  Prepared(d, usb_send_response(usb_handle_std_intf_req(d)), r)
<1> DEFINE P == usb_handle_std_intf_req(d)
<1>1. r.length \in Nat
  BY Requests
<1>2. PICK F : F = (IF r.of \in InterfaceDesc THEN Content(r.of) ELSE d.g_response)
  OBVIOUS
<1>3. F \in Seq(UsbByte)
  <2>1. d.g_response \in Seq(UsbByte)
    BY DEF UsbRecord
  <2> QED
    BY <1>2, <2>1, Contents DEF Descriptor
<1>4. Cut(F, r.length) \in Seq(UsbByte)
  BY <1>1, <1>3, CutIs
<1>5. PICK q : q = [d EXCEPT !.g_response = Cut(F, r.length)]
  OBVIOUS
<1>6. /\ q \in UsbRecord /\ q.control_request = r /\ q.usb_len_idx_h = r.length /\ q.g_stall = 0
      /\ q.setting = d.setting /\ q.sta_ctl = d.sta_ctl /\ q.g_response = Cut(F, r.length)
  BY <1>4, <1>5 DEF UsbRecord
<1>7. P = (IF r.of = "unknown" THEN Stall(q) ELSE q)
  BY <1>2, <1>5 DEF usb_handle_std_intf_req
<1>8. Fails(r) <=> r.of = "unknown"
  BY DEF Fails
<1>9. Promises(r) => F = Content(r.of) /\ r.of # "unknown"
  BY <1>2, Requests DEF Promises, Descriptor
<1> HIDE DEF P
<1>10. /\ P \in UsbRecord /\ P.control_request = r /\ P.usb_len_idx_h = r.length
       /\ P.setting = d.setting /\ P.sta_ctl = d.sta_ctl
       /\ P.g_stall = (IF Fails(r) THEN 1 ELSE 0)
       /\ Promises(r) => P.g_response = Promised(r)
  <2>1. CASE r.of = "unknown"
    BY <1>6, <1>7, <1>8, <1>9, <2>1, Stalling
  <2>2. CASE r.of # "unknown"
    BY <1>6, <1>7, <1>8, <1>9, <2>2 DEF Promised
  <2> QED
    BY <2>1, <2>2
<1>11. Prepared(d, usb_send_response(P), r)
  BY <1>10, SendPrepared
<1> QED
  BY <1>11 DEF P

LEMMA GetPrepared ==
    ASSUME NEW d \in UsbRecord, NEW r \in Request, d.control_request = r,
           d.usb_len_idx_h = r.length, d.g_stall = 0, r.kind = "get"
    PROVE  Prepared(d, usb_handle_in_class_intf_req(d), r)
<1> DEFINE e == usb_handle_in_class_intf_req(d)
<1>1. r.of \in Setting
  BY Requests
<1>2. d.setting \in [Setting -> Value]
  BY DEF UsbRecord
<1>3. d.setting[r.of] \in UsbByte
  BY <1>1, <1>2 DEF UsbByte
<1>4. PICK v : v = d.setting[r.of]
  OBVIOUS
<1>5. <<v>> \in Seq(UsbByte)
  BY <1>3, <1>4
<1>6. PICK a : a = <<v>>
  OBVIOUS
<1>7. e = [d EXCEPT !.fifo = a]
  BY <1>4, <1>6 DEF usb_handle_in_class_intf_req
<1> HIDE DEF e
<1>8. /\ e \in UsbRecord /\ e.control_request = r /\ e.usb_len_idx_h = r.length
      /\ e.g_stall = 0 /\ e.sta_ctl = d.sta_ctl /\ e.setting = d.setting /\ e.fifo = a
      /\ a \in Seq(UsbByte)
  BY <1>5, <1>6, <1>7 DEF UsbRecord
<1>9. ~Fails(r) /\ ~Promises(r)
  BY DEF Fails, Promises
<1>10. Prepared(d, e, r)
  BY <1>4, <1>6, <1>8, <1>9 DEF Prepared
<1> QED
  BY <1>10 DEF e

LEMMA SetPrepared ==
    ASSUME NEW d \in UsbRecord, NEW r \in Request, d.control_request = r,
           d.usb_len_idx_h = r.length, d.g_stall = 0, r.kind = "set"
    PROVE  Prepared(d, usb_handle_out_class_intf_req(d, FALSE), r)
<1> DEFINE e == usb_handle_out_class_intf_req(d, FALSE)
<1>1. r.of \in Setting /\ r.value \in Value
  BY Requests
<1>2. PICK f : f = [d.setting EXCEPT ![r.of] = r.value]
  OBVIOUS
<1>3. f \in [Setting -> Value]
  BY <1>1, <1>2 DEF UsbRecord
<1>4. e = (IF r.of # "LineCoding" THEN [d EXCEPT !.setting = f] ELSE d)
  BY <1>2 DEF usb_handle_out_class_intf_req
<1> HIDE DEF e
<1>5. /\ e \in UsbRecord /\ e.control_request = r /\ e.usb_len_idx_h = r.length
      /\ e.g_stall = 0 /\ e.sta_ctl = d.sta_ctl
      /\ e.setting = (IF r.of # "LineCoding" THEN f ELSE d.setting)
  BY <1>3, <1>4 DEF UsbRecord
<1>6. ~Fails(r) /\ ~Promises(r)
  BY DEF Fails, Promises
<1>7. Prepared(d, e, r)
  BY <1>2, <1>5, <1>6 DEF Prepared
<1> QED
  BY <1>7 DEF e

LEMMA RefusedPrepared ==
    ASSUME NEW d \in UsbRecord, NEW r \in Request, d.control_request = r,
           d.usb_len_idx_h = r.length, r.kind = "refused"
    PROVE  Prepared(d, Stall(d), r)
<1>1. PICK e : e = Stall(d)
  OBVIOUS
<1>2. Fails(r) /\ ~Promises(r)
  BY DEF Fails, Promises
<1>3. Prepared(d, e, r)
  BY <1>1, <1>2, Stalling DEF Prepared
<1> QED
  BY <1>1, <1>3

LEMMA RequestPrepared ==
    ASSUME NEW d \in UsbRecord, NEW r \in Request, d.control_request = r,
           d.usb_len_idx_h = r.length, d.g_stall = 0
    PROVE  Prepared(d, usb_handle_request(d, FALSE), r)
<1>1. CASE r.kind = "device"
  <2>1. usb_handle_request(d, FALSE) = usb_send_response(usb_prepare_desc_data(d))
    BY <1>1 DEF usb_handle_request
  <2> QED
    BY <1>1, <2>1, DevicePrepared
<1>2. CASE r.kind = "interface"
  <2>1. usb_handle_request(d, FALSE) = usb_send_response(usb_handle_std_intf_req(d))
    BY <1>2 DEF usb_handle_request
  <2> QED
    BY <1>2, <2>1, InterfacePrepared
<1>3. CASE r.kind = "get"
  <2>1. usb_handle_request(d, FALSE) = usb_handle_in_class_intf_req(d)
    BY <1>3 DEF usb_handle_request
  <2> QED
    BY <1>3, <2>1, GetPrepared
<1>4. CASE r.kind = "set"
  <2>1. usb_handle_request(d, FALSE) = usb_handle_out_class_intf_req(d, FALSE)
    BY <1>4 DEF usb_handle_request
  <2> QED
    BY <1>4, <2>1, SetPrepared
<1>5. CASE r.kind = "refused"
  <2>1. usb_handle_request(d, FALSE) = Stall(d)
    BY <1>5 DEF usb_handle_request
  <2> QED
    BY <1>5, <2>1, RefusedPrepared
<1> QED
  BY <1>1, <1>2, <1>3, <1>4, <1>5, Requests

(* The setup packet of r. *)
LEMMA SetupServed ==
    ASSUME NEW d \in UsbRecord, NEW r \in Request, d.fifo = r,
           NEW e, e = usb_handle_ctl_ep_setup(d)
    PROVE  Prepared(d, e, r) /\ e.data_ctl = (IF Fails(r) THEN "stall" ELSE "ack")
<1>1. PICK q : q = [d EXCEPT !.control_request = r, !.usb_len_idx_h = r.length,
                             !.reg_usb_sups_cyc_cali = "0x38", !.g_stall = 0]
  OBVIOUS
<1>2. /\ q \in UsbRecord /\ q.control_request = r /\ q.usb_len_idx_h = r.length
      /\ q.g_stall = 0 /\ q.sta_ctl = d.sta_ctl /\ q.setting = d.setting
  BY <1>1, Requests DEF UsbRecord
<1>3. PICK h : h = usb_handle_request(q, FALSE)
  OBVIOUS
<1>4. Prepared(q, h, r)
  BY <1>2, <1>3, RequestPrepared
<1>5. e = [h EXCEPT !.data_ctl = IF h.g_stall = 1 THEN "stall" ELSE "ack"]
  BY <1>1, <1>3 DEF usb_handle_ctl_ep_setup
<1>6. h \in UsbRecord /\ h.g_stall = (IF Fails(r) THEN 1 ELSE 0)
  BY <1>4 DEF Prepared
<1>7. PICK w : w = (IF Fails(r) THEN "stall" ELSE "ack")
  OBVIOUS
<1>8. e = [h EXCEPT !.data_ctl = w] /\ w \in {"stall", "ack"}
  BY <1>5, <1>6, <1>7
<1>9. /\ e \in UsbRecord /\ e.data_ctl = w /\ e.control_request = h.control_request
      /\ e.usb_len_idx_h = h.usb_len_idx_h /\ e.g_stall = h.g_stall /\ e.sta_ctl = h.sta_ctl
      /\ e.usb_len_idx_s = h.usb_len_idx_s /\ e.setting = h.setting /\ e.fifo = h.fifo
      /\ e.g_response = h.g_response
  BY <1>6, <1>8 DEF UsbRecord
<1>10. Prepared(d, e, r)
  BY <1>2, <1>4, <1>9 DEF Prepared
<1> QED
  BY <1>7, <1>9, <1>10

(* What usb_handle_request makes of data, the first of which the setup packet
   has answered. *)
Handled(d, h, r) ==
    /\ h \in UsbRecord
    /\ h.control_request = r /\ h.usb_len_idx_h = r.length /\ h.g_stall = 0
    /\ h.sta_ctl = d.sta_ctl /\ h.usb_len_idx_s = d.usb_len_idx_s
    /\ h.setting = (IF r.kind = "set" THEN [d.setting EXCEPT ![r.of] = r.value] ELSE d.setting)
    /\ r.kind \in {"device", "interface"} => h.fifo \in Seq(UsbByte)

LEMMA DataHandled ==
    ASSUME NEW d \in UsbRecord, NEW r \in Request, d.control_request = r,
           d.usb_len_idx_h = r.length, d.g_stall = 0, ~Fails(r),
           r.kind = "set" => r.of = "LineCoding" /\ d.fifo = <<r.value>>
    PROVE  Handled(d, usb_handle_request(d, TRUE), r)
<1>1. CASE r.kind \in {"device", "interface"}
  <2>1. usb_handle_request(d, TRUE) = usb_send_response(d)
    BY <1>1 DEF usb_handle_request
  <2>2. PICK F : F = d.g_response
    OBVIOUS
  <2>3. PICK n : n = (IF Len(F) < 8 THEN Len(F) ELSE 8)
    OBVIOUS
  <2>4. Sending(d, usb_send_response(d), n, SubSeq(F, 1, n), SubSeq(F, n + 1, Len(F)))
    BY <2>2, <2>3, FirstSent
  <2> DEFINE h == usb_send_response(d)
  <2> HIDE DEF h
  <2>5. Handled(d, h, r)
    BY <1>1, <2>4 DEF Sending, Handled, h
  <2> QED
    BY <2>1, <2>5 DEF h
<1>2. CASE r.kind = "get"
  <2>1. r.of \in Setting
    BY <1>2, Requests
  <2>2. PICK v : v = d.setting[r.of]
    OBVIOUS
  <2>3. v \in UsbByte
    BY <2>1, <2>2 DEF UsbByte, UsbRecord
  <2>4. PICK a : a = <<v>>
    OBVIOUS
  <2>5. a \in Seq(UsbByte)
    BY <2>3, <2>4
  <2>6. usb_handle_request(d, TRUE) = [d EXCEPT !.fifo = a]
    BY <1>2, <2>2, <2>4 DEF usb_handle_request, usb_handle_in_class_intf_req
  <2>7. PICK h : h = [d EXCEPT !.fifo = a]
    OBVIOUS
  <2>8. Handled(d, h, r)
    BY <1>2, <2>5, <2>7 DEF UsbRecord, Handled
  <2> QED
    BY <2>6, <2>7, <2>8
<1>3. CASE r.kind = "set"
  <2>1. r.of \in Setting /\ r.value \in Value
    BY <1>3, Requests
  <2>2. PICK f : f = [d.setting EXCEPT ![r.of] = r.value]
    OBVIOUS
  <2>3. f \in [Setting -> Value]
    BY <2>1, <2>2 DEF UsbRecord
  <2>4. r.of = "LineCoding" /\ d.fifo[1] = r.value
    BY <1>3
  <2>5. usb_handle_request(d, TRUE) = [d EXCEPT !.setting = f]
    BY <1>3, <2>2, <2>4 DEF usb_handle_request, usb_handle_out_class_intf_req
  <2>6. PICK h : h = [d EXCEPT !.setting = f]
    OBVIOUS
  <2>7. Handled(d, h, r)
    BY <1>3, <2>2, <2>3, <2>6 DEF UsbRecord, Handled
  <2> QED
    BY <2>5, <2>6, <2>7
<1>4. r.kind # "refused"
  BY DEF Fails
<1> QED
  BY <1>1, <1>2, <1>3, <1>4, Requests

(* What the data stage makes of the device before and after the request, if that
   is not refused. *)
DataIn(d) == [d EXCEPT !.g_stall = 0]

Clock(h) ==
    IF h.usb_len_idx_s % 8 = 0 /\ h.usb_len_idx_0 = 0 /\ h.usb_len_idx_s # h.usb_len_idx_h
    THEN "0x18" ELSE "0x38"

Acknowledged(h) == [h EXCEPT !.data_ctl = "ack", !.reg_usb_sups_cyc_cali = Clock(h)]

LEMMA DataAnswer ==
    ASSUME NEW d, NEW h, h = usb_handle_request(DataIn(d), TRUE), h.g_stall # 1
    PROVE  usb_handle_ctl_ep_data(d) = Acknowledged(h)
<1>1. usb_handle_ctl_ep_data(d)
        = IF h.g_stall = 1
          THEN [h EXCEPT !.data_ctl = "stall", !.reg_usb_sups_cyc_cali = "0x38"]
          ELSE Acknowledged(h)
  BY Zenon DEF usb_handle_ctl_ep_data, DataIn, Acknowledged, Clock
<1> QED
  BY ONLY <1>1, h.g_stall # 1

(* The data of r. *)
LEMMA DataServed ==
    ASSUME NEW d \in UsbRecord, NEW r \in Request, d.control_request = r,
           d.usb_len_idx_h = r.length, ~Fails(r),
           r.kind = "set" => r.of = "LineCoding" /\ d.fifo = <<r.value>>,
           NEW e, e = usb_handle_ctl_ep_data(d)
    PROVE  Handled(d, e, r) /\ e.data_ctl = "ack"
<1>1. PICK q : q = DataIn(d)
  OBVIOUS
<1>2. /\ q \in UsbRecord /\ q.control_request = r /\ q.usb_len_idx_h = r.length /\ q.g_stall = 0
      /\ q.sta_ctl = d.sta_ctl /\ q.setting = d.setting /\ q.usb_len_idx_s = d.usb_len_idx_s
      /\ q.fifo = d.fifo
  BY <1>1 DEF UsbRecord, DataIn
<1>3. PICK h : h = usb_handle_request(q, TRUE)
  OBVIOUS
<1>4. Handled(q, h, r)
  BY <1>2, <1>3, DataHandled
<1>5. PICK c : c = Clock(h)
  OBVIOUS
<1>6. h \in UsbRecord /\ h.g_stall = 0
  BY <1>4 DEF Handled
<1>7. e = [h EXCEPT !.data_ctl = "ack", !.reg_usb_sups_cyc_cali = c]
  <2>1. h.g_stall # 1
    BY <1>6
  <2>2. e = Acknowledged(h)
    BY <1>1, <1>3, <2>1, DataAnswer, Zenon
  <2> QED
    BY <1>5, <2>2 DEF Acknowledged
<1>8. c \in {"0x38", "0x18"}
  BY <1>5 DEF Clock
<1>9. /\ e \in UsbRecord /\ e.data_ctl = "ack" /\ e.control_request = h.control_request
      /\ e.usb_len_idx_h = h.usb_len_idx_h /\ e.g_stall = h.g_stall /\ e.sta_ctl = h.sta_ctl
      /\ e.usb_len_idx_s = h.usb_len_idx_s /\ e.setting = h.setting /\ e.fifo = h.fifo
  BY <1>6, <1>7, <1>8 DEF UsbRecord
<1> QED
  BY <1>2, <1>4, <1>9 DEF Handled

(* A promise of which p bytes were sent goes on; the packet after the last of
   them is empty, and marked if the host waits for it. *)
Onward(e, r, p) ==
    \E n \in 0 .. 8 :
        /\ n = (IF Len(Promised(r)) - p < 8 THEN Len(Promised(r)) - p ELSE 8)
        /\ e.fifo = SubSeq(Promised(r), p + 1, p + n)
        /\ e.g_response = SubSeq(Promised(r), p + n + 1, Len(Promised(r)))
        /\ r.kind = "device" /\ n = 0 => e.reg_usb_sups_cyc_cali = "0x18"

LEMMA PromiseGoesOn ==
    ASSUME NEW d \in UsbRecord, NEW r \in Request, d.control_request = r,
           d.usb_len_idx_h = r.length, Promises(r),
           r.kind = "device" => d.usb_len_idx_s = DescLen[r.of],
           NEW p \in 0 .. Len(Promised(r)), p % 8 = 0, p < r.length,
           d.g_response = SubSeq(Promised(r), p + 1, Len(Promised(r))),
           NEW e, e = usb_handle_ctl_ep_data(d)
    PROVE  Onward(e, r, p)
<1>1. PICK F : F = Promised(r)
  OBVIOUS
<1>2. /\ F \in Seq(UsbByte) /\ p \in 0 .. Len(F) /\ Len(F) \in Nat
      /\ d.g_response = SubSeq(F, p + 1, Len(F))
      /\ Len(F) = (IF DescLen[r.of] < r.length THEN DescLen[r.of] ELSE r.length)
      /\ r.length \in Nat
  BY <1>1, PromiseIs, Requests
<1>3. PICK q : q = DataIn(d)
  OBVIOUS
<1>4. /\ q \in UsbRecord /\ q.control_request = r /\ q.usb_len_idx_h = r.length /\ q.g_stall = 0
      /\ q.usb_len_idx_s = d.usb_len_idx_s /\ q.g_response = SubSeq(F, p + 1, Len(F))
  BY <1>2, <1>3 DEF UsbRecord, DataIn
<1>5. PICK n : n = (IF Len(F) - p < 8 THEN Len(F) - p ELSE 8)
  OBVIOUS
<1>6. PICK h : h = usb_send_response(q)
  OBVIOUS
<1>7. Sending(q, h, n, SubSeq(F, p + 1, p + n), SubSeq(F, p + n + 1, Len(F)))
  BY <1>2, <1>4, <1>5, <1>6, ResponseSent
<1>8. h = usb_handle_request(q, TRUE)
  BY <1>4, <1>6 DEF usb_handle_request, Promises
<1>9. /\ h \in UsbRecord /\ h.g_stall = 0 /\ h.usb_len_idx_0 = n /\ h.usb_len_idx_h = r.length
      /\ h.usb_len_idx_s = d.usb_len_idx_s /\ h.fifo = SubSeq(F, p + 1, p + n)
      /\ h.g_response = SubSeq(F, p + n + 1, Len(F)) /\ n \in 0 .. 8
  BY <1>4, <1>7 DEF Sending
<1>10. PICK c : c = Clock(h)
  OBVIOUS
<1>11. e = [h EXCEPT !.data_ctl = "ack", !.reg_usb_sups_cyc_cali = c]
  <2>1. h.g_stall # 1
    BY <1>9
  <2>2. e = Acknowledged(h)
    BY <1>3, <1>8, <2>1, DataAnswer, Zenon
  <2> QED
    BY <1>10, <2>2 DEF Acknowledged
<1>12. e.fifo = h.fifo /\ e.g_response = h.g_response /\ e.reg_usb_sups_cyc_cali = c
  BY <1>9, <1>11 DEF UsbRecord
<1>13. ASSUME r.kind = "device", n = 0 PROVE c = "0x18"
  <2>1. DescLen[r.of] \in Nat
    BY <1>13, UsbAssumption DEF Promises, Descriptor
  <2>2. Len(F) = p
    BY <1>2, <1>5, <1>13
  <2>3. DescLen[r.of] = p
    BY <1>2, <2>1, <2>2
  <2> QED
    BY <1>9, <1>10, <1>13, <2>3 DEF Clock
<1> QED
  BY <1>1, <1>5, <1>9, <1>12, <1>13 DEF Onward

(* The status stage of r. *)
LEMMA StatusServed ==
    ASSUME NEW d \in UsbRecord, NEW e, e = usb_handle_ctl_ep_status(d)
    PROVE  /\ e \in UsbRecord /\ e.sta_ctl = (IF d.g_stall = 1 THEN "stall" ELSE "ack")
           /\ e.g_stall = d.g_stall /\ e.usb_len_idx_s = d.usb_len_idx_s
           /\ e.usb_len_idx_h = d.usb_len_idx_h /\ e.control_request = d.control_request
           /\ e.setting = d.setting /\ e.fifo = d.fifo
BY DEF usb_handle_ctl_ep_status, UsbRecord

LEMMA UsbInvInit == UsbInit => UsbInv
<1> SUFFICES ASSUME UsbInit PROVE UsbInv
  OBVIOUS
<1>1. UsbShape
  <2>1. << >> \in Seq(UsbByte) /\ DefaultValue \in Value
    BY UsbAssumption
  <2>2. [s \in Setting |-> DefaultValue] \in [Setting -> Value]
    BY <2>1
  <2>3. PICK f : f = [s \in Setting |-> DefaultValue]
    OBVIOUS
  <2>4. /\ usb = [g_response |-> << >>, g_stall |-> 0,
                  usb_len_idx_0 |-> 0, usb_len_idx_s |-> 0, usb_len_idx_h |-> 0,
                  reg_usb_sups_cyc_cali |-> "0x38",
                  setting |-> f, control_request |-> << >>,
                  fifo |-> << >>, data_ctl |-> "nak", sta_ctl |-> "nak"]
        /\ f \in [Setting -> Value]
    BY <2>2, <2>3 DEF UsbInit
  <2>5. usb \in UsbRecord
    BY <2>1, <2>4 DEF UsbRecord
  <2>6. believed \in [Setting -> SUBSET Value]
    BY <2>1 DEF UsbInit
  <2> QED
    BY <2>5, <2>6 DEF UsbShape, UsbInit
<1>2. BelievedRight
  BY DEF UsbInit, BelievedRight
<1>3. PendingAt
  BY DEF UsbInit, PendingAt
<1>4. Answered
  BY DEF UsbInit, Answered
<1> QED
  BY <1>1, <1>2, <1>3, <1>4 DEF UsbInv

(* A transfer that is at a stage is one. *)
LEMMA AtStage ==
    ASSUME UsbShape, host.stage # "idle"
    PROVE  /\ host # NoTransfer /\ host \in Transfer /\ host.request \in Request
           /\ host.got \in Seq(UsbByte)
<1>1. host # NoTransfer
  BY DEF NoTransfer
<1> QED
  BY <1>1 DEF UsbShape, Transfer

LEMMA SetupKeeps ==
    ASSUME UsbInv, Patient, NEW q \in Request, HostSetup(q)
    PROVE  UsbInv'
<1>1. irq = {} /\ irq' = {"SETUP"}
  BY DEF HostSetup
<1>2. host' = [stage |-> FirstStage(q), request |-> q, got |-> << >>, marked |-> TRUE]
  BY DEF HostSetup
<1>3. FirstStage(q) \in {"in", "out", "status"}
  BY DEF FirstStage
<1>4. host' # NoTransfer /\ host' \in Transfer
  <2>1. << >> \in Seq(UsbByte)
    OBVIOUS
  <2> QED
    BY <1>2, <1>3, <2>1 DEF NoTransfer, Transfer
<1>5. /\ usb' \in UsbRecord /\ usb'.fifo = q /\ usb'.data_ctl = "nak" /\ usb'.sta_ctl = "nak"
      /\ usb'.setting = usb.setting
  BY DEF UsbInv, UsbShape, HostSetup, UsbRecord
<1>6. /\ believed' \in [Setting -> SUBSET Value]
      /\ \A s \in Setting : believed[s] \subseteq believed'[s]
      /\ q.kind = "set" => q.value \in believed'[q.of]
  <2>1. believed \in [Setting -> SUBSET Value]
    BY DEF UsbInv, UsbShape
  <2>2. CASE q.kind = "set"
    <3>1. q.of \in Setting /\ q.value \in Value
      BY <2>2, Requests
    <3>2. believed' = [believed EXCEPT ![q.of] = @ \cup {q.value}]
      BY <2>2 DEF HostSetup
    <3> QED
      BY <2>1, <3>1, <3>2
  <2>3. CASE q.kind # "set"
    BY <2>1, <2>3 DEF HostSetup
  <2> QED
    BY <2>2, <2>3
<1>7. UsbShape'
  BY <1>4, <1>5, <1>6 DEF UsbShape
<1>8. BelievedRight'
  BY <1>1, <1>5, <1>6 DEF UsbInv, BelievedRight
<1>9. PendingAt'
  BY <1>1, <1>2, <1>4 DEF PendingAt
<1>10. Answered'
  <2> SUFFICES ASSUME NEW r \in Request, host'.request = r PROVE Answer(r)'
    BY DEF Answered
  <2>1. r = q
    BY <1>2
  <2>2. Unseen(r)'
    BY <1>2, <1>5, <2>1 DEF Unseen
  <2>3. host'.stage \in {"in", "out", "status"}
    BY <1>2, <1>3
  <2> QED
    BY <1>1, <1>5, <1>6, <2>1, <2>2, <2>3 DEF Answer
<1> QED
  BY <1>7, <1>8, <1>9, <1>10 DEF UsbInv

LEMMA ResetKeeps == ASSUME UsbInv, Patient, HostReset PROVE UsbInv'
<1>1. irq = {} /\ irq' = {"RESET"} /\ host' = NoTransfer /\ usb' = usb
  BY DEF HostReset
<1>2. believed' = [believed EXCEPT !["usb_mouse_report_proto"] = {DefaultValue}]
  BY DEF HostReset
<1>3. believed \in [Setting -> SUBSET Value] /\ usb \in UsbRecord
  BY DEF UsbInv, UsbShape
<1>4. "usb_mouse_report_proto" \in Setting
  BY DEF Setting
<1>5. {DefaultValue} \in SUBSET Value
  BY UsbAssumption
<1>6. UsbShape'
  BY <1>1, <1>2, <1>3, <1>5 DEF UsbShape
<1>7. BelievedRight'
  BY <1>1, <1>2, <1>3, <1>4 DEF UsbInv, BelievedRight
<1>8. PendingAt' /\ Answered'
  BY <1>1 DEF PendingAt, Answered
<1> QED
  BY <1>6, <1>7, <1>8 DEF UsbInv

LEMMA OutKeeps == ASSUME UsbInv, HostOut PROVE UsbInv'
<1>1. host.stage = "out" /\ usb.data_ctl = "ack"
  BY DEF HostOut
<1>2. host \in Transfer /\ host # NoTransfer /\ host.request \in Request
  BY <1>1, AtStage DEF UsbInv
<1>3. PICK q \in Request : q = host.request
  BY <1>2
<1>4. Answer(q)
  BY <1>2, <1>3 DEF UsbInv, Answered
<1>5. "SETUP" \notin irq
  BY <1>1, <1>4 DEF Answer, Unseen
<1>6. Seen(q) /\ Out(q) /\ usb.sta_ctl = "nak" /\ q.value \in believed[q.of]
  BY <1>1, <1>4, <1>5 DEF Answer, Out
<1>7. q.kind = "set" /\ q.of = "LineCoding" /\ q.value \in Value /\ q.of \in Setting
  BY <1>6, Requests DEF Out
<1>8. irq = {} /\ irq' = {"DATA"}
  BY <1>1, <1>2, <1>5 DEF UsbInv, PendingAt, HostOut
<1>9. PICK a : a = <<q.value>>
  OBVIOUS
<1>10. a \in Seq(UsbByte)
  BY <1>7, <1>9 DEF UsbByte
<1>11. usb' = [usb EXCEPT !.data_ctl = "nak", !.fifo = a]
  BY <1>3, <1>9 DEF HostOut
<1>12. /\ usb' \in UsbRecord /\ usb'.fifo = a /\ usb'.sta_ctl = "nak"
       /\ usb'.setting = usb.setting /\ usb'.control_request = usb.control_request
       /\ usb'.usb_len_idx_h = usb.usb_len_idx_h /\ usb'.usb_len_idx_s = usb.usb_len_idx_s
       /\ usb'.g_stall = usb.g_stall
  BY <1>6, <1>10, <1>11 DEF UsbInv, UsbShape, UsbRecord
<1>13. host' \in Transfer /\ host' # NoTransfer /\ host'.stage = "status" /\ host'.request = q
  BY <1>2, <1>3 DEF HostOut, Transfer, NoTransfer
<1>14. believed' = believed
  BY DEF HostOut
<1>15. UsbShape'
  BY <1>12, <1>13, <1>14 DEF UsbInv, UsbShape
<1>16. BelievedRight'
  BY <1>8, <1>12, <1>14 DEF UsbInv, BelievedRight
<1>17. PendingAt'
  BY <1>8, <1>13 DEF PendingAt
<1>18. Answered'
  <2> SUFFICES ASSUME NEW r \in Request, host'.request = r PROVE Answer(r)'
    BY DEF Answered
  <2>1. r = q
    BY <1>13
  <2>2. Seen(r)'
    BY <1>6, <1>12, <2>1 DEF Seen
  <2>3. Over(r)'
    BY <1>7, <1>8, <1>9, <1>12, <2>1 DEF Over, Promises
  <2> QED
    BY <1>6, <1>8, <1>12, <1>13, <1>14, <2>1, <2>2, <2>3 DEF Answer
<1> QED
  BY <1>15, <1>16, <1>17, <1>18 DEF UsbInv

LEMMA StatusKeeps == ASSUME UsbInv, HostStatus PROVE UsbInv'
<1>1. host.stage = "status" /\ usb' = usb /\ believed' = believed /\ irq' = irq \cup {"STA"}
  BY DEF HostStatus
<1>2. host \in Transfer /\ host # NoTransfer /\ host.request \in Request
  BY <1>1, AtStage DEF UsbInv
<1>3. PICK q \in Request : q = host.request
  BY <1>2
<1>4. Answer(q)
  BY <1>2, <1>3 DEF UsbInv, Answered
<1>5. /\ host' \in Transfer /\ host' # NoTransfer /\ host'.stage = "ending"
      /\ host'.request = q /\ host'.got = host.got /\ host'.marked = host.marked
  BY <1>2, <1>3 DEF HostStatus, Transfer, NoTransfer
<1>6. irq \in {{}, {"SETUP"}, {"DATA"}} /\ ("SETUP" \in irq => FirstStage(q) = "status")
  BY <1>1, <1>2, <1>3 DEF UsbInv, PendingAt
<1>7. UsbShape'
  BY <1>1, <1>5 DEF UsbInv, UsbShape
<1>8. BelievedRight'
  BY <1>1 DEF UsbInv, BelievedRight
<1>9. PendingAt'
  <2>1. CASE irq = {}
    BY <1>1, <1>5, <2>1 DEF PendingAt
  <2>2. CASE irq = {"SETUP"}
    BY <1>1, <1>5, <1>6, <2>2 DEF PendingAt
  <2>3. CASE irq = {"DATA"}
    <3>1. irq' = {"DATA", "STA"}
      BY <1>1, <2>3
    <3> QED
      BY <1>5, <3>1 DEF PendingAt
  <2> QED
    BY <1>6, <2>1, <2>2, <2>3
<1>10. Answered'
  <2> SUFFICES ASSUME NEW r \in Request, host'.request = r PROVE Answer(r)'
    BY DEF Answered
  <2>1. r = q
    BY <1>5
  <2>2. /\ "SETUP" \in irq' <=> "SETUP" \in irq
        /\ "DATA" \in irq' <=> "DATA" \in irq
        /\ "STA" \in irq'
    BY <1>1
  <2>3. "SETUP" \in irq' => Unseen(r)'
    BY <1>1, <1>4, <1>5, <2>1, <2>2 DEF Answer, Unseen
  <2>4. "SETUP" \notin irq' => Seen(r)' /\ Over(r)'
    <3> SUFFICES ASSUME "SETUP" \notin irq' PROVE Seen(r)' /\ Over(r)'
      OBVIOUS
    <3>1. Seen(q) /\ Over(q)
      BY <1>1, <1>4, <2>2 DEF Answer
    <3>2. Seen(r)'
      BY <1>1, <2>1, <3>1 DEF Seen
    <3>3. Over(r)'
      BY <1>1, <1>5, <2>1, <2>2, <3>1 DEF Over
    <3> QED
      BY <3>2, <3>3
  <2> QED
    BY <1>1, <1>4, <1>5, <2>1, <2>2, <2>3, <2>4 DEF Answer
<1> QED
  BY <1>7, <1>8, <1>9, <1>10 DEF UsbInv

LEMMA DoneKeeps == ASSUME UsbInv, HostDone PROVE UsbInv'
<1>1. host.stage = "ending" /\ usb.sta_ctl = "ack" /\ usb' = usb /\ irq' = irq
  BY DEF HostDone
<1>2. host \in Transfer /\ host # NoTransfer /\ host.request \in Request
  BY <1>1, AtStage DEF UsbInv
<1>3. PICK q \in Request : q = host.request
  BY <1>2
<1>4. Answer(q)
  BY <1>2, <1>3 DEF UsbInv, Answered
<1>5. /\ host' \in Transfer /\ host' # NoTransfer /\ host'.stage = "done"
      /\ host'.request = q /\ host'.got = host.got /\ host'.marked = host.marked
  BY <1>2, <1>3 DEF HostDone, Transfer, NoTransfer
<1>6. "STA" \notin irq /\ ~Fails(q)
  BY <1>1, <1>4 DEF Answer
<1>7. irq = {}
  BY <1>1, <1>2, <1>6 DEF UsbInv, PendingAt, FirstStage
<1>8. Seen(q) /\ Over(q)
  BY <1>1, <1>4, <1>7 DEF Answer
<1>9. believed \in [Setting -> SUBSET Value]
  BY DEF UsbInv, UsbShape
<1>10. /\ believed' \in [Setting -> SUBSET Value]
       /\ \A s \in Setting : usb.setting[s] \in believed[s] => usb.setting[s] \in believed'[s]
       /\ q.kind = "set" => q.value \in believed'[q.of]
       /\ q.kind # "set" => believed' = believed
  <2>1. CASE q.kind = "set"
    <3>1. q.of \in Setting /\ q.value \in Value /\ usb.setting[q.of] = q.value
      BY <1>7, <1>8, <2>1, Requests DEF Over
    <3>2. believed' = [believed EXCEPT ![q.of] = {q.value}]
      BY <1>3, <2>1 DEF HostDone
    <3> QED
      BY <1>9, <2>1, <3>1, <3>2
  <2>2. CASE q.kind # "set"
    BY <1>3, <1>9, <2>2 DEF HostDone
  <2> QED
    BY <2>1, <2>2
<1>11. UsbShape'
  BY <1>1, <1>5, <1>10 DEF UsbInv, UsbShape
<1>12. BelievedRight'
  BY <1>1, <1>7, <1>10 DEF UsbInv, BelievedRight
<1>13. PendingAt'
  BY <1>1, <1>5, <1>7 DEF PendingAt
<1>14. Answered'
  <2> SUFFICES ASSUME NEW r \in Request, host'.request = r PROVE Answer(r)'
    BY DEF Answered
  <2>1. r = q
    BY <1>5
  <2>2. Seen(r)'
    BY <1>1, <1>8, <2>1 DEF Seen
  <2>3. Over(r)'
    <3>1. q.kind = "get" => \E v \in believed'[q.of] : host.got = <<v>>
      BY <1>8, <1>10 DEF Over
    <3> QED
      BY <1>1, <1>5, <1>7, <1>8, <2>1, <3>1 DEF Over
  <2> QED
    BY <1>1, <1>5, <1>6, <1>7, <1>10, <2>1, <2>2, <2>3 DEF Answer
<1> QED
  BY <1>11, <1>12, <1>13, <1>14 DEF UsbInv

LEMMA StalledKeeps == ASSUME UsbInv, HostStalled PROVE UsbInv'
<1>1. /\ host.stage \in {"in", "out", "ending"} /\ usb' = usb /\ irq' = irq /\ believed' = believed
      /\ host.stage \in {"in", "out"} => usb.data_ctl = "stall"
      /\ host.stage = "ending" => usb.sta_ctl = "stall"
  BY DEF HostStalled
<1>2. host \in Transfer /\ host # NoTransfer /\ host.request \in Request
  BY <1>1, AtStage DEF UsbInv
<1>3. PICK q \in Request : q = host.request
  BY <1>2
<1>4. Answer(q)
  BY <1>2, <1>3 DEF UsbInv, Answered
<1>5. /\ host' \in Transfer /\ host' # NoTransfer /\ host'.stage = "stalled"
      /\ host'.request = q
  BY <1>2, <1>3 DEF HostStalled, Transfer, NoTransfer
<1>6. "SETUP" \notin irq \/ host.stage = "ending"
  BY <1>1, <1>4 DEF Answer, Unseen
<1>7. irq = {} /\ Fails(q)
  <2>1. CASE host.stage = "in"
    <3>1. In(q)
      BY <1>4, <1>6, <2>1 DEF Answer
    <3>2. irq # {"DATA"}
      BY <1>1, <2>1, <3>1 DEF In
    <3>3. irq = {}
      BY <1>2, <1>6, <2>1, <3>2 DEF UsbInv, PendingAt
    <3> QED
      BY <1>1, <2>1, <3>1, <3>3 DEF In
  <2>2. host.stage # "out"
    BY <1>1, <1>4, <1>6 DEF Answer, Out
  <2>3. CASE host.stage = "ending"
    <3>1. "STA" \notin irq /\ Fails(q)
      BY <1>1, <1>4, <2>3 DEF Answer
    <3> QED
      BY <1>2, <2>3, <3>1 DEF UsbInv, PendingAt, FirstStage
  <2> QED
    BY <1>1, <2>1, <2>2, <2>3
<1>8. Seen(q)
  BY <1>4, <1>7 DEF Answer
<1>9. UsbShape'
  BY <1>1, <1>5 DEF UsbInv, UsbShape
<1>10. BelievedRight'
  BY <1>1 DEF UsbInv, BelievedRight
<1>11. PendingAt'
  BY <1>1, <1>5, <1>7 DEF PendingAt
<1>12. Answered'
  <2> SUFFICES ASSUME NEW r \in Request, host'.request = r PROVE Answer(r)'
    BY DEF Answered
  <2>1. r = q
    BY <1>5
  <2>2. Seen(r)'
    BY <1>1, <1>8, <2>1 DEF Seen
  <2> QED
    BY <1>1, <1>4, <1>5, <1>7, <2>1, <2>2 DEF Answer
<1> QED
  BY <1>9, <1>10, <1>11, <1>12 DEF UsbInv

(* The bytes before and after a place make the whole. *)
LEMMA PartsJoin ==
    ASSUME NEW F \in Seq(UsbByte), NEW p \in 0 .. Len(F), NEW n \in 0 .. Len(F) - p
    PROVE  SubSeq(F, 1, p) \o SubSeq(F, p + 1, p + n) = SubSeq(F, 1, p + n)
<1>1. 1 \in 1 .. Len(F) + 1 /\ p \in 1 - 1 .. Len(F) /\ p + n \in p .. Len(F)
  OBVIOUS
<1> QED
  BY <1>1, ConcatAdjacentSubSeq

LEMMA InKeeps == ASSUME UsbInv, HostIn PROVE UsbInv'
<1>1. host.stage = "in" /\ usb.data_ctl = "ack" /\ believed' = believed
      /\ irq' = irq \cup {"DATA"} /\ usb' = [usb EXCEPT !.data_ctl = "nak"]
  BY DEF HostIn
<1>2. host \in Transfer /\ host # NoTransfer /\ host.request \in Request
      /\ host.got \in Seq(UsbByte)
  BY <1>1, AtStage DEF UsbInv
<1>3. PICK q \in Request : q = host.request
  BY <1>2
<1>4. Answer(q)
  BY <1>2, <1>3 DEF UsbInv, Answered
<1>5. "SETUP" \notin irq
  BY <1>1, <1>4 DEF Answer, Unseen
<1>6. Seen(q) /\ In(q) /\ usb.sta_ctl = "nak" /\ q.kind \in {"device", "interface", "get"}
  BY <1>1, <1>4, <1>5 DEF Answer, In
<1>7. irq = {} /\ irq' = {"DATA"}
  <2>1. irq # {"DATA"}
    BY <1>1, <1>6 DEF In
  <2> QED
    BY <1>1, <1>2, <1>5, <2>1 DEF UsbInv, PendingAt
<1>8. ~Fails(q) /\ usb.fifo \in Seq(UsbByte)
  BY <1>1, <1>6, <1>7 DEF In
<1>9. PICK g : g = host.got \o usb.fifo
  OBVIOUS
<1>10. g \in Seq(UsbByte)
  BY <1>2, <1>8, <1>9
<1>11. PICK m \in BOOLEAN : m = (usb.fifo # << >> \/ usb.reg_usb_sups_cyc_cali = "0x18")
  OBVIOUS
<1>12. PICK w \in {"in", "status"} :
          w = (IF Len(usb.fifo) < 8 \/ Len(g) >= q.length THEN "status" ELSE "in")
  OBVIOUS
<1>13. host' = [host EXCEPT !.got = g, !.stage = w, !.marked = m]
  BY <1>3, <1>9, <1>11, <1>12 DEF HostIn
<1>14. /\ host' \in Transfer /\ host' # NoTransfer /\ host'.stage = w /\ host'.request = q
       /\ host'.got = g
       /\ host'.marked <=> m
  BY <1>2, <1>3, <1>10, <1>13 DEF Transfer, NoTransfer
<1>15. /\ usb' \in UsbRecord /\ usb'.data_ctl = "nak" /\ usb'.sta_ctl = "nak"
       /\ usb'.setting = usb.setting /\ usb'.control_request = usb.control_request
       /\ usb'.usb_len_idx_h = usb.usb_len_idx_h /\ usb'.usb_len_idx_s = usb.usb_len_idx_s
       /\ usb'.g_stall = usb.g_stall /\ usb'.g_response = usb.g_response
  BY <1>1, <1>6 DEF UsbInv, UsbShape, UsbRecord
<1>16. UsbShape'
  BY <1>1, <1>14, <1>15 DEF UsbInv, UsbShape
<1>17. BelievedRight'
  BY <1>1, <1>7, <1>15 DEF UsbInv, BelievedRight
<1>18. PendingAt'
  BY <1>7, <1>14 DEF PendingAt
<1>19. ASSUME Promises(q)
       PROVE  /\ w = "status" => g = Promised(q)
              /\ w = "status" /\ q.kind = "device" => host'.marked
              /\ w = "in" =>
                   \E p \in Nat :
                     /\ HasGot(q, p)'
                     /\ usb'.g_response = SubSeq(Promised(q), p + 1, Len(Promised(q)))
  <2>1. PICK F : F = Promised(q)
    OBVIOUS
  <2>2. PICK p \in Nat, n \in 0 .. 8 :
          /\ HasGot(q, p)
          /\ n = (IF Len(F) - p < 8 THEN Len(F) - p ELSE 8)
          /\ usb.fifo = SubSeq(F, p + 1, p + n)
          /\ usb.g_response = SubSeq(F, p + n + 1, Len(F))
          /\ q.kind = "device" /\ n = 0 => usb.reg_usb_sups_cyc_cali = "0x18"
    BY <1>6, <1>7, <1>8, <1>19, <2>1 DEF In
  <2>3. /\ F \in Seq(UsbByte) /\ Len(F) \in Nat /\ q.length \in Nat /\ Len(F) <= q.length
    BY <1>19, <2>1, PromiseIs, Requests
  <2>4. /\ p \in 0 .. Len(F) /\ p % 8 = 0 /\ p < q.length
        /\ host.got = SubSeq(F, 1, p)
    BY <2>1, <2>2 DEF HasGot
  <2>5. n \in 0 .. Len(F) - p /\ p + n \in 0 .. Len(F) /\ p + n \in Nat
    BY <2>2, <2>3, <2>4
  <2>6. g = SubSeq(F, 1, p + n)
    BY <1>9, <2>2, <2>3, <2>4, <2>5, PartsJoin
  <2>7. Len(g) = p + n /\ Len(usb.fifo) = n
    <3>1. \A i \in 1 .. Len(F) : F[i] \in UsbByte
      BY <2>3
    <3>2. /\ 1 \in Int /\ p + n \in Int /\ p + 1 \in Int
          /\ 1 .. p + n \subseteq 1 .. Len(F) /\ p + 1 .. p + n \subseteq 1 .. Len(F)
      BY <2>3, <2>4, <2>5
    <3>3. Len(SubSeq(F, 1, p + n)) = IF 1 <= p + n THEN (p + n) - 1 + 1 ELSE 0
      BY <3>1, <3>2, SubSeqProperties
    <3>4. Len(SubSeq(F, p + 1, p + n))
            = IF p + 1 <= p + n THEN (p + n) - (p + 1) + 1 ELSE 0
      BY <3>1, <3>2, SubSeqProperties
    <3> QED
      BY <2>2, <2>4, <2>5, <2>6, <3>3, <3>4
  <2>8. ASSUME w = "status" PROVE g = F
    <3>1. p + n = Len(F)
      BY <1>12, <2>2, <2>3, <2>4, <2>5, <2>7, <2>8
    <3> QED
      BY <2>3, <2>6, <3>1, SubSeqFull
  <2>9. ASSUME q.kind = "device" PROVE m
    <3>1. CASE n = 0
      BY <1>11, <2>2, <2>9, <3>1
    <3>2. CASE n # 0
      <4>1. Len(usb.fifo) # 0
        BY ONLY <2>7, <3>2
      <4>2. usb.fifo # << >>
        BY ONLY <1>8, <4>1, EmptySeq
      <4> QED
        BY <1>11, <4>2
    <3> QED
      BY <3>1, <3>2
  <2>10. ASSUME w = "in"
         PROVE  \E k \in Nat :
                  /\ HasGot(q, k)'
                  /\ usb'.g_response = SubSeq(Promised(q), k + 1, Len(Promised(q)))
    <3>1. n = 8 /\ p + n < q.length
      BY <1>12, <2>2, <2>3, <2>5, <2>7, <2>10
    <3>2. (p + n) % 8 = 0
      BY <2>4, <3>1
    <3>3. usb.fifo # << >>
      <4>1. Len(usb.fifo) # 0
        BY ONLY <2>7, <3>1
      <4> QED
        BY ONLY <1>8, <4>1, EmptySeq
    <3>4. host'.marked
      BY <1>11, <1>14, <3>3
    <3>5. HasGot(q, p + n)'
      BY <1>14, <2>1, <2>5, <2>6, <2>7, <3>1, <3>2, <3>4 DEF HasGot
    <3> QED
      BY <1>15, <2>1, <2>2, <2>5, <3>5
  <2> QED
    BY <1>14, <2>1, <2>8, <2>9, <2>10
<1>20. q.kind = "device" => Promises(q)
  BY <1>8, Requests DEF Fails, Promises
<1>21. q.kind = "get" => w = "status" /\ \E v \in believed[q.of] : g = <<v>>
  <2> SUFFICES ASSUME q.kind = "get" PROVE w = "status" /\ \E v \in believed[q.of] : g = <<v>>
    OBVIOUS
  <2>1. host.got = << >> /\ \E v \in believed[q.of] : usb.fifo = <<v>>
    BY <1>6, <1>7, <1>8 DEF In
  <2>2. g = usb.fifo
    BY <1>8, <1>9, <2>1
  <2>3. Len(usb.fifo) = 1
    BY <2>1
  <2>4. w = "status"
    BY <1>12, <2>3
  <2> QED
    BY <2>1, <2>2, <2>4
<1>22. Answered'
  <2> SUFFICES ASSUME NEW r \in Request, host'.request = r PROVE Answer(r)'
    BY DEF Answered
  <2>1. r = q
    BY <1>14
  <2>2. Seen(r)'
    BY <1>6, <1>15, <2>1 DEF Seen
  <2>3. CASE w = "in"
    <3>1. In(r)'
      BY <1>6, <1>7, <1>8, <1>15, <1>19, <1>21, <2>1, <2>3 DEF In
    <3> QED
      BY <1>1, <1>4, <1>7, <1>14, <1>15, <2>1, <2>2, <2>3, <3>1 DEF Answer
  <2>4. CASE w = "status"
    <3>1. Over(r)'
      BY <1>1, <1>6, <1>7, <1>8, <1>14, <1>19, <1>20, <1>21, <2>1, <2>4 DEF Over
    <3> QED
      BY <1>1, <1>4, <1>7, <1>14, <1>15, <2>1, <2>2, <2>4, <3>1 DEF Answer
  <2> QED
    BY <1>12, <2>3, <2>4
<1> QED
  BY <1>16, <1>17, <1>18, <1>22 DEF UsbInv

(* What a turn of the device leaves if each of its parts did its own. *)
Settled(q) ==
    /\ usb' \in UsbRecord
    /\ Seen(q)'
    /\ \A s \in Setting : usb'.setting[s] \in believed[s]
    /\ host.stage \in {"in", "out", "status"} => usb'.sta_ctl = "nak"
    /\ host.stage = "ending" => usb'.sta_ctl = (IF Fails(q) THEN "stall" ELSE "ack")
    /\ host.stage = "in" => In(q)'
    /\ host.stage = "out" => Out(q)'
    /\ host.stage \in {"status", "ending"} => Over(q)'

LEMMA TurnKeeps ==
    ASSUME UsbInv, usb_handle_irq, NEW q \in Request, q = host.request,
           host # NoTransfer, host.stage \in {"in", "out", "status", "ending"}, Settled(q)
    PROVE  UsbInv'
<1>1. host' = host /\ believed' = believed /\ irq' = {}
  BY DEF usb_handle_irq
<1>2. UsbShape'
  BY <1>1 DEF UsbInv, UsbShape, Settled
<1>3. BelievedRight'
  BY <1>1 DEF Settled, BelievedRight
<1>4. PendingAt'
  BY <1>1 DEF PendingAt
<1>5. Answer(q)
  BY DEF UsbInv, Answered
<1>6. Answered'
  <2> SUFFICES ASSUME NEW r \in Request, host'.request = r PROVE Answer(r)'
    BY DEF Answered
  <2>1. r = q
    BY <1>1
  <2> QED
    BY <1>1, <1>5, <2>1 DEF Settled, Answer
<1> QED
  BY <1>2, <1>3, <1>4, <1>6 DEF UsbInv

(* The settings that the setup packet and the data leave are believed. *)
LEMMA SettingBelieved ==
    ASSUME UsbInv, "RESET" \notin irq, NEW q \in Request,
           q.kind = "set" => q.value \in believed[q.of],
           NEW f, f = usb.setting \/ (q.kind = "set" /\ f = [usb.setting EXCEPT ![q.of] = q.value])
    PROVE  \A s \in Setting : f[s] \in believed[s]
<1>1. \A s \in Setting : usb.setting[s] \in believed[s]
  BY DEF UsbInv, BelievedRight
<1>2. usb.setting \in [Setting -> Value]
  BY DEF UsbInv, UsbShape, UsbRecord
<1> QED
  BY <1>1, <1>2

(* The first packet of an answer is ready. *)
LEMMA FirstPacket ==
    ASSUME UsbInv, usb_handle_irq, irq = {"SETUP"}, NEW q \in Request, q = host.request,
           host # NoTransfer, host.stage = "in",
           Prepared(usb, usb', q), usb'.data_ctl = (IF Fails(q) THEN "stall" ELSE "ack")
    PROVE  In(q)'
<1>1. host' = host /\ believed' = believed /\ irq' = {}
  BY DEF usb_handle_irq
<1>2. Answer(q)
  BY DEF UsbInv, Answered
<1>3. host.got = << >> /\ host.marked
  BY <1>2 DEF Answer, Unseen
<1>4. q.kind \in {"device", "interface", "get"}
  <2>1. FirstStage(q) = "in"
    BY DEF UsbInv, PendingAt
  <2> QED
    BY <2>1 DEF FirstStage
<1>5. usb'.fifo \in Seq(UsbByte)
  BY <1>4 DEF Prepared
<1>6. ASSUME Promises(q)
      PROVE  \E p \in Nat, n \in 0 .. 8 :
               /\ HasGot(q, p)'
               /\ n = (IF Len(Promised(q)) - p < 8 THEN Len(Promised(q)) - p ELSE 8)
               /\ usb'.fifo = SubSeq(Promised(q), p + 1, p + n)
               /\ usb'.g_response = SubSeq(Promised(q), p + n + 1, Len(Promised(q)))
               /\ q.kind = "device" /\ n = 0 => usb'.reg_usb_sups_cyc_cali = "0x18"
  <2>1. PICK F : F = Promised(q)
    OBVIOUS
  <2>2. PICK n \in 0 .. 8 :
          /\ n = (IF Len(F) < 8 THEN Len(F) ELSE 8)
          /\ usb'.fifo = SubSeq(F, 1, n)
          /\ usb'.g_response = SubSeq(F, n + 1, Len(F))
    BY <1>6, <2>1 DEF Prepared
  <2>3. F \in Seq(UsbByte) /\ Len(F) \in Nat \ {0} /\ Len(F) <= q.length /\ q.length \in Nat
    BY <1>6, <2>1, PromiseIs, Requests
  <2>4. SubSeq(F, 1, 0) = << >>
    BY <2>3, SubSeqEmpty
  <2>5. Len(host.got) = 0
    BY <1>3
  <2>6. HasGot(q, 0)'
    BY <1>1, <1>3, <2>1, <2>3, <2>4, <2>5 DEF HasGot
  <2>7. /\ 0 + 1 = 1 /\ 0 + n = n /\ 0 + n + 1 = n + 1 /\ Len(F) - 0 = Len(F) /\ n # 0 /\ 0 \in Nat
    BY <2>2, <2>3
  <2> QED
    BY <2>1, <2>2, <2>6, <2>7
<1>7. ASSUME q.kind = "get"
      PROVE  \E v \in believed[q.of] : usb'.fifo = <<v>>
  <2>1. usb'.fifo = <<usb.setting[q.of]>> /\ q.of \in Setting
    BY <1>7, Requests DEF Prepared
  <2>2. usb.setting[q.of] \in believed[q.of]
    BY <2>1 DEF UsbInv, BelievedRight
  <2> QED
    BY <2>1, <2>2
<1> QED
  BY <1>1, <1>3, <1>4, <1>5, <1>6, <1>7 DEF In

LEMMA SetupIrqKeeps ==
    ASSUME UsbInv, usb_handle_irq, irq \in {{"SETUP"}, {"SETUP", "STA"}}, NEW q \in Request,
           q = host.request, host # NoTransfer
    PROVE  UsbInv'
<1>1. host' = host /\ believed' = believed /\ irq' = {} /\ usb \in UsbRecord
  BY DEF usb_handle_irq, UsbInv, UsbShape
<1>2. Answer(q)
  BY DEF UsbInv, Answered
<1>3. /\ usb.fifo = q /\ host.got = << >> /\ host.marked
      /\ q.kind = "set" => q.value \in believed[q.of]
  BY <1>2 DEF Answer, Unseen
<1>4. PICK e : e = usb_handle_ctl_ep_setup(usb)
  OBVIOUS
<1>5. Prepared(usb, e, q) /\ e.data_ctl = (IF Fails(q) THEN "stall" ELSE "ack")
  BY <1>1, <1>3, <1>4, SetupServed
<1>6. \A s \in Setting : e.setting[s] \in believed[s]
  <2>1. "RESET" \notin irq
    OBVIOUS
  <2>2. e.setting = usb.setting
          \/ (q.kind = "set" /\ e.setting = [usb.setting EXCEPT ![q.of] = q.value])
    BY <1>5 DEF Prepared
  <2>3. PICK f : f = e.setting
    OBVIOUS
  <2> QED
    BY <1>3, <2>1, <2>2, <2>3, SettingBelieved
<1>7. ASSUME FirstStage(q) = "status", usb'.setting = e.setting PROVE Over(q)'
  <2>1. q.kind = "refused" \/ (q.kind = "set" /\ q.of # "LineCoding")
    BY <1>7, Requests DEF FirstStage
  <2>2. q.kind = "set" => usb'.setting[q.of] = q.value
    <3> SUFFICES ASSUME q.kind = "set" PROVE usb'.setting[q.of] = q.value
      OBVIOUS
    <3>1. q.of \in Setting /\ usb.setting \in [Setting -> Value]
      BY <1>1, Requests DEF UsbRecord
    <3>2. e.setting = [usb.setting EXCEPT ![q.of] = q.value]
      BY <1>5, <2>1 DEF Prepared
    <3> QED
      BY <1>7, <3>1, <3>2
  <2> QED
    BY <1>1, <2>1, <2>2 DEF Over, Promises
<1>8. CASE irq = {"SETUP"}
  <2>1. usb' = e
    BY <1>4, <1>8 DEF usb_handle_irq
  <2>2. host.stage = FirstStage(q) /\ host.stage \in {"in", "out", "status"}
    BY <1>8 DEF UsbInv, PendingAt, FirstStage
  <2>3. usb'.sta_ctl = "nak"
    BY <1>2, <1>5, <2>1, <2>2 DEF Answer, Prepared
  <2>4. Seen(q)'
    BY <1>5, <2>1 DEF Seen, Prepared
  <2>5. host.stage = "in" => In(q)'
    BY <1>5, <1>8, <2>1, FirstPacket
  <2>6. host.stage = "out" => Out(q)'
    BY <1>5, <2>1, <2>2 DEF FirstStage, Out, Fails
  <2>7. host.stage = "status" => Over(q)'
    BY <1>7, <2>1, <2>2
  <2>8. Settled(q)
    BY <1>5, <1>6, <2>1, <2>2, <2>3, <2>4, <2>5, <2>6, <2>7 DEF Settled, Prepared
  <2> QED
    BY <2>2, <2>8, TurnKeeps
<1>9. CASE irq = {"SETUP", "STA"}
  <2>1. usb' = usb_handle_ctl_ep_status(e)
    BY <1>4, <1>9 DEF usb_handle_irq
  <2>2. host.stage = "ending" /\ FirstStage(q) = "status"
    BY <1>9 DEF UsbInv, PendingAt
  <2>3. PICK w : w = usb_handle_ctl_ep_status(e)
    OBVIOUS
  <2>4. /\ w \in UsbRecord /\ w.sta_ctl = (IF e.g_stall = 1 THEN "stall" ELSE "ack")
        /\ w.g_stall = e.g_stall /\ w.usb_len_idx_s = e.usb_len_idx_s
        /\ w.usb_len_idx_h = e.usb_len_idx_h /\ w.control_request = e.control_request
        /\ w.setting = e.setting
    BY <1>5, <2>3, StatusServed DEF Prepared
  <2>5. usb' = w
    BY <2>1, <2>3
  <2>6. Seen(q)' /\ usb'.sta_ctl = (IF Fails(q) THEN "stall" ELSE "ack")
    BY <1>5, <2>4, <2>5 DEF Seen, Prepared
  <2>7. Over(q)'
    BY <1>7, <2>2, <2>4, <2>5
  <2>8. Settled(q)
    BY <1>6, <2>2, <2>4, <2>5, <2>6, <2>7 DEF Settled
  <2> QED
    BY <2>2, <2>8, TurnKeeps
<1> QED
  BY <1>8, <1>9

LEMMA DataIrqKeeps ==
    ASSUME UsbInv, usb_handle_irq, irq \in {{"DATA"}, {"DATA", "STA"}}, NEW q \in Request,
           q = host.request, host # NoTransfer
    PROVE  UsbInv'
<1>1. host' = host /\ believed' = believed /\ irq' = {} /\ usb \in UsbRecord
  BY DEF usb_handle_irq, UsbInv, UsbShape
<1>2. Answer(q) /\ Seen(q)
  BY DEF UsbInv, Answered, Answer
<1>3. host.stage \in {"in", "status", "ending"} /\ (irq = {"DATA", "STA"} => host.stage = "ending")
      /\ (irq = {"DATA"} => host.stage \in {"in", "status"})
  BY DEF UsbInv, PendingAt
<1>4. CASE host.stage = "in" /\ irq = {"DATA"}
  <2>1. In(q) /\ ~Fails(q) /\ q.kind \in {"device", "interface"} /\ usb.sta_ctl = "nak"
    BY <1>2, <1>4 DEF Answer, In
  <2>2. PICK e : e = usb_handle_ctl_ep_data(usb)
    OBVIOUS
  <2>3. usb' = e
    BY <1>4, <2>2 DEF usb_handle_irq
  <2>4. usb.control_request = q /\ usb.usb_len_idx_h = q.length
    BY <1>2 DEF Seen
  <2>5. Handled(usb, e, q) /\ e.data_ctl = "ack"
    BY <1>1, <2>1, <2>2, <2>4, DataServed
  <2>6. /\ e \in UsbRecord /\ e.setting = usb.setting /\ e.sta_ctl = "nak"
        /\ e.fifo \in Seq(UsbByte)
    BY <2>1, <2>5 DEF Handled
  <2>7. Seen(q)'
    BY <1>2, <2>1, <2>3, <2>5 DEF Seen, Handled
  <2>8. ASSUME Promises(q)
        PROVE  \E p \in Nat, n \in 0 .. 8 :
                 /\ HasGot(q, p)'
                 /\ n = (IF Len(Promised(q)) - p < 8 THEN Len(Promised(q)) - p ELSE 8)
                 /\ usb'.fifo = SubSeq(Promised(q), p + 1, p + n)
                 /\ usb'.g_response = SubSeq(Promised(q), p + n + 1, Len(Promised(q)))
                 /\ q.kind = "device" /\ n = 0 => usb'.reg_usb_sups_cyc_cali = "0x18"
    <3>1. PICK p \in Nat :
            HasGot(q, p) /\ usb.g_response = SubSeq(Promised(q), p + 1, Len(Promised(q)))
      BY <1>4, <2>1, <2>8 DEF In
    <3>2. p \in 0 .. Len(Promised(q)) /\ p % 8 = 0 /\ p < q.length
      BY <3>1 DEF HasGot
    <3>3. q.kind = "device" => usb.usb_len_idx_s = DescLen[q.of]
      BY <1>2, <2>1 DEF Seen
    <3>4. Onward(e, q, p)
      BY <1>1, <2>2, <2>4, <2>8, <3>1, <3>2, <3>3, PromiseGoesOn
    <3>5. HasGot(q, p)'
      BY <1>1, <3>1 DEF HasGot
    <3> QED
      BY <2>3, <3>4, <3>5 DEF Onward
  <2>9. In(q)'
    BY <1>1, <2>1, <2>3, <2>5, <2>6, <2>8 DEF In
  <2>10. "RESET" \notin irq
    BY <1>4
  <2>11. \A s \in Setting : usb'.setting[s] \in believed[s]
    BY <2>3, <2>6, <2>10 DEF UsbInv, BelievedRight
  <2>12. Settled(q)
    BY <1>4, <2>3, <2>6, <2>7, <2>9, <2>11 DEF Settled
  <2> QED
    BY <1>4, <2>12, TurnKeeps
<1>5. CASE host.stage \in {"status", "ending"}
  <2>1. Over(q)
    BY <1>2, <1>5 DEF Answer
  <2>2. /\ ~Fails(q) /\ q.kind # "refused"
        /\ q.kind = "set" => /\ q.of = "LineCoding" /\ usb.fifo = <<q.value>>
                             /\ q.value \in believed[q.of]
    BY <1>2, <2>1 DEF Over, Fails, Answer
  <2>3. PICK e : e = usb_handle_ctl_ep_data(usb)
    OBVIOUS
  <2>4. usb.control_request = q /\ usb.usb_len_idx_h = q.length
    BY <1>2 DEF Seen
  <2>5. Handled(usb, e, q)
    BY <1>1, <2>2, <2>3, <2>4, DataServed
  <2>6. /\ e \in UsbRecord /\ e.control_request = q /\ e.usb_len_idx_h = q.length /\ e.g_stall = 0
        /\ e.sta_ctl = usb.sta_ctl /\ e.usb_len_idx_s = usb.usb_len_idx_s
        /\ e.setting = usb.setting
             \/ (q.kind = "set" /\ e.setting = [usb.setting EXCEPT ![q.of] = q.value])
        /\ q.kind = "set" => e.setting[q.of] = q.value
    <3>1. q.kind = "set" => e.setting[q.of] = q.value
      <4> SUFFICES ASSUME q.kind = "set" PROVE e.setting[q.of] = q.value
        OBVIOUS
      <4>1. q.of \in Setting /\ usb.setting \in [Setting -> Value]
        BY <1>1, Requests DEF UsbRecord
      <4> QED
        BY <2>5, <4>1 DEF Handled
    <3> QED
      BY <2>5, <3>1 DEF Handled
  <2>7. \A s \in Setting : e.setting[s] \in believed[s]
    <3>1. "RESET" \notin irq
      OBVIOUS
    <3>2. PICK f : f = e.setting
      OBVIOUS
    <3> QED
      BY <2>2, <2>6, <3>1, <3>2, SettingBelieved
  <2>8. ASSUME usb'.setting = e.setting PROVE Over(q)'
    BY <1>1, <2>1, <2>2, <2>6, <2>8 DEF Over
  <2>9. CASE irq = {"DATA"}
    <3>1. usb' = e /\ host.stage = "status"
      BY <1>3, <1>5, <2>3, <2>9 DEF usb_handle_irq
    <3>2. Seen(q)'
      BY <1>2, <2>2, <2>6, <3>1 DEF Seen
    <3>3. e.sta_ctl = "nak"
      BY <1>2, <2>6, <3>1 DEF Answer
    <3>4. Settled(q)
      BY <2>6, <2>7, <2>8, <3>1, <3>2, <3>3 DEF Settled
    <3> QED
      BY <3>1, <3>4, TurnKeeps
  <2>10. CASE irq = {"DATA", "STA"}
    <3>1. PICK w : w = usb_handle_ctl_ep_status(e)
      OBVIOUS
    <3>2. usb' = w /\ host.stage = "ending"
      BY <1>3, <2>3, <2>10, <3>1 DEF usb_handle_irq
    <3>3. /\ w \in UsbRecord /\ w.sta_ctl = (IF e.g_stall = 1 THEN "stall" ELSE "ack")
          /\ w.g_stall = e.g_stall /\ w.usb_len_idx_s = e.usb_len_idx_s
          /\ w.usb_len_idx_h = e.usb_len_idx_h /\ w.control_request = e.control_request
          /\ w.setting = e.setting
      BY <2>6, <3>1, StatusServed
    <3>4. Seen(q)' /\ usb'.sta_ctl = (IF Fails(q) THEN "stall" ELSE "ack")
      BY <1>2, <2>2, <2>6, <3>2, <3>3 DEF Seen
    <3>5. Settled(q)
      BY <2>7, <2>8, <3>2, <3>3, <3>4 DEF Settled
    <3> QED
      BY <3>2, <3>5, TurnKeeps
  <2> QED
    BY <2>9, <2>10
<1> QED
  BY <1>3, <1>4, <1>5

LEMMA StatusIrqKeeps ==
    ASSUME UsbInv, usb_handle_irq, irq = {"STA"}, NEW q \in Request,
           q = host.request, host # NoTransfer
    PROVE  UsbInv'
<1>1. host' = host /\ believed' = believed /\ irq' = {} /\ usb \in UsbRecord
  BY DEF usb_handle_irq, UsbInv, UsbShape
<1>2. host.stage = "ending"
  BY DEF UsbInv, PendingAt
<1>3. Seen(q) /\ Over(q)
  BY <1>2 DEF UsbInv, Answered, Answer
<1>4. PICK w : w = usb_handle_ctl_ep_status(usb)
  OBVIOUS
<1>5. usb' = w
  BY <1>4 DEF usb_handle_irq
<1>6. /\ w \in UsbRecord /\ w.sta_ctl = (IF usb.g_stall = 1 THEN "stall" ELSE "ack")
      /\ w.g_stall = usb.g_stall /\ w.usb_len_idx_s = usb.usb_len_idx_s
      /\ w.usb_len_idx_h = usb.usb_len_idx_h /\ w.control_request = usb.control_request
      /\ w.setting = usb.setting
  BY <1>1, <1>4, StatusServed
<1>7. Seen(q)' /\ usb'.sta_ctl = (IF Fails(q) THEN "stall" ELSE "ack")
  BY <1>3, <1>5, <1>6 DEF Seen
<1>8. Over(q)'
  BY <1>1, <1>3, <1>5, <1>6 DEF Over
<1>9. "RESET" \notin irq
  OBVIOUS
<1>10. \A s \in Setting : usb'.setting[s] \in believed[s]
  BY <1>5, <1>6, <1>9 DEF UsbInv, BelievedRight
<1>11. Settled(q)
  BY <1>2, <1>5, <1>6, <1>7, <1>8, <1>10 DEF Settled
<1> QED
  BY <1>2, <1>11, TurnKeeps

LEMMA BusResetKeeps ==
    ASSUME UsbInv, usb_handle_irq, host = NoTransfer
    PROVE  UsbInv'
<1>1. host' = host /\ believed' = believed /\ irq' = {} /\ usb \in UsbRecord
  BY DEF usb_handle_irq, UsbInv, UsbShape
<1>2. irq = {"RESET"}
  BY DEF usb_handle_irq, UsbInv, PendingAt
<1>3. usb' = BusReset(usb)
  BY <1>2 DEF usb_handle_irq
<1>4. "usb_mouse_report_proto" \in Setting /\ DefaultValue \in Value
  BY UsbAssumption DEF Setting
<1>5. PICK f : f = [usb.setting EXCEPT !["usb_mouse_report_proto"] = DefaultValue]
  OBVIOUS
<1>6. usb.setting \in [Setting -> Value]
  BY <1>1 DEF UsbRecord
<1>7. /\ f \in [Setting -> Value] /\ f["usb_mouse_report_proto"] = DefaultValue
      /\ \A s \in Setting : s # "usb_mouse_report_proto" => f[s] = usb.setting[s]
  BY <1>4, <1>5, <1>6
<1>8. usb' = [usb EXCEPT !.setting = f]
  BY <1>3, <1>5 DEF BusReset
<1>9. usb' \in UsbRecord /\ usb'.setting = f
  BY <1>1, <1>7, <1>8 DEF UsbRecord
<1>10. UsbShape'
  BY <1>1, <1>9 DEF UsbInv, UsbShape
<1>11. BelievedRight'
  <2>1. \A s \in Setting : f[s] \in believed[s]
    BY <1>2, <1>7 DEF UsbInv, BelievedRight
  <2> QED
    BY <1>1, <1>9, <2>1 DEF BelievedRight
<1>12. PendingAt' /\ Answered'
  BY <1>1 DEF PendingAt, Answered
<1> QED
  BY <1>10, <1>11, <1>12 DEF UsbInv

LEMMA IrqKeeps == ASSUME UsbInv, usb_handle_irq PROVE UsbInv'
<1>1. CASE host = NoTransfer
  BY <1>1, BusResetKeeps
<1>2. CASE host # NoTransfer
  <2>1. host.request \in Request
    BY <1>2 DEF UsbInv, UsbShape, Transfer
  <2>2. PICK q \in Request : q = host.request
    BY <2>1
  <2>3. irq \in {{"SETUP"}, {"SETUP", "STA"}, {"DATA"}, {"DATA", "STA"}, {"STA"}}
    BY <1>2 DEF UsbInv, PendingAt, usb_handle_irq
  <2> QED
    BY <1>2, <2>2, <2>3, SetupIrqKeeps, DataIrqKeeps, StatusIrqKeeps
<1> QED
  BY <1>1, <1>2

LEMMA UsbInvStep == ASSUME Patient, UsbInv, [UsbNext]_usbVars PROVE UsbInv'
<1>1. CASE \E q \in Request : HostSetup(q)
  BY <1>1, SetupKeeps
<1>2. CASE HostIn
  BY <1>2, InKeeps
<1>3. CASE HostOut
  BY <1>3, OutKeeps
<1>4. CASE HostStatus
  BY <1>4, StatusKeeps
<1>5. CASE HostDone
  BY <1>5, DoneKeeps
<1>6. CASE HostStalled
  BY <1>6, StalledKeeps
<1>7. CASE HostReset
  BY <1>7, ResetKeeps
<1>8. CASE usb_handle_irq
  BY <1>8, IrqKeeps
<1>9. CASE UNCHANGED usbVars
  <2>1. usb' = usb /\ irq' = irq /\ host' = host /\ believed' = believed
    BY <1>9 DEF usbVars
  <2>2. UsbShape' /\ BelievedRight' /\ PendingAt'
    BY <2>1 DEF UsbInv, UsbShape, BelievedRight, PendingAt
  <2>3. ASSUME NEW r \in Request, host' # NoTransfer, host'.request = r PROVE Answer(r)'
    <3>1. Answer(r)
      BY <2>1, <2>3 DEF UsbInv, Answered
    <3>2. /\ Unseen(r) => Unseen(r)'
          /\ Seen(r) => Seen(r)'
          /\ Out(r) => Out(r)'
          /\ Over(r) => Over(r)'
      BY <2>1 DEF Unseen, Seen, Out, Over
    <3>3. In(r) => In(r)'
      BY <2>1, Zenon DEF In, HasGot
    <3> QED
      BY <2>1, <3>1, <3>2, <3>3 DEF Answer
  <2> QED
    BY <2>2, <2>3 DEF UsbInv, Answered
<1> QED
  BY <1>1, <1>2, <1>3, <1>4, <1>5, <1>6, <1>7, <1>8, <1>9 DEF UsbNext

LEMMA UsbInvSays == ASSUME UsbInv PROVE AnswerIsAsked
<1>1. ASSUME host.stage \in {"done", "stalled"}
      PROVE  AnswerIsAsked
  <2>1. host # NoTransfer /\ host \in Transfer /\ host.request \in Request
    BY <1>1, AtStage DEF UsbInv
  <2>2. PICK q \in Request : q = host.request
    BY <2>1
  <2>3. Answer(q)
    BY <2>1, <2>2 DEF UsbInv, Answered
  <2>4. irq = {}
    BY <1>1, <2>1, <2>2 DEF UsbInv, PendingAt, FirstStage
  <2>5. /\ host.stage = "done" => Over(q) /\ ~Fails(q)
        /\ host.stage = "stalled" => Fails(q)
    BY <2>3, <2>4 DEF Answer
  <2>6. q.kind \in {"device", "interface"} /\ q.of # "ignored" /\ q.of # "unknown" => Promises(q)
    BY Requests DEF Promises
  <2>7. ASSUME host.stage = "done" PROVE AnswerIsAsked
    BY <2>2, <2>5, <2>6, <2>7 DEF AnswerIsAsked, Over, Fails, Promised
  <2>8. ASSUME host.stage = "stalled" PROVE AnswerIsAsked
    BY <2>2, <2>5, <2>8 DEF AnswerIsAsked, Fails
  <2> QED
    BY <1>1, <2>7, <2>8
<1> QED
  BY <1>1 DEF AnswerIsAsked

(* If the host gives a transfer up only when none of its interrupts is pending,
   a transfer that ends well has given it what it asked for, whatever
   descriptors there are, however long, and whatever lengths are asked for
   (usb.c:89-107, usb.c:632-793). *)
THEOREM AnswersAreThoseAsked ==
    ASSUME Patient
    PROVE  UsbSpec => []AnswerIsAsked
<1>1. UsbInit => UsbInv
  BY UsbInvInit
<1>2. UsbInv /\ [UsbNext]_usbVars => UsbInv'
  BY UsbInvStep
<1>3. UsbInv => AnswerIsAsked
  BY UsbInvSays
<1> QED
  BY <1>1, <1>2, <1>3, PTL DEF UsbSpec
=============================================================================
