--------------------------- MODULE UpdateMsgQueue ---------------------------
(***************************************************************************)
(* The message queue of the two updaters, step by step: OTA_MsgQueuePush   *)
(* and OTA_MsgQueuePop of src/ota/ota.c, which FW_UPDATE_MsgQueuePush and  *)
(* FW_UPDATE_MsgQueuePop of src/fw_update/fw_update.c repeat.  Neither     *)
(* disables interrupts.  The interrupt handler pushes between any two      *)
(* steps of the main loop, and is not interrupted itself; the main loop    *)
(* pops, and in the UART updater its timer callback pushes.                *)
(*                                                                         *)
(* Over the air the radio gives one interrupt per start, and the main loop *)
(* starts it again only when it has handled a message: one message at a    *)
(* time (OneOutstanding of OtaUpdate).  The UART listens always.           *)
(***************************************************************************)
EXTENDS Integers, Sequences

CONSTANTS
    Item,        \* messages
    Nothing,     \* no message
    MaxNumber    \* bound of number, which drifts away from Cnt when messages are lost

VARIABLES
    updater,           \* the program that the queue is in: "ota" or "fw"
    Msg, Cnt, ReadPtr, \* the MsgQueueTypeDef
    pc, slot, cnt,     \* the main loop: where it is, and its registers
    taken,             \* the message that the main loop popped last
    credit,            \* how many interrupts may come now
    number             \* messages accepted and not yet popped

queueVars == <<updater, Msg, Cnt, ReadPtr, pc, slot, cnt, taken, credit, number>>

MSG_QUEUE_LEN == 4
Index == 0 .. MSG_QUEUE_LEN - 1

ASSUME QueueAssumption == MaxNumber \in Nat /\ Nothing \notin Item

(* The messages that may come before one is handled. *)
Outstanding == IF updater = "ota" THEN 1 ELSE 2

QueueInit ==
    /\ updater \in {"ota", "fw"}
    /\ Msg = [i \in Index |-> Nothing]
    /\ Cnt = 0 /\ ReadPtr = 0
    /\ pc = "loop" /\ slot = 0 /\ cnt = 0
    /\ taken = Nothing
    /\ credit = Outstanding
    /\ number = 0

Clip(n) == IF n > MaxNumber THEN MaxNumber ELSE IF n < -MaxNumber THEN -MaxNumber ELSE n

(* Mutant: the end of the queue is counted from the start of the array. *)
LastFromZero == Cnt % MSG_QUEUE_LEN

NextFree == (ReadPtr + Cnt) % MSG_QUEUE_LEN
-----------------------------------------------------------------------------
(* The interrupt handler's push, from beginning to end. *)
IrqPush ==
    \E x \in Item :
        /\ credit > 0 /\ credit' = credit - 1
        /\ IF Cnt < MSG_QUEUE_LEN
           THEN /\ Msg' = [Msg EXCEPT ![NextFree] = x]
                /\ Cnt' = Cnt + 1
                /\ number' = Clip(number + 1)
           ELSE UNCHANGED <<Msg, Cnt, number>>
        /\ UNCHANGED <<updater, ReadPtr, pc, slot, cnt, taken>>

(* OTA_MsgQueuePop: with an empty queue it returns at once. *)
PopTest ==
    /\ pc = "loop" /\ Cnt > 0
    /\ pc' = "ret"
    /\ UNCHANGED <<updater, Msg, Cnt, ReadPtr, slot, cnt, taken, credit, number>>

PopRet ==
    /\ pc = "ret"
    /\ slot' = ReadPtr
    /\ pc' = "readptr"
    /\ UNCHANGED <<updater, Msg, Cnt, ReadPtr, cnt, taken, credit, number>>

(* The read pointer moves on: the message is out of the queue. *)
PopReadPtr ==
    /\ pc = "readptr"
    /\ ReadPtr' = (ReadPtr + 1) % MSG_QUEUE_LEN
    /\ taken' = Msg[slot]
    /\ number' = Clip(number - 1)
    /\ pc' = "load"
    /\ UNCHANGED <<updater, Msg, Cnt, slot, cnt, credit>>

(* Queue->Cnt-- is a load and a store. *)
PopLoad ==
    /\ pc = "load"
    /\ cnt' = Cnt
    /\ pc' = "store"
    /\ UNCHANGED <<updater, Msg, Cnt, ReadPtr, slot, taken, credit, number>>

PopStore ==
    /\ pc = "store"
    /\ Cnt' = cnt - 1
    /\ pc' = "use"
    /\ UNCHANGED <<updater, Msg, ReadPtr, slot, cnt, taken, credit, number>>

(* The state machine has used the message, through the pointer it was given,
   and starts the radio again. *)
Used ==
    /\ pc = "use"
    /\ pc' = "loop"
    /\ credit' = IF credit < Outstanding THEN credit + 1 ELSE credit
    /\ UNCHANGED <<updater, Msg, Cnt, ReadPtr, slot, cnt, taken, number>>

(* The timer callback of fw_update.c:105-109 pushes. *)
PushTest ==
    /\ updater = "fw"
    /\ pc = "loop" /\ Cnt < MSG_QUEUE_LEN
    /\ slot' = NextFree
    /\ pc' = "write"
    /\ UNCHANGED <<updater, Msg, Cnt, ReadPtr, cnt, taken, credit, number>>

PushWrite ==
    \E x \in Item :
        /\ pc = "write"
        /\ Msg' = [Msg EXCEPT ![slot] = x]
        /\ pc' = "inc"
        /\ UNCHANGED <<updater, Cnt, ReadPtr, slot, cnt, taken, credit, number>>

(* Queue->Cnt++ is a load and a store, too. *)
PushLoad ==
    /\ pc = "inc"
    /\ cnt' = Cnt
    /\ pc' = "incstore"
    /\ UNCHANGED <<updater, Msg, Cnt, ReadPtr, slot, taken, credit, number>>

PushStore ==
    /\ pc = "incstore"
    /\ Cnt' = cnt + 1
    /\ number' = Clip(number + 1)
    /\ pc' = "loop"
    /\ UNCHANGED <<updater, Msg, ReadPtr, slot, cnt, taken, credit>>

QueueNext ==
    \/ IrqPush
    \/ PopTest \/ PopRet \/ PopReadPtr \/ PopLoad \/ PopStore \/ Used
    \/ PushTest \/ PushWrite \/ PushLoad \/ PushStore

QueueSpec == QueueInit /\ [][QueueNext]_queueVars
-----------------------------------------------------------------------------
(* Whatever is lost to the races, Cnt never goes below zero, where an unsigned
   char would become 255 and the queue would look full for good.  An interrupt
   between the test and the increment of the callback's push can take Cnt one
   beyond the length of the queue. *)
QueueTypeOK ==
    /\ updater \in {"ota", "fw"}
    /\ Msg \in [Index -> Item \cup {Nothing}]
    /\ Cnt \in 0 .. MSG_QUEUE_LEN + 1 /\ ReadPtr \in Index
    /\ pc \in {"loop", "ret", "readptr", "load", "store", "use", "write", "inc", "incstore"}
    /\ slot \in Index /\ cnt \in 0 .. MSG_QUEUE_LEN + 1
    /\ taken \in Item \cup {Nothing}
    /\ credit \in 0 .. Outstanding
    /\ number \in -MaxNumber .. MaxNumber

(* What the structure holds, with a pop under way taken into account. *)
InQueue == IF pc \in {"load", "store"} THEN Cnt - 1 ELSE Cnt

InOrder == [i \in 1 .. InQueue |-> Msg[(ReadPtr + i - 1) % MSG_QUEUE_LEN]]

Abstract == INSTANCE Fifo WITH Capacity <- MSG_QUEUE_LEN, queue <- InOrder

(* Over the air, interrupts between any steps of a pop or not, the messages
   come out in the order in which they came in, each once and none lost or made
   up (ota.c:80-103). *)
QueueIsFifo ==
    /\ Abstract!Init
    /\ [][updater = "ota" => Abstract!Next]_<<InOrder, taken>>

(* Cnt is the "current num of msg" (fw_update.c:70, ota.c:73), whenever the
   main loop is not in the middle of a push or a pop. *)
CntIsCurrent == pc \in {"loop", "use"} => Cnt = number
=============================================================================
