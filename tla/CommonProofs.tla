----------------------------- MODULE CommonProofs ----------------------------
(***************************************************************************)
(* What the programs have in common: the two queues that a thread or an    *)
(* interrupt shares with another implement a FIFO, the ring buffer for     *)
(* every size and every interleaving of its two threads, the message queue *)
(* of the updaters over the air, whatever the messages; the counter of the *)
(* latter stays in range in both programs, whatever its races do; and for  *)
(* every list length, wrap-around, margin, set of intervals and gap that   *)
(* fit one another, no software timer is called early and none is missed.  *)
(*                                                                         *)
(* And of the chip's drivers: a pin, a timer and the watchdog stay as they *)
(* were told for any number of calls and any board; what the flash's test  *)
(* says of a flash is right; and the radio demonstrations go on, but for   *)
(* the exceptions that their properties name.                              *)
(***************************************************************************)
EXTENDS RingBuffer, UpdateMsgQueue, TimerEvent, FlashTest, GpioPins, RadioDemos, TLAPS

(***************************************************************************)
(* The ring buffer.                                                        *)
(***************************************************************************)
(* How many bytes the array holds: those counted and one that is not yet, or
   no longer, counted. *)
Held == sount + (IF inserting = "advanced" THEN 1 ELSE 0)
              - (IF removing = "advanced" THEN 1 ELSE 0)

(* What lets the threads do without a lock: what each of them may still do, with
   what it is doing, is covered by the count, and the count only lags behind to
   the safe side. *)
RingInv ==
    /\ RingTypeOK
    /\ room + sount <= size /\ (inserting # "no" => room + sount < size)
    /\ left <= sount /\ (removing # "no" => left < sount)
    /\ in = PlaceOf(out, Held)

(* Pointers run through the places in turn. *)
LEMMA AfterIsNext ==
    ASSUME NEW p \in Place, NEW n \in 0 .. size - 1
    PROVE  /\ PlaceOf(p, n) \in Place /\ After(p) \in Place
           /\ After(PlaceOf(p, n)) = PlaceOf(p, n + 1)
           /\ PlaceOf(After(p), n) = PlaceOf(p, n + 1)
BY SizeAssumption DEF Place, PlaceOf, After

LEMMA RoomFits ==
    ASSUME NEW n \in Nat, NEW s \in Nat, s <= n, NEW r \in 0 .. n - s
    PROVE  r \in 0 .. n /\ r + s <= n
OBVIOUS

LEMMA RingInvInit == RingInit => RingInv
BY SizeAssumption DEF RingInit, RingInv, RingTypeOK, Place, Held, PlaceOf

LEMMA RingInvStep == RingInv /\ [RingNext]_ringVars => RingInv'
<1> SUFFICES ASSUME RingInv, [RingNext]_ringVars PROVE RingInv'
  OBVIOUS
<1> USE SizeAssumption DEF RingInv, RingTypeOK, Held
<1>1. CASE ringbuffer_get_free_count
  <2>1. /\ room' \in 0 .. size - sount /\ inserting = "no"
        /\ UNCHANGED <<mem, in, out, sount, inserting, left, removing, Data>>
    BY <1>1 DEF ringbuffer_get_free_count
  <2>2. sount \in Nat /\ size \in Nat /\ sount <= size
    OBVIOUS
  <2>3. room' \in 0 .. size /\ room' + sount <= size
    BY <2>1, <2>2, RoomFits
  <2> QED
    BY <2>1, <2>3 DEF PlaceOf
<1>2. CASE \E b \in Byte : InsertStore(b)
  BY <1>2 DEF InsertStore, PlaceOf
<1>3. CASE InsertAdvance
  <2>1. in = PlaceOf(out, sount - (IF removing = "advanced" THEN 1 ELSE 0))
    BY <1>3 DEF InsertAdvance
  <2>2. sount - (IF removing = "advanced" THEN 1 ELSE 0) \in 0 .. size - 1
    BY <1>3 DEF InsertAdvance
  <2>3. in' \in Place /\ in' = PlaceOf(out, Held')
    BY <1>3, <2>1, <2>2, AfterIsNext DEF InsertAdvance
  <2> QED
    BY <1>3, <2>3 DEF InsertAdvance, PlaceOf
<1>4. CASE InsertCount
  BY <1>4 DEF InsertCount, PlaceOf
<1>5. CASE ringbuffer_get_count
  <2>1. /\ left' \in 0 .. sount /\ removing = "no"
        /\ UNCHANGED <<mem, in, out, sount, room, inserting, removing, Data>>
    BY <1>5 DEF ringbuffer_get_count
  <2>2. left' \in 0 .. size /\ left' <= sount
    BY <2>1
  <2> QED
    BY <2>1, <2>2 DEF PlaceOf
<1>6. CASE RemoveRead
  BY <1>6 DEF RemoveRead, PlaceOf
<1>7. CASE RemoveAdvance
  <2>1. Held \in 1 .. size /\ Held' = Held - 1
    BY <1>7 DEF RemoveAdvance
  <2>2. out' \in Place /\ in = PlaceOf(out', Held')
    BY <1>7, <2>1, AfterIsNext DEF RemoveAdvance
  <2> QED
    BY <1>7, <2>2 DEF RemoveAdvance, PlaceOf
<1>8. CASE RemoveCount
  BY <1>8 DEF RemoveCount, PlaceOf
<1>9. CASE UNCHANGED ringVars
  BY <1>9 DEF ringVars, PlaceOf
<1> QED
  BY <1>1, <1>2, <1>3, <1>4, <1>5, <1>6, <1>7, <1>8, <1>9 DEF RingNext

(* The steps as the FIFO sees them. *)
LEMMA StoredInit == RingInit => Stored = << >>
BY DEF RingInit, Stored, Number

(* Storing a byte leaves the bytes in the buffer alone: its place is not one of
   theirs. *)
LEMMA StoreOutside ==
    ASSUME RingInv, inserting = "no", room > 0, NEW i \in 1 .. Number
    PROVE  PlaceOf(First, i - 1) # in
<1> USE SizeAssumption DEF RingInv, RingTypeOK, Held, Number, First
<1>1. CASE removing = "no"
  BY <1>1 DEF Place, PlaceOf
<1>2. CASE removing = "read"
  BY <1>2 DEF Place, PlaceOf, After
<1>3. CASE removing = "advanced"
  BY <1>3 DEF Place, PlaceOf
<1> QED
  BY <1>1, <1>2, <1>3

LEMMA FifoStep ==
    ASSUME RingInv, RingInv', [RingNext]_ringVars
    PROVE  [Ring!Next]_<<Stored, Data>>
<1> USE SizeAssumption DEF RingInv, RingTypeOK
<1>1. CASE ringbuffer_get_free_count
  BY <1>1 DEF ringbuffer_get_free_count, Stored, First, Number
<1>2. ASSUME NEW b \in Byte, InsertStore(b) PROVE Stored' = Stored /\ Data' = Data
  <2>1. \A i \in 1 .. Number : PlaceOf(First, i - 1) # in
    BY <1>2, StoreOutside DEF InsertStore
  <2>2. First \in Place /\ Number \in 0 .. size
    BY AfterIsNext DEF First, Number, Place, After
  <2>5. \A i \in 1 .. Number : PlaceOf(First, i - 1) \in Place
    BY <2>2 DEF Place, PlaceOf
  <2>3. \A i \in 1 .. Number : mem'[PlaceOf(First, i - 1)] = mem[PlaceOf(First, i - 1)]
    BY <1>2, <2>1, <2>5 DEF InsertStore
  <2>4. Number' = Number /\ First' = First
    BY <1>2 DEF InsertStore, First, Number
  <2> QED
    BY <1>2, <2>3, <2>4 DEF InsertStore, Stored, PlaceOf
<1>3. CASE InsertAdvance
  BY <1>3 DEF InsertAdvance, Stored, First, Number
<1>4. CASE InsertCount
  <2>1. Number' = Number + 1 /\ First' = First /\ mem' = mem /\ Number \in 0 .. size - 1
    BY <1>4 DEF InsertCount, First, Number
  <2>2. PlaceOf(First, Number) \in Place
    BY <2>1 DEF First, After, Place, PlaceOf
  <2>3. Stored' = [i \in 1 .. Number + 1 |-> mem[PlaceOf(First, i - 1)]]
    BY <2>1 DEF Stored, PlaceOf
  <2>4. Stored' = Append(Stored, mem[PlaceOf(First, Number)])
    BY <2>1, <2>3 DEF Stored
  <2>5. mem[PlaceOf(First, Number)] \in Byte
    BY <2>2
  <2>6. Len(Stored) = Number
    BY <2>1 DEF Stored
  <2> QED
    BY <1>4, <2>1, <2>4, <2>5, <2>6 DEF InsertCount, Ring!Next, Ring!Put
<1>5. CASE ringbuffer_get_count
  BY <1>5 DEF ringbuffer_get_count, Stored, First, Number
<1>6. CASE RemoveRead
  <2>1. Number \in 1 .. size /\ Number' = Number - 1 /\ First' = After(First) /\ mem' = mem
    BY <1>6 DEF RemoveRead, First, Number
  <2>2. First = out /\ First \in Place
    BY <1>6 DEF RemoveRead, First
  <2>3. Data' = Stored[1]
    BY <1>6, <2>1, <2>2 DEF RemoveRead, Stored, PlaceOf, Place
  <2>4. ASSUME NEW i \in 1 .. Number - 1
        PROVE  PlaceOf(After(First), i - 1) = PlaceOf(First, i)
    BY <2>1, <2>2, <2>4, AfterIsNext
  <2>5. Stored' = [i \in 1 .. Number - 1 |-> mem[PlaceOf(First, i)]]
    BY <2>1, <2>4 DEF Stored, PlaceOf
  <2>7. Stored = [i \in 1 .. Number |-> mem[PlaceOf(First, i - 1)]]
    BY DEF Stored
  <2>8. Stored \in Seq(Byte)
    <3>1. ASSUME NEW i \in 1 .. Number PROVE PlaceOf(First, i - 1) \in Place
      BY <2>1, <2>2, AfterIsNext
    <3> QED
      BY ONLY <2>1, <2>7, <3>1, SizeAssumption, mem \in [Place -> Byte]
  <2>6. Stored' = Tail(Stored) /\ Stored # << >> /\ Data' = Head(Stored)
    BY ONLY <2>1, <2>3, <2>5, <2>7, <2>8, SizeAssumption
  <2> QED
    BY <2>6 DEF Ring!Next, Ring!Get
<1>7. CASE RemoveAdvance
  BY <1>7 DEF RemoveAdvance, Stored, First, Number, PlaceOf
<1>8. CASE RemoveCount
  BY <1>8 DEF RemoveCount, Stored, First, Number, PlaceOf
<1>9. CASE UNCHANGED ringVars
  BY <1>9 DEF ringVars, Stored, First, Number, PlaceOf
<1> QED
  BY <1>1, <1>2, <1>3, <1>4, <1>5, <1>6, <1>7, <1>8, <1>9 DEF RingNext

(* The inductive invariant holds. *)
THEOREM RingInvHolds == RingSpec => []RingInv
BY RingInvInit, RingInvStep, PTL DEF RingSpec

(* Without a lock on the pointers the bytes come out in order, each once
   (ringbuffer_insert, ringbuffer_remove). *)
THEOREM RingImplementsFifo == RingSpec => RingIsFifo
<1>1. RingInit => Ring!Init
  BY StoredInit DEF Ring!Init
<1>2. RingInv /\ RingInv' /\ [RingNext]_ringVars => [Ring!Next]_<<Stored, Data>>
  BY FifoStep
<1> QED
  BY <1>1, <1>2, RingInvHolds, PTL DEF RingSpec, RingIsFifo, Ring!Spec
-----------------------------------------------------------------------------
(***************************************************************************)
(* The message queue.                                                      *)
(***************************************************************************)
(* A pop under way has something to take away, and a push room for one. *)
InRange ==
    /\ QueueTypeOK
    /\ pc \in {"ret", "readptr", "load"} => Cnt >= 1
    /\ pc = "store" => cnt >= 1
    /\ pc \in {"write", "inc", "incstore"} => Cnt <= MSG_QUEUE_LEN
    /\ pc = "incstore" => cnt <= MSG_QUEUE_LEN

(* Over the air there is one message or one interrupt to come, or the main loop
   is at work on a message and nothing is to come. *)
OneAtATime ==
    /\ pc \in {"loop", "ret", "readptr", "load", "store", "use"}
    /\ pc = "loop" => Cnt + credit = 1
    /\ pc \in {"ret", "readptr", "load", "store"} => Cnt = 1 /\ credit = 0
    /\ pc = "readptr" => slot = ReadPtr
    /\ pc = "store" => cnt = 1
    /\ pc = "use" => Cnt = 0 /\ credit = 0

QueueInv == InRange /\ (updater = "ota" => OneAtATime)

LEMMA Clipped ==
    ASSUME NEW n \in Int PROVE Clip(n) \in -MaxNumber .. MaxNumber
BY QueueAssumption DEF Clip

LEMMA QueueInvInit == QueueInit => QueueInv
BY QueueAssumption
   DEF QueueInit, QueueInv, InRange, OneAtATime, QueueTypeOK, Index, MSG_QUEUE_LEN, Outstanding

LEMMA QueueInvStep == QueueInv /\ [QueueNext]_queueVars => QueueInv'
<1> SUFFICES ASSUME QueueInv, [QueueNext]_queueVars PROVE QueueInv'
  OBVIOUS
<1> USE QueueAssumption
    DEF QueueInv, InRange, OneAtATime, QueueTypeOK, Index, MSG_QUEUE_LEN, Outstanding
<1>1. /\ Clip(number + 1) \in -MaxNumber .. MaxNumber
      /\ Clip(number - 1) \in -MaxNumber .. MaxNumber
  BY Clipped
<1>2. NextFree \in Index
  BY DEF NextFree
<1>3. CASE IrqPush
  BY <1>1, <1>2, <1>3 DEF IrqPush
<1>4. CASE PopTest
  BY <1>4 DEF PopTest
<1>5. CASE PopRet
  BY <1>5 DEF PopRet
<1>6. CASE PopReadPtr
  BY <1>1, <1>6 DEF PopReadPtr
<1>7. CASE PopLoad
  BY <1>7 DEF PopLoad
<1>8. CASE PopStore
  BY <1>8 DEF PopStore
<1>9. CASE Used
  BY <1>9 DEF Used
<1>10. CASE PushTest
  BY <1>2, <1>10 DEF PushTest
<1>11. CASE PushWrite
  BY <1>11 DEF PushWrite
<1>12. CASE PushLoad
  BY <1>12 DEF PushLoad
<1>13. CASE PushStore
  BY <1>1, <1>13 DEF PushStore
<1>14. CASE UNCHANGED queueVars
  BY <1>14 DEF queueVars
<1> QED
  BY <1>3, <1>4, <1>5, <1>6, <1>7, <1>8, <1>9, <1>10, <1>11, <1>12, <1>13, <1>14
     DEF QueueNext

(* The invariant above holds in every reachable state. *)
THEOREM QueueInvHolds == QueueSpec => []QueueInv
BY QueueInvInit, QueueInvStep, PTL DEF QueueSpec

(* Cnt never goes below zero nor more than one beyond the queue's length, in
   either updater and whatever interrupts a push or a pop (fw_update.c:76-102). *)
THEOREM QueueTypeCorrect == QueueSpec => []QueueTypeOK
<1>1. QueueInv => QueueTypeOK
  BY DEF QueueInv, InRange
<1> QED
  BY <1>1, QueueInvHolds, PTL
-----------------------------------------------------------------------------
LEMMA EmptyAtFirst == QueueInit => Abstract!Init
BY DEF QueueInit, Abstract!Init, InOrder, InQueue

(* Over the air the queue holds no message or one. *)
NoneOrOne ==
    /\ InQueue \in {0, 1} /\ ReadPtr \in Index
    /\ InQueue = 0 => InOrder = << >>
    /\ InQueue = 1 => InOrder = <<Msg[ReadPtr]>>

LEMMA HoldsOne == QueueInv /\ updater = "ota" => NoneOrOne
<1> SUFFICES ASSUME QueueInv, updater = "ota" PROVE NoneOrOne
  OBVIOUS
<1>1. InQueue \in {0, 1} /\ ReadPtr \in Index
  BY DEF QueueInv, InRange, OneAtATime, QueueTypeOK, InQueue, Outstanding
<1>2. InQueue = 0 => InOrder = << >>
  BY DEF InOrder
<1>3. ASSUME InQueue = 1 PROVE InOrder = <<Msg[ReadPtr]>>
  <2>1. (ReadPtr + 1 - 1) % MSG_QUEUE_LEN = ReadPtr
    BY <1>1 DEF Index, MSG_QUEUE_LEN
  <2> QED
    BY <1>3, <2>1 DEF InOrder
<1> QED
  BY <1>1, <1>2, <1>3 DEF NoneOrOne

LEMMA HoldsOneNext == QueueInv' /\ updater' = "ota" => NoneOrOne'
<1>1. (QueueInv /\ updater = "ota")' => NoneOrOne'
  BY HoldsOne, PTL
<1> QED
  BY <1>1

LEMMA QueueFifoStep ==
    QueueInv /\ QueueInv' /\ [QueueNext]_queueVars
        => [updater = "ota" => Abstract!Next]_<<InOrder, taken>>
<1> SUFFICES ASSUME QueueInv, QueueInv', [QueueNext]_queueVars, updater = "ota"
             PROVE  Abstract!Next \/ UNCHANGED <<InOrder, taken>>
  OBVIOUS
<1>0. updater' = "ota"
  BY DEF QueueNext, queueVars, IrqPush, PopTest, PopRet, PopReadPtr, PopLoad, PopStore,
         Used, PushTest, PushWrite, PushLoad, PushStore
<1>1. NoneOrOne
  BY HoldsOne
<1>2. NoneOrOne'
  BY <1>0, HoldsOneNext
<1>3. OneAtATime /\ QueueTypeOK
  BY DEF QueueInv, InRange
<1>4. CASE IrqPush
  <2>1. PICK x \in Item : Msg' = [Msg EXCEPT ![NextFree] = x] /\ Cnt = 0 /\ Cnt' = 1
    BY <1>3, <1>4 DEF IrqPush, OneAtATime, QueueTypeOK, Outstanding, MSG_QUEUE_LEN
  <2>2. pc = "loop" /\ UNCHANGED <<pc, ReadPtr, taken>>
    BY <1>3, <1>4 DEF IrqPush, OneAtATime
  <2>3. NextFree = ReadPtr
    BY <1>1, <2>1 DEF NoneOrOne, NextFree, Index, MSG_QUEUE_LEN
  <2>4. Msg'[ReadPtr'] = x
    BY <1>1, <1>3, <2>1, <2>2, <2>3 DEF NoneOrOne, QueueTypeOK
  <2>5. InOrder = << >> /\ InOrder' = <<x>>
    BY <1>1, <1>2, <2>1, <2>2, <2>4 DEF NoneOrOne, InQueue
  <2>6. Abstract!Put(x)
    BY <2>2, <2>5 DEF Abstract!Put, MSG_QUEUE_LEN
  <2> QED
    BY <2>6 DEF Abstract!Next
<1>5. CASE PopReadPtr
  <2>1. InQueue = 1 /\ InQueue' = 0 /\ taken' = Msg[ReadPtr]
    BY <1>3, <1>5 DEF PopReadPtr, OneAtATime, InQueue
  <2>2. InOrder = <<Msg[ReadPtr]>> /\ InOrder' = << >>
    BY <1>1, <1>2, <2>1 DEF NoneOrOne
  <2>3. Abstract!Get
    BY <2>1, <2>2 DEF Abstract!Get
  <2> QED
    BY <2>3 DEF Abstract!Next
<1>6. CASE PopTest \/ PopRet \/ PopLoad \/ PopStore \/ Used
  <2>1. InQueue' = InQueue /\ UNCHANGED <<Msg, ReadPtr, taken>>
    BY <1>3, <1>6 DEF PopTest, PopRet, PopLoad, PopStore, Used, OneAtATime, InQueue
  <2> QED
    BY <1>1, <1>2, <2>1 DEF NoneOrOne
<1>7. CASE PushTest \/ PushWrite \/ PushLoad \/ PushStore
  BY <1>3, <1>7 DEF PushTest, PushWrite, PushLoad, PushStore, OneAtATime
<1>8. CASE UNCHANGED queueVars
  BY <1>8 DEF queueVars, InOrder, InQueue
<1> QED
  BY <1>4, <1>5, <1>6, <1>7, <1>8 DEF QueueNext

(* Over the air messages come out in the order in which they came in, each once,
   for every set of messages (ota.c:80-103). *)
THEOREM QueueImplementsFifo == QueueSpec => QueueIsFifo
<1>1. QueueInit => Abstract!Init
  BY EmptyAtFirst
<1>2. QueueInv /\ QueueInv' /\ [QueueNext]_queueVars
        => [updater = "ota" => Abstract!Next]_<<InOrder, taken>>
  BY QueueFifoStep
<1> QED
  BY <1>1, <1>2, QueueInvHolds, PTL DEF QueueSpec, QueueIsFifo

(***************************************************************************)
(* The software timers.                                                    *)
(***************************************************************************)
(* The expiry time of a valid timer, seen from the clock. *)
Runs(e, a) ==
    \/ a < e.interval /\ e.t = Plus(clock, e.interval - a)
    \/ a >= e.interval /\ e.t = Minus(clock, a - e.interval)

(* The slots that the present round of ev_process_timer is past, or the last
   one if none is under way, were not due when it began; the others were not
   due when the round before it began. *)
Punctual(s) ==
    /\ at > s => age[s] - since < timer_list[s].interval
    /\ at <= s => age[s] - since <= timer_list[s].interval + MaxGap

TimerInv ==
    /\ TimerTypeOK
    /\ clock = Plus(now, since)
    /\ \A s \in Slot : timer_list[s].valid => Runs(timer_list[s], age[s]) /\ Punctual(s)

USE SlotsAssumption, GapAssumption

(* What the wrapped comparison says of a timer: that its interval had passed
   when ev_process_timer read the clock. *)
LEMMA ExpiredExact ==
    ASSUME TimerInv, NEW s \in Slot, timer_list[s].valid
    PROVE  Expired(s) <=> age[s] - since >= timer_list[s].interval
<1> DEFINE e == timer_list[s]
           i == e.interval
           a == age[s]
<1>1. /\ clock \in Time /\ now \in Time /\ e \in Event
      /\ since \in 0 .. MaxGap /\ a \in Nat
      /\ clock = Plus(now, since) /\ Runs(e, a) /\ Punctual(s)
  BY DEF TimerInv, TimerTypeOK
<1>2. i \in Interval /\ e.t \in Time
  BY <1>1 DEF Event
<1>3. i \in Nat \ {0} /\ i + 2 * MaxGap <= Wrap - Margin
  BY <1>2, IntervalAssumption
<1>4. at \in Nat /\ s \in Nat
  BY DEF TimerInv, TimerTypeOK, Slot, Idle
<1>5. a - since <= i + MaxGap
  BY <1>1, <1>3, <1>4 DEF Punctual
<1>6. CASE a - since >= i
  <2>1. Minus(now, e.t) = a - since - i
    BY <1>1, <1>2, <1>3, <1>5, <1>6 DEF Runs, Plus, Minus, Time
  <2> QED BY <2>1, <1>1, <1>3, <1>5, <1>6 DEF Expired, ev_is_timer_expired
<1>7. CASE a - since < i
  <2>1. Minus(now, e.t) >= Margin /\ Minus(now, e.t) \in Int
    BY <1>1, <1>2, <1>3, <1>7 DEF Runs, Plus, Minus, Time
  <2> QED BY <2>1, <1>1, <1>3, <1>7 DEF Expired, ev_is_timer_expired
<1> QED BY <1>1, <1>3, <1>6, <1>7

(* The sums and differences of times are times. *)
LEMMA WrapTime ==
    ASSUME NEW x \in Time, NEW y \in Time
    PROVE  Plus(x, y) \in Time /\ Minus(x, y) \in Time
  BY DEF Plus, Minus, Time

LEMMA IntervalFits ==
    ASSUME NEW i \in Interval
    PROVE  i \in Nat \ {0} /\ i \in Time /\ i + 2 * MaxGap <= Wrap - Margin
  BY IntervalAssumption DEF Time

(* A valid timer has not run for so long that the clock has come round. *)
LEMMA AgeFits ==
    ASSUME TimerInv, NEW s \in Slot, timer_list[s].valid
    PROVE  /\ timer_list[s] \in Event /\ timer_list[s].interval \in Interval
           /\ age[s] \in Nat /\ age[s] <= timer_list[s].interval + 2 * MaxGap
<1>1. /\ timer_list[s] \in Event /\ age[s] \in Nat /\ since \in 0 .. MaxGap
      /\ at \in 1 .. Idle /\ Punctual(s)
  BY DEF TimerInv, TimerTypeOK
<1>2. timer_list[s].interval \in Interval
  BY <1>1 DEF Event
<1> QED
  BY <1>1, <1>2, IntervalFits DEF Punctual, Slot, Idle

(* TimerInv holds at first. *)
THEOREM TimerInvInit == TimerInit => TimerInv
<1> SUFFICES ASSUME TimerInit PROVE TimerInv
  OBVIOUS
<1>1. 0 \in Time
  BY IntervalFits DEF TimerInit, Time
<1>2. clock = Plus(now, since)
  BY DEF TimerInit, Plus, Time
<1> QED
  BY <1>1, <1>2 DEF TimerInit, TimerInv, TimerTypeOK, Event, Idle

(* A started or rearmed timer: its age is what has passed since `now`, or 0. *)
LEMMA ArmedRuns ==
    ASSUME TimerInv, NEW i \in Interval
    PROVE  /\ Runs([t |-> Plus(clock, i), interval |-> i, valid |-> TRUE, busy |-> TRUE], 0)
           /\ \A e \in Event : Runs([e EXCEPT !.interval = i, !.t = Plus(now, i)], since)
<1>1. i \in Nat \ {0} /\ i + 2 * MaxGap <= Wrap - Margin
  BY IntervalFits
<1>2. clock \in Time /\ now \in Time /\ clock = Plus(now, since) /\ since \in 0 .. MaxGap
  BY DEF TimerInv, TimerTypeOK
<1>3. Runs([t |-> Plus(clock, i), interval |-> i, valid |-> TRUE, busy |-> TRUE], 0)
  BY <1>1 DEF Runs
<1>4. ASSUME NEW e \in Event
      PROVE  Runs([e EXCEPT !.interval = i, !.t = Plus(now, i)], since)
  <2> DEFINE f == [e EXCEPT !.interval = i, !.t = Plus(now, i)]
  <2>1. f.interval = i /\ f.t = Plus(now, i)
    BY DEF Event
  <2>2. \/ since < i /\ Plus(now, i) = Plus(clock, i - since)
        \/ since >= i /\ Plus(now, i) = Minus(clock, since - i)
    BY <1>1, <1>2 DEF Plus, Minus, Time
  <2> QED BY <2>1, <2>2 DEF Runs
<1> QED BY <1>3, <1>4

LEMMA TickKeeps ==
    ASSUME TimerInv, Tick
    PROVE  TimerInv'
<1>1. /\ clock \in Time /\ now \in Time /\ since \in 0 .. MaxGap - 1
      /\ clock = Plus(now, since) /\ age \in [Slot -> Nat] /\ at \in 1 .. Idle
      /\ timer_list \in [Slot -> Event]
      /\ clock' = Plus(clock, 1) /\ since' = since + 1
      /\ UNCHANGED <<timer_list, at, now>>
  BY DEF TimerInv, TimerTypeOK, Tick
<1>3. clock' \in Time /\ clock' = Plus(now, since')
  BY <1>1 DEF Plus, Time
<1>4. TimerTypeOK'
  BY <1>1, <1>3 DEF TimerTypeOK, Tick
<1>5. ASSUME NEW s \in Slot, timer_list[s].valid
      PROVE  (Runs(timer_list[s], age[s]) /\ Punctual(s))'
  <2>1. Runs(timer_list[s], age[s]) /\ Punctual(s) /\ age'[s] = age[s] + 1
    BY <1>5 DEF TimerInv, Tick
  <2>2. /\ timer_list[s].interval \in Interval /\ age[s] \in Nat
        /\ age[s] <= timer_list[s].interval + 2 * MaxGap
    BY <1>5, AgeFits
  <2>3. /\ timer_list[s].interval \in Nat \ {0}
        /\ timer_list[s].interval + 2 * MaxGap <= Wrap - Margin
    BY <2>2, IntervalFits
  <2>4. Runs(timer_list[s], age[s])'
    BY <1>1, <2>1, <2>2, <2>3 DEF Runs, Plus, Minus, Time
  <2>5. Punctual(s)'
    BY <1>1, <2>1, <2>2, <2>3 DEF Punctual
  <2> QED BY <2>4, <2>5
<1> QED BY <1>1, <1>3, <1>4, <1>5 DEF TimerInv

LEMMA OnKeeps ==
    ASSUME TimerInv, NEW i \in Interval, ev_on_timer(i)
    PROVE  TimerInv'
<1> DEFINE e == [t |-> Plus(clock, i), interval |-> i, valid |-> TRUE, busy |-> TRUE]
<1>1. PICK s \in Slot : timer_list' = [timer_list EXCEPT ![s] = e] /\ age' = [age EXCEPT ![s] = 0]
  BY DEF ev_on_timer, Free
<1>2. UNCHANGED <<clock, at, now, since>> /\ TimerTypeOK /\ clock = Plus(now, since)
  BY DEF ev_on_timer, TimerInv
<1>3. i \in Nat \ {0} /\ i \in Time
  BY IntervalFits
<1>4. e \in Event
  BY <1>2, <1>3, WrapTime DEF Event, TimerTypeOK
<1>5. TimerTypeOK'
  BY <1>1, <1>2, <1>4 DEF TimerTypeOK
<1>6. ASSUME NEW u \in Slot, timer_list'[u].valid
      PROVE  (Runs(timer_list[u], age[u]) /\ Punctual(u))'
  <2>1. CASE u = s
    <3>1. timer_list'[u] = e /\ age'[u] = 0
      BY <1>1, <1>2, <2>1 DEF TimerTypeOK
    <3>2. Runs(e, 0)
      BY ArmedRuns
    <3>3. since \in Nat /\ MaxGap \in Nat
      BY <1>2 DEF TimerTypeOK
    <3>4. Punctual(u)'
      BY <3>1, <3>3, <1>2, <1>3 DEF Punctual
    <3> QED BY <3>1, <3>2, <3>4, <1>2 DEF Runs
  <2>2. CASE u # s
    <3>1. timer_list'[u] = timer_list[u] /\ age'[u] = age[u]
      BY <1>1, <1>2, <2>2 DEF TimerTypeOK
    <3>2. Runs(timer_list[u], age[u]) /\ Punctual(u)
      BY <1>6, <3>1 DEF TimerInv
    <3> QED BY <3>1, <3>2, <1>2 DEF Runs, Punctual
  <2> QED BY <2>1, <2>2
<1> QED BY <1>2, <1>5, <1>6 DEF TimerInv

LEMMA UnonKeeps ==
    ASSUME TimerInv, NEW s \in Slot, ev_unon_timer(s)
    PROVE  TimerInv'
<1>1. /\ timer_list' = [timer_list EXCEPT ![s].valid = FALSE, ![s].busy = FALSE]
      /\ age' = [age EXCEPT ![s] = 0]
      /\ UNCHANGED <<clock, at, now, since>> /\ TimerTypeOK /\ clock = Plus(now, since)
  BY DEF ev_unon_timer, TimerInv
<1>2. TimerTypeOK' /\ ~timer_list'[s].valid
  BY <1>1 DEF TimerTypeOK, Event
<1>3. ASSUME NEW u \in Slot, timer_list'[u].valid
      PROVE  (Runs(timer_list[u], age[u]) /\ Punctual(u))'
  <2>1. timer_list'[u] = timer_list[u] /\ age'[u] = age[u]
    BY <1>1, <1>2, <1>3 DEF TimerTypeOK
  <2>2. Runs(timer_list[u], age[u]) /\ Punctual(u)
    BY <1>3, <2>1 DEF TimerInv
  <2> QED BY <2>1, <2>2, <1>1 DEF Runs, Punctual
<1> QED BY <1>1, <1>2, <1>3 DEF TimerInv

LEMMA BeginKeeps ==
    ASSUME TimerInv, ProcessBegins
    PROVE  TimerInv'
<1>1. /\ at = Idle /\ at' = 1 /\ now' = clock /\ since' = 0
      /\ UNCHANGED <<clock, timer_list, age>>
      /\ TimerTypeOK /\ since \in 0 .. MaxGap
  BY DEF TimerInv, TimerTypeOK, ProcessBegins
<1>2. TimerTypeOK' /\ clock' = Plus(now', since')
  BY <1>1 DEF TimerTypeOK, Plus, Time, Idle
<1>3. ASSUME NEW s \in Slot, timer_list[s].valid
      PROVE  (Runs(timer_list[s], age[s]) /\ Punctual(s))'
  <2>1. Runs(timer_list[s], age[s]) /\ Punctual(s)
    BY <1>3 DEF TimerInv
  <2>2. timer_list[s].interval \in Nat /\ age[s] \in Nat
    BY <1>3, AgeFits, IntervalFits
  <2>3. Idle > s /\ s \in Nat /\ ~(at' > s)
    BY <1>1 DEF Idle, Slot
  <2>4. age[s] <= timer_list[s].interval + MaxGap
    BY <1>1, <2>1, <2>2, <2>3 DEF Punctual
  <2> QED BY <1>1, <2>1, <2>2, <2>3, <2>4 DEF Runs, Punctual
<1> QED BY <1>1, <1>2, <1>3 DEF TimerInv

(* The loop goes on to the next slot: what is left is that the slot it leaves
   is not due any more. *)
LEMMA LeavesSlot ==
    ASSUME TimerInv, at # Idle, at' = at + 1, UNCHANGED <<clock, now, since>>, TimerTypeOK',
           \A u \in Slot : u # at => timer_list'[u] = timer_list[u] /\ age'[u] = age[u],
           timer_list'[at].valid => /\ Runs(timer_list'[at], age'[at])
                                    /\ age'[at] - since < timer_list'[at].interval
    PROVE  TimerInv'
<1>1. at \in Slot /\ clock' = Plus(now', since')
  BY DEF TimerInv, TimerTypeOK, Slot, Idle
<1>2. ASSUME NEW u \in Slot, timer_list'[u].valid
      PROVE  (Runs(timer_list[u], age[u]) /\ Punctual(u))'
  <2>1. CASE u = at
    <3>1. Runs(timer_list[u], age[u])'
      BY <1>2, <2>1 DEF Runs
    <3>2. at' > u /\ ~(at' <= u)
      BY <1>1, <2>1 DEF Slot
    <3> QED BY <1>2, <2>1, <3>1, <3>2 DEF Punctual
  <2>2. CASE u # at
    <3>1. /\ timer_list'[u] = timer_list[u] /\ age'[u] = age[u]
          /\ Runs(timer_list[u], age[u]) /\ Punctual(u)
      BY <1>2, <2>2 DEF TimerInv
    <3>2. at' > u <=> at > u
      BY <1>1, <2>2 DEF Slot
    <3>3. at' <= u <=> at <= u
      BY <1>1, <2>2 DEF Slot
    <3> QED BY <3>1, <3>2, <3>3 DEF Runs, Punctual
  <2> QED BY <2>1, <2>2
<1> QED BY <1>1, <1>2 DEF TimerInv

LEMMA ProcessKeeps ==
    ASSUME TimerInv, Skip \/ CallbackDeletes \/ CallbackRepeats
    PROVE  TimerInv'
<1>0. at # Idle /\ at' = at + 1 /\ UNCHANGED <<clock, now, since>> /\ TimerTypeOK
  BY DEF TimerInv, Skip, CallbackDeletes, CallbackRepeats
<1>1. /\ at # Idle /\ at \in Slot /\ at' = at + 1 /\ UNCHANGED <<clock, now, since>>
      /\ at' \in 1 .. Idle /\ TimerTypeOK
  BY <1>0 DEF TimerTypeOK, Slot, Idle
<1>2. timer_list[at] \in Event /\ age[at] \in Nat /\ since \in 0 .. MaxGap
  BY <1>1 DEF TimerTypeOK
<1>3. CASE Skip
  <2>1. timer_list' = timer_list /\ age' = age /\ TimerTypeOK'
    BY <1>1, <1>3 DEF Skip, TimerTypeOK
  <2>2. ASSUME timer_list[at].valid
        PROVE  /\ Runs(timer_list[at], age[at])
               /\ age[at] - since < timer_list[at].interval
    <3>1. Runs(timer_list[at], age[at]) /\ ~Expired(at)
      BY <1>1, <1>3, <2>2 DEF TimerInv, Skip
    <3>2. timer_list[at].interval \in Nat
      BY <1>1, <2>2, AgeFits, IntervalFits
    <3> QED BY <1>1, <1>2, <2>2, <3>1, <3>2, ExpiredExact
  <2>3. timer_list'[at] = timer_list[at] /\ age'[at] = age[at]
    BY <2>1
  <2>4. timer_list'[at].valid => /\ Runs(timer_list'[at], age'[at])
                                 /\ age'[at] - since < timer_list'[at].interval
    BY <2>2, <2>3
  <2> QED BY <1>1, <2>1, <2>4, LeavesSlot
<1>4. CASE CallbackDeletes
  <2>1. /\ timer_list' = [timer_list EXCEPT ![at].valid = FALSE, ![at].busy = FALSE]
        /\ age' = [age EXCEPT ![at] = 0]
    BY <1>4 DEF CallbackDeletes
  <2>2. TimerTypeOK' /\ ~timer_list'[at].valid
    BY <1>1, <2>1 DEF TimerTypeOK, Event
  <2>3. \A u \in Slot : u # at => timer_list'[u] = timer_list[u] /\ age'[u] = age[u]
    BY <1>1, <2>1 DEF TimerTypeOK
  <2> QED BY <1>1, <2>2, <2>3, LeavesSlot
<1>5. CASE CallbackRepeats
  <2>1. PICK i \in Interval :
          /\ timer_list' = [timer_list EXCEPT ![at].interval = i, ![at].t = Plus(now, i)]
          /\ age' = [age EXCEPT ![at] = since]
    BY <1>5 DEF CallbackRepeats
  <2> DEFINE e == [timer_list[at] EXCEPT !.interval = i, !.t = Plus(now, i)]
  <2>2. i \in Nat \ {0} /\ Plus(now, i) \in Time
    BY <1>1, IntervalFits, WrapTime DEF TimerTypeOK
  <2>3. e \in Event
    BY <1>2, <2>2 DEF Event
  <2>4. timer_list' = [timer_list EXCEPT ![at] = e] /\ age'[at] = since
    BY <1>1, <2>1 DEF TimerTypeOK
  <2>5. TimerTypeOK' /\ timer_list'[at] = e
    BY <1>1, <1>2, <2>1, <2>3, <2>4 DEF TimerTypeOK
  <2>6. Runs(e, since)
    BY <1>2, ArmedRuns
  <2>7. e.interval = i
    BY <1>2 DEF Event
  <2>8. since - since < i
    BY <1>2, <2>2
  <2>9. \A u \in Slot : u # at => timer_list'[u] = timer_list[u] /\ age'[u] = age[u]
    BY <1>1, <2>1 DEF TimerTypeOK
  <2> QED BY <1>1, <2>4, <2>5, <2>6, <2>7, <2>8, <2>9, LeavesSlot
<1> QED BY <1>3, <1>4, <1>5

(* TimerInv holds in every state. *)
THEOREM TimerInvHolds == TimerSpec => []TimerInv
<1>1. ASSUME TimerInv, [TimerNext]_timerVars PROVE TimerInv'
  <2>1. CASE Tick BY <1>1, <2>1, TickKeeps
  <2>2. CASE Start BY <1>1, <2>2, OnKeeps DEF Start
  <2>3. CASE Cancel BY <1>1, <2>3, UnonKeeps DEF Cancel
  <2>4. CASE ProcessBegins BY <1>1, <2>4, BeginKeeps
  <2>5. CASE Skip \/ CallbackDeletes \/ CallbackRepeats BY <1>1, <2>5, ProcessKeeps
  <2>6. CASE UNCHANGED timerVars
    BY <1>1, <2>6 DEF timerVars, TimerInv, TimerTypeOK, Runs, Punctual
  <2> QED BY <1>1, <2>1, <2>2, <2>3, <2>4, <2>5, <2>6 DEF TimerNext
<1> QED BY TimerInvInit, <1>1, PTL DEF TimerSpec

(* No timer is called before its interval has passed: ev_process_timer with
   any wrap-around of the clock and any delay in its callbacks. *)
THEOREM TimersNotEarly == TimerSpec => []NotEarly
<1>1. TimerInv => NotEarly
  <2> SUFFICES ASSUME TimerInv, NEW s \in Slot, at = s, Expired(s)
               PROVE  age[s] >= timer_list[s].interval
    BY DEF NotEarly
  <2>1. timer_list[s].valid
    BY DEF Expired
  <2>2. age[s] - since >= timer_list[s].interval
    BY <2>1, ExpiredExact
  <2>3. age[s] \in Nat /\ since \in Nat /\ timer_list[s].interval \in Nat
    BY <2>1, AgeFits, IntervalFits DEF TimerInv, TimerTypeOK
  <2> QED BY <2>2, <2>3
<1> QED BY <1>1, TimerInvHolds, PTL

(* No timer is missed, however late the loop is within its margin. *)
THEOREM TimersNotLate == TimerSpec => []NotLate
<1>1. TimerInv => NotLate
  BY AgeFits DEF NotLate
<1> QED BY <1>1, TimerInvHolds, PTL

(***************************************************************************)
(* The pins, the timers and the watchdog: every setting is as told.        *)
(***************************************************************************)
LEMMA ValueOfTwo ==
    ASSUME NEW bits, NEW addr, NEW n \in Nat
    PROVE  ValueOf(bits, addr, n, 2) =
             (IF <<addr, n>> \in bits THEN 1 ELSE 0)
               + (IF <<addr, n + 1>> \in bits THEN 2 ELSE 0)
<1> DEFINE At(i) == IF <<addr, n + i>> \in bits THEN 2^i ELSE 0
           Sums(f) == f = [i \in 0 .. 2 |-> IF i = 0 THEN 0 ELSE f[i - 1] + At(i - 1)]
           w == [i \in 0 .. 2 |-> IF i = 0 THEN 0 ELSE IF i = 1 THEN At(0) ELSE At(0) + At(1)]
           sum == CHOOSE f : Sums(f)
<1>1. ValueOf(bits, addr, n, 2) = sum[2]
  BY DEF ValueOf
<1>2. At(0) \in Int /\ At(1) \in Int
  BY 2^0 = 1, 2^1 = 2
<1>3. Sums(w)
  <2> HIDE DEF At
  <2> QED
    BY <1>2
<1>4. Sums(sum)
  <2> HIDE DEF Sums, w
  <2> QED
    BY <1>3
<1>5. sum[2] = At(0) + At(1)
  <2> HIDE DEF At, sum
  <2> QED
    BY <1>2, <1>4
<1>6. At(0) = (IF <<addr, n>> \in bits THEN 1 ELSE 0)
      /\ At(1) = IF <<addr, n + 1>> \in bits THEN 2 ELSE 0
  BY 2^0 = 1, 2^1 = 2, n + 0 = n
<1> QED
  BY <1>1, <1>5, <1>6

LEMMA PowersOfTwo == /\ 2^0 = 1 /\ 2^1 = 2 /\ 2^2 = 4 /\ 2^3 = 8 /\ 2^4 = 16 /\ 2^5 = 32 /\ 2^6 = 64
     /\ 2^7 = 128 /\ 2^8 = 256 /\ 2^9 = 512 /\ 2^10 = 1024 /\ 2^11 = 2048 /\ 2^12 = 4096
        /\ 2^13 = 8192
  OBVIOUS

(* What bit i of a value adds to it. *)
Digit(bits, addr, n, i) == IF <<addr, n + i>> \in bits THEN 2^i ELSE 0

LEMMA ValueOfFourteen ==
    ASSUME NEW bits, NEW addr, NEW n \in Nat
    PROVE  LET d(i) == Digit(bits, addr, n, i)
           IN ValueOf(bits, addr, n, 14) =
                d(0) + d(1) + d(2) + d(3) + d(4) + d(5) + d(6) + d(7) + d(8) + d(9) + d(10)
                  + d(11) + d(12) + d(13)
<1> DEFINE At(i) == Digit(bits, addr, n, i)
           Sums(f) == f = [i \in 0 .. 14 |-> IF i = 0 THEN 0 ELSE f[i - 1] + At(i - 1)]
           sum == CHOOSE f : Sums(f)
<1>1. ValueOf(bits, addr, n, 14) = sum[14]
  BY DEF ValueOf, Digit
<1>2. \A i \in 0 .. 13 : At(i) \in Int
  <2>1. \A i \in 0 .. 13 : 2^i \in Int
    BY PowersOfTwo
  <2> QED
    BY <2>1 DEF Digit
<1>3. \E f : Sums(f)
  <2> DEFINE p1 == At(0)
             p2 == p1 + At(1)
             p3 == p2 + At(2)
             p4 == p3 + At(3)
             p5 == p4 + At(4)
             p6 == p5 + At(5)
             p7 == p6 + At(6)
             p8 == p7 + At(7)
             p9 == p8 + At(8)
             p10 == p9 + At(9)
             p11 == p10 + At(10)
             p12 == p11 + At(11)
             p13 == p12 + At(12)
             p14 == p13 + At(13)
             w == <<p1, p2, p3, p4, p5, p6, p7, p8, p9, p10, p11, p12, p13, p14>>
             f == [i \in 0 .. 14 |-> IF i = 0 THEN 0 ELSE w[i]]
  <2>1. p1 = 0 + At(0) /\ p1 \in Int
    <3> HIDE DEF At
    <3> QED BY <1>2
  <2> HIDE DEF p1
  <2>2. p2 = p1 + At(1) /\ p3 = p2 + At(2) /\ p4 = p3 + At(3) /\ p5 = p4 + At(4) /\ p6 = p5 + At(5)
        /\ p7 = p6 + At(6) /\ p8 = p7 + At(7) /\ p9 = p8 + At(8) /\ p10 = p9 + At(9)
           /\ p11 = p10 + At(10)
        /\ p12 = p11 + At(11) /\ p13 = p12 + At(12) /\ p14 = p13 + At(13)
     OBVIOUS
  <2> HIDE DEF p2, p3, p4, p5, p6, p7, p8, p9, p10, p11, p12, p13, p14, At
  <2>3. \A i \in 1 .. 14 : w[i] = (IF i = 1 THEN 0 ELSE w[i - 1]) + At(i - 1)
    BY <2>1, <2>2
  <2>4. Sums(f)
    BY <2>3
  <2> QED BY <2>4
<1>4. Sums(sum)
  <2> HIDE DEF Sums
  <2> QED
    BY <1>3
<1>5. \A i \in 1 .. 14 : sum[i] = sum[i - 1] + At(i - 1)
  <2> HIDE DEF At, sum
  <2> QED
    BY <1>4
<1>5a. sum[0] = 0
  <2> HIDE DEF At, sum
  <2> QED
    BY <1>4
<1>6. sum[14] = At(0) + At(1) + At(2) + At(3) + At(4) + At(5) + At(6)
                + At(7) + At(8) + At(9) + At(10) + At(11) + At(12) + At(13)
  <2>1. sum[1] = At(0) /\ sum[2] = sum[1] + At(1) /\ sum[3] = sum[2] + At(2)
        /\ sum[4] = sum[3] + At(3) /\ sum[5] = sum[4] + At(4)
    <3> HIDE DEF At, sum
    <3> QED BY <1>5, <1>5a, <1>2
  <2>2. sum[6] = sum[5] + At(5) /\ sum[7] = sum[6] + At(6) /\ sum[8] = sum[7] + At(7)
        /\ sum[9] = sum[8] + At(8) /\ sum[10] = sum[9] + At(9)
    <3> HIDE DEF At, sum
    <3> QED BY <1>5
  <2>3. sum[11] = sum[10] + At(10) /\ sum[12] = sum[11] + At(11) /\ sum[13] = sum[12] + At(12)
        /\ sum[14] = sum[13] + At(13)
    <3> HIDE DEF At, sum
    <3> QED BY <1>5
  <2> HIDE DEF At, sum
  <2> QED BY <2>1, <2>2, <2>3, <1>2
<1> HIDE DEF sum
<1> QED
  BY <1>1, <1>6

LEMMA SevenDigits ==
    ASSUME NEW u \in Nat
    PROVE  (IF u % 2 = 1 THEN 1 ELSE 0) + (IF (u \div 2) % 2 = 1 THEN 2 ELSE 0)
           + (IF (u \div 4) % 2 = 1 THEN 4 ELSE 0) + (IF (u \div 8) % 2 = 1 THEN 8 ELSE 0)
           + (IF (u \div 16) % 2 = 1 THEN 16 ELSE 0) + (IF (u \div 32) % 2 = 1 THEN 32 ELSE 0)
           + (IF (u \div 64) % 2 = 1 THEN 64 ELSE 0) = u % 128
<1>1. /\ u \div 4 = (u \div 2) \div 2 /\ u \div 8 = (u \div 4) \div 2
      /\ u \div 16 = (u \div 8) \div 2 /\ u \div 32 = (u \div 16) \div 2
      /\ u \div 64 = (u \div 32) \div 2
  OBVIOUS
<1>2. u % 128 = u - 128 * (u \div 128) /\ u \div 128 = (u \div 64) \div 2
  OBVIOUS
<1> QED
  BY <1>1, <1>2

(* What may be said of a pin. *)
PinKind ==
    {"input", "output", "level", "strong", "gpio", "mux", "pull", "pull30", "trigger"}
      \cup IrqKind

(* What calls may promise of pins. *)
Sayable ==
    {s \in WatchedPin \X PinKind : /\ s[2] = "pull" => s[1][1] # GroupE
                                   /\ s[2] = "pull30" => s[1][1] = GroupC}

(* The bits that Is looks at. *)
PullBits(p) == {<<areg_pull(p), 2 * (p[2] % 4)>>, <<areg_pull(p), 2 * (p[2] % 4) + 1>>}

(* Where it is said. *)
BitsOf(p, w) ==
    CASE w = "input"   -> {InputBit(p)}
      [] w = "output"  -> {PinBit("oen", p)}
      [] w = "level"   -> {PinBit("out", p)}
      [] w = "strong"  -> {StrengthBit(p)}
      [] w = "gpio"    -> {PinBit("func", p)}
      [] w = "mux"     -> {}
      [] w = "pull"    -> PullBits(p)
      [] w = "pull30"  -> {PullUp30Bit(p)}
      [] w = "trigger" -> {PinBit("pol", p), LevelBit(p)}
      [] w \in IrqKind -> {IrqBit(w, p)}

(* What a bit says, and of which pin. *)
Field == <<"input", "output", "level", "trigger", "strong", "gpio", "irq">>

What(b) ==
    IF b[1] \in 1281 .. 1327 THEN Field[b[1] % 8]
    ELSE IF b[1] \in 1328 .. 1333 THEN "risc0"
    ELSE IF b[1] \in 1336 .. 1341 THEN "risc1"
    ELSE IF b[1] \in 1344 .. 1349 THEN "risc2"
    ELSE IF b[1] = 1399 THEN "trigger"
    ELSE IF b[1] = 4288 THEN "input"
    ELSE IF b[1] = 4289 THEN "pull30"
    ELSE IF b[1] = 4290 THEN "strong"
    ELSE IF b[1] \in 4110 .. 4118 THEN "pull"
    ELSE "nothing"

Whose(b) ==
    IF b[1] \in 1281 .. 1327 THEN <<(b[1] - 1280) \div 8, b[2]>>
    ELSE IF b[1] \in 1328 .. 1333 THEN <<b[1] - 1328, b[2]>>
    ELSE IF b[1] \in 1336 .. 1341 THEN <<b[1] - 1336, b[2]>>
    ELSE IF b[1] \in 1344 .. 1349 THEN <<b[1] - 1344, b[2]>>
    ELSE IF b[1] \in 4288 .. 4290 THEN <<GroupC, b[2]>>
    ELSE IF b[1] \in 4110 .. 4117
         THEN <<(b[1] - 4110) \div 2, 4 * ((b[1] - 4110) % 2) + b[2] \div 2>>
    ELSE <<GroupF, b[2] \div 2>>

LEMMA PinIs ==
    ASSUME NEW p \in Pin
    PROVE  /\ p = <<p[1], p[2]>> /\ p[1] \in 0 .. 5 /\ p[2] \in 0 .. 7
           /\ p[1] = GroupE => p[2] \in 0 .. 3
           /\ p[1] = GroupF => p[2] \in 0 .. 1
BY DEF Pin, GroupE, GroupF

LEMMA FieldBit ==
    ASSUME NEW p \in Pin, NEW f \in DOMAIN Offset
    PROVE  /\ PinBit(f, p)[1] \in 1281 .. 1327
           /\ PinBit(f, p)[1] % 8 = Offset[f]
           /\ Whose(PinBit(f, p)) = p
           /\ What(PinBit(f, p)) = Field[Offset[f]]
<1> DEFINE a == 1280 + 8 * p[1] + Offset[f]
<1>1. p = <<p[1], p[2]>> /\ p[1] \in 0 .. 5 /\ p[2] \in 0 .. 7 /\ Offset[f] \in 1 .. 7
  BY PinIs DEF Offset
<1>2. PinBit(f, p) = <<a, p[2]>>
  BY DEF PinBit, reg_gpio
<1>3. a \in 1281 .. 1327 /\ a % 8 = Offset[f] /\ (a - 1280) \div 8 = p[1]
  BY <1>1
<1> HIDE DEF a
<1>4. /\ a \notin 1328 .. 1333 /\ a \notin 1336 .. 1341 /\ a \notin 1344 .. 1349 /\ a # 1399
      /\ a \notin 4288 .. 4290 /\ a # 4288 /\ a # 4289 /\ a # 4290 /\ a \notin 4110 .. 4118
      /\ a \notin 4110 .. 4117 /\ a # 4118
  BY <1>3
<1>4a. PinBit(f, p)[1] = a /\ PinBit(f, p)[2] = p[2]
  BY <1>2
<1>5. Whose(PinBit(f, p)) = <<(a - 1280) \div 8, p[2]>>
  BY <1>3, <1>4, <1>4a DEF Whose
<1>6. What(PinBit(f, p)) = Field[a % 8]
  BY <1>3, <1>4, <1>4a DEF What
<1> QED
  BY <1>1, <1>2, <1>3, <1>5, <1>6

LEMMA BitOwner ==
    ASSUME NEW p \in Pin, NEW w \in PinKind, w = "pull" => p[1] # GroupE,
           w = "pull30" => p[1] = GroupC, NEW b \in BitsOf(p, w)
    PROVE  /\ What(b) = w
           /\ b[1] # 1399 => Whose(b) = p
           /\ w = "trigger" => b[2] = p[2]
           /\ w # "trigger" => b[1] # 1399
<1>1. /\ p \in Pin /\ w \in PinKind
      /\ w = "pull" => p[1] # GroupE
      /\ w = "pull30" => p[1] = GroupC
  OBVIOUS
<1>2. p = <<p[1], p[2]>> /\ p[1] \in 0 .. 5 /\ p[2] \in 0 .. 7 /\ (p[1] = GroupF => p[2] \in 0 .. 1)
  BY <1>1, PinIs
<1> DEFINE Good == /\ What(b) = w
                   /\ b[1] # 1399 => Whose(b) = p
                   /\ w = "trigger" => b[2] = p[2]
                   /\ w # "trigger" => b[1] # 1399
<1>3. b \in BitsOf(p, w)
  OBVIOUS
<1>4. \A f \in DOMAIN Offset :
        /\ What(PinBit(f, p)) = Field[Offset[f]] /\ Whose(PinBit(f, p)) = p
        /\ PinBit(f, p)[1] # 1399 /\ PinBit(f, p)[2] = p[2]
  <2>1. \A f \in DOMAIN Offset : PinBit(f, p)[2] = p[2]
    BY DEF PinBit
  <2> QED
    BY <1>1, <2>1, FieldBit
<1>4a. /\ What(PinBit("ie", p)) = "input" /\ What(PinBit("oen", p)) = "output"
       /\ What(PinBit("out", p)) = "level" /\ What(PinBit("pol", p)) = "trigger"
       /\ What(PinBit("ds", p)) = "strong" /\ What(PinBit("func", p)) = "gpio"
       /\ What(PinBit("irq_wakeup_en", p)) = "irq"
       /\ DOMAIN Offset = {"ie", "oen", "out", "pol", "ds", "func", "irq_wakeup_en"}
  <2>1. DOMAIN Offset = {"ie", "oen", "out", "pol", "ds", "func", "irq_wakeup_en"}
    BY DEF Offset
  <2>2. \A f \in DOMAIN Offset : What(PinBit(f, p)) = Field[Offset[f]]
    BY <1>4
  <2> QED
    BY <2>1, <2>2 DEF Offset, Field
<1>5. CASE w \in {"output", "level", "gpio"}
  <2>1. b \in {PinBit("oen", p), PinBit("out", p), PinBit("func", p)} /\ What(b) = w
    BY <1>3, <1>5, <1>4a DEF BitsOf, IrqKind
  <2>2. Good
    BY <1>4, <1>4a, <1>5, <2>1
  <2> QED
    BY <2>2
<1>6. CASE w \in {"input", "strong"}
  <2>1. CASE p[1] = GroupC
    <3>1. b = IF w = "input" THEN <<4288, p[2]>> ELSE <<4290, p[2]>>
      BY <1>3, <1>6, <2>1 DEF BitsOf, IrqKind, InputBit, StrengthBit, Areg
    <3>2. Good
      BY <1>2, <1>6, <2>1, <3>1 DEF What, Whose, GroupC
    <3> QED
      BY <3>2
  <2>2. CASE p[1] # GroupC
    <3>1. b = IF w = "input" THEN PinBit("ie", p) ELSE PinBit("ds", p)
      BY <1>3, <1>6, <2>2 DEF BitsOf, IrqKind, InputBit, StrengthBit
    <3>2. Good
      BY <1>4, <1>4a, <1>6, <3>1
    <3> QED
      BY <3>2
  <2> QED
    BY <2>1, <2>2
<1>7. CASE w = "pull"
  <2> DEFINE g == p[1]
             n == p[2]
  <2>1. PICK i \in 0 .. 1 : b = <<areg_pull(p), 2 * (n % 4) + i>>
    <3>1. b \in PullBits(p)
      BY <1>3, <1>7 DEF BitsOf, IrqKind
    <3>2. 2 * (n % 4) = 2 * (n % 4) + 0
      BY <1>2
    <3> QED
      BY <3>1, <3>2 DEF PullBits
  <2>2. CASE g = GroupF
    <3>1. areg_pull(p) = 4118
      BY <2>2 DEF areg_pull, Areg
    <3>2. b = <<4118, 2 * (n % 4) + i>> /\ n \in 0 .. 1 /\ g = 5
      BY <1>2, <2>1, <2>2, <3>1 DEF GroupF
    <3>3. (2 * (n % 4) + i) \div 2 = n
      BY <3>2
    <3>4. Good
      BY <1>2, <1>7, <2>2, <3>2, <3>3 DEF What, Whose, GroupF
    <3> QED
      BY <3>4
  <2>3. CASE g # GroupF
    <3> DEFINE a == 4110 + (8 * g + n) \div 4
    <3>1. g \in 0 .. 3 /\ n \in 0 .. 7
      BY <1>1, <1>2, <1>7, <2>3 DEF GroupE, GroupF
    <3>2. areg_pull(p) = a
      <4>1. areg_pull(p) = 4096 + (14 + (8 * g + n) \div 4)
        BY <2>3 DEF areg_pull, Areg
      <4> QED
        BY <3>1, <4>1
    <3>3. a \in 4110 .. 4117 /\ (a - 4110) \div 2 = g
      BY <3>1
    <3>4. 4 * ((a - 4110) % 2) + (2 * (n % 4) + i) \div 2 = n
      BY <3>1
    <3>5. b = <<a, 2 * (n % 4) + i>>
      BY <2>1, <3>2
    <3> DEFINE m == 2 * (n % 4) + i
    <3>6. b[1] = a /\ b[2] = m
      BY <3>5
    <3>7. a \notin 1281 .. 1349 /\ a # 1399 /\ a # 4288 /\ a # 4289 /\ a # 4290 /\ a # 4118
          /\ a \in 4110 .. 4118 /\ a \notin 4288 .. 4290
          /\ a \notin 1281 .. 1327 /\ a \notin 1328 .. 1333 /\ a \notin 1336 .. 1341
             /\ a \notin 1344 .. 1349
      BY <3>3
    <3> HIDE DEF a, m
    <3>8. What(b) = "pull"
      BY <3>6, <3>7 DEF What
    <3>9. Whose(b) = <<(a - 4110) \div 2, 4 * ((a - 4110) % 2) + m \div 2>>
      BY <3>3, <3>6, <3>7 DEF Whose
    <3>10. Whose(b) = p
      BY <1>2, <3>3, <3>4, <3>9 DEF m
    <3>11. Good
      BY <1>7, <3>6, <3>7, <3>8, <3>10
    <3> QED
      BY <3>11
  <2> QED
    BY <2>2, <2>3
<1>8. CASE w = "pull30"
  <2>1. b = <<4289, p[2]>>
    BY <1>3, <1>8 DEF BitsOf, IrqKind, PullUp30Bit, Areg
  <2>2. Good
    BY <1>1, <1>2, <1>8, <2>1 DEF What, Whose, GroupC
  <2> QED
    BY <2>2
<1>9. CASE w = "trigger"
  <2>1. b = PinBit("pol", p) \/ b = <<1399, p[2]>>
    BY <1>3, <1>9 DEF BitsOf, IrqKind, LevelBit
  <2>2. What(<<1399, p[2]>>) = "trigger"
    BY DEF What
  <2>3. Good
    BY <1>4, <1>4a, <1>9, <2>1, <2>2
  <2> QED
    BY <2>3
<1>10. CASE w \in IrqKind
  <2>1. b = IrqBit(w, p)
    BY <1>3, <1>10 DEF BitsOf, IrqKind
  <2>2. CASE w = "irq"
    <3>1. b = PinBit("irq_wakeup_en", p)
      BY <2>1, <2>2 DEF IrqBit
    <3>2. Good
      BY <1>4, <1>4a, <2>2, <3>1
    <3> QED
      BY <3>2
  <2>3. CASE w = "risc0"
    <3>1. b = <<1328 + p[1], p[2]>>
      BY <2>1, <2>3 DEF IrqBit
    <3>2. Good
      BY <1>2, <2>3, <3>1 DEF What, Whose
    <3> QED
      BY <3>2
  <2>4. CASE w = "risc1"
    <3>1. b = <<1336 + p[1], p[2]>>
      BY <2>1, <2>4 DEF IrqBit
    <3>2. Good
      BY <1>2, <2>4, <3>1 DEF What, Whose
    <3> QED
      BY <3>2
  <2>5. CASE w = "risc2"
    <3>1. b = <<1344 + p[1], p[2]>>
      BY <2>1, <2>5 DEF IrqBit
    <3>2. Good
      BY <1>2, <2>5, <3>1 DEF What, Whose
    <3> QED
      BY <3>2
  <2> QED
    BY <1>10, <2>2, <2>3, <2>4, <2>5 DEF IrqKind
<1>11. CASE w = "mux"
  BY <1>3, <1>11 DEF BitsOf, IrqKind
<1> QED
  BY <1>1, <1>5, <1>6, <1>7, <1>8, <1>9, <1>10, <1>11 DEF PinKind

LEMMA OwnerOf ==
    ASSUME NEW s \in Sayable, NEW b \in BitsOf(s[1], s[2])
    PROVE  /\ What(b) = s[2]
           /\ b[1] # 1399 => Whose(b) = s[1]
           /\ s[2] = "trigger" => b[2] = s[1][2]
           /\ s[2] # "trigger" => b[1] # 1399
<1>1. /\ s[1] \in Pin /\ s[2] \in PinKind
      /\ s[2] = "pull" => s[1][1] # GroupE
      /\ s[2] = "pull30" => s[1][1] = GroupC
  BY PinAssumption DEF Sayable
<1> QED
  BY <1>1, BitOwner

LEMMA IsSame ==
    ASSUME NEW s \in Sayable,
           \A b \in BitsOf(s[1], s[2]) : b \in on' <=> b \in on,
           s[2] = "mux" => mux'[reg_gpio_func_mux(s[1])] = mux[reg_gpio_func_mux(s[1])]
    PROVE  Is(s[1], s[2])' = Is(s[1], s[2])
<1> DEFINE p == s[1]
           w == s[2]
<1>1. w \in PinKind /\ p \in Pin
  BY PinAssumption DEF Sayable
<1>2. /\ \A b \in BitsOf(p, w) : b \in on' <=> b \in on
      /\ w = "mux" => mux'[reg_gpio_func_mux(p)] = mux[reg_gpio_func_mux(p)]
  OBVIOUS
<1> HIDE DEF p, w
<1> SUFFICES Is(p, w)' = Is(p, w)
  BY DEF p, w
<1>3. CASE w = "input"
  BY <1>2, <1>3 DEF Is, BitsOf, IrqKind
<1>4. CASE w = "output"
  BY <1>2, <1>4 DEF Is, BitsOf, IrqKind
<1>5. CASE w = "level"
  BY <1>2, <1>5 DEF Is, BitsOf, IrqKind
<1>6. CASE w = "strong"
  BY <1>2, <1>6 DEF Is, BitsOf, IrqKind
<1>7. CASE w = "gpio"
  BY <1>2, <1>7 DEF Is, BitsOf, IrqKind
<1>8. CASE w = "mux"
  BY <1>2, <1>8 DEF Is, BitsOf, IrqKind
<1>9. CASE w = "pull"
  <2>1. <<areg_pull(p), 2 * (p[2] % 4)>> \in on' <=> <<areg_pull(p), 2 * (p[2] % 4)>> \in on
    BY <1>2, <1>9 DEF BitsOf, IrqKind, PullBits
  <2>2. <<areg_pull(p), 2 * (p[2] % 4) + 1>> \in on' <=> <<areg_pull(p), 2 * (p[2] % 4) + 1>> \in on
    BY <1>2, <1>9 DEF BitsOf, IrqKind, PullBits
  <2>3. 2 * (p[2] % 4) \in Nat
    BY <1>1, PinIs
  <2> DEFINE n == 2 * (p[2] % 4)
             a == areg_pull(p)
  <2> HIDE DEF n, a
  <2>4. ValueOf(on', a, n, 2) = ValueOf(on, a, n, 2)
    BY <2>1, <2>2, <2>3, ValueOfTwo DEF n, a
  <2>5. PullOf(p) = ValueOf(on, a, n, 2) /\ PullOf(p)' = ValueOf(on', a, n, 2)
    BY DEF PullOf, n, a
  <2> HIDE DEF n, a
  <2>6. PullOf(p)' = PullOf(p)
    BY <2>4, <2>5
  <2> QED
    BY <1>9, <2>6 DEF Is, IrqKind
<1>10. CASE w = "pull30"
  BY <1>2, <1>10 DEF Is, BitsOf, IrqKind
<1>11. CASE w = "trigger"
  BY <1>2, <1>11 DEF Is, BitsOf, IrqKind
<1>12. CASE w \in IrqKind
  BY <1>2, <1>12 DEF Is, BitsOf, IrqKind
<1> QED
  BY <1>1, <1>3, <1>4, <1>5, <1>6, <1>7, <1>8, <1>9, <1>10, <1>11, <1>12 DEF PinKind

LEMMA MuxApart ==
    ASSUME NEW p \in Pin, NEW q \in Pin, reg_gpio_func_mux(p) = reg_gpio_func_mux(q)
    PROVE  p = q
<1>1. /\ p = <<p[1], p[2]>> /\ p[1] \in 0 .. 5 /\ p[2] \in 0 .. 7
      /\ q = <<q[1], q[2]>> /\ q[1] \in 0 .. 5 /\ q[2] \in 0 .. 7
      /\ p[1] = GroupE => p[2] \in 0 .. 3
      /\ p[1] = GroupF => p[2] \in 0 .. 1
      /\ q[1] = GroupE => q[2] \in 0 .. 3
      /\ q[1] = GroupF => q[2] \in 0 .. 1
  BY PinIs
<1> DEFINE g == p[1]
           n == p[2]
           h == q[1]
           m == q[2]
<1>2. 1352 + (IF g = 5 THEN 36 ELSE 8 * g) + n = 1352 + (IF h = 5 THEN 36 ELSE 8 * h) + m
  BY DEF reg_gpio_func_mux, GroupF
<1> HIDE DEF g, n, h, m
<1>3. g \in 0 .. 5 /\ n \in 0 .. 7 /\ h \in 0 .. 5 /\ m \in 0 .. 7 /\ (g = 4 => n \in 0 .. 3)
      /\ (g = 5 => n \in 0 .. 1) /\ (h = 4 => m \in 0 .. 3) /\ (h = 5 => m \in 0 .. 1)
  BY <1>1 DEF g, n, h, m, GroupE, GroupF
<1>4. g = h /\ n = m
  BY <1>2, <1>3
<1> QED
  BY <1>1, <1>4 DEF g, n, h, m

(* A bit is looked at for one thing of one pin, but for the level bit that
   pins with the same number share. *)
LEMMA BitsApart ==
    ASSUME NEW s \in Sayable, NEW d \in Sayable,
           NEW b, b \in BitsOf(s[1], s[2]), b \in BitsOf(d[1], d[2])
    PROVE  s = d \/ (s[2] = "trigger" /\ d[2] = "trigger" /\ s[1][2] = d[1][2])
<1>1. s = <<s[1], s[2]>> /\ d = <<d[1], d[2]>>
  BY DEF Sayable
<1>2. /\ What(b) = s[2] /\ What(b) = d[2]
      /\ b[1] # 1399 => Whose(b) = s[1] /\ Whose(b) = d[1]
      /\ s[2] # "trigger" => b[1] # 1399
      /\ s[2] = "trigger" => b[2] = s[1][2]
      /\ d[2] = "trigger" => b[2] = d[1][2]
  BY OwnerOf
<1> QED
  BY <1>1, <1>2

LEMMA SaysIs ==
    ASSUME NEW p, NEW w, NEW v
    PROVE  DOMAIN Says(p, w, v) = {<<p, w>>} /\ Says(p, w, v)[<<p, w>>] = v
BY DEF Says

LEMMA NoneYetIs == DOMAIN NoneYet = {}
BY DEF NoneYet

(* The same of the timers, the watchdog and the interrupt mask. *)
TimerSayable ==
    {0, 1, 2} \X {"on", "mode"} \cup {2} \X {"dog", "capture"}
      \cup {0, 1, 2, 15, 18, 21, 22} \X {"mask"}

TimerBits(t, w) ==
    CASE w = "on"      -> {EnableBit(t)}
      [] w = "mode"    -> ModeBits(t)
      [] w = "dog"     -> {WdEnableBit, EnableBit(2)}
      [] w = "capture" -> {<<reg_tmr_ctrl, 9 + i>> : i \in 0 .. 13}
      [] w = "mask"    -> {MaskBit(t)}

(* What the program was told of pins is what the registers say; the multiplexer of a pin
   is known once it was told. *)
ToldHolds ==
    /\ DOMAIN told \subseteq Sayable
    /\ \A s \in DOMAIN told : Is(s[1], s[2]) = told[s]
    /\ \A s \in DOMAIN told : s[2] = "mux" => reg_gpio_func_mux(s[1]) \in DOMAIN mux

(* And what it was told of timers. *)
TimedHolds ==
    /\ DOMAIN timed \subseteq TimerSayable
    /\ \A s \in DOMAIN timed : TimerIs(s[1], s[2]) = timed[s]

(* The inductive invariant: PinsAsTold, with what may have been told.  That a call leaves
   the rest as it was is the lemmas on What and Whose: a bit says one thing of one pin. *)
PinInv == ToldHolds /\ TimedHolds

(* The bits that are not in changed are as they were. *)
OnlyIn(changed) == \A b : b \notin changed => (b \in on' <=> b \in on)

(* The registers of the timers and the interrupt mask say nothing of pins. *)
TimerAddress == {1568, 1600}

LEMMA TimerBitsAre ==
    ASSUME NEW s \in TimerSayable, NEW b \in TimerBits(s[1], s[2])
    PROVE  b[1] \in TimerAddress /\ What(b) = "nothing"
<1>1. b[1] \in TimerAddress
  BY DEF TimerSayable, TimerBits, EnableBit, ModeBits, WdEnableBit, MaskBit, reg_tmr_ctrl, TimerAddress
<1> QED
  BY <1>1 DEF What, TimerAddress

LEMMA TimerIsSame ==
    ASSUME NEW s \in TimerSayable,
           \A b \in TimerBits(s[1], s[2]) : b \in on' <=> b \in on
    PROVE  TimerIs(s[1], s[2])' = TimerIs(s[1], s[2])
<1> DEFINE t == s[1]
           w == s[2]
<1>1. /\ t \in 0 .. 22 /\ w \in {"on", "mode", "dog", "capture", "mask"}
      /\ \A b \in TimerBits(t, w) : b \in on' <=> b \in on
  BY DEF TimerSayable
<1> HIDE DEF t, w
<1> SUFFICES TimerIs(t, w)' = TimerIs(t, w)
  BY DEF t, w
<1>2. CASE w \in {"on", "dog", "mask"}
  BY <1>1, <1>2 DEF TimerIs, TimerBits
<1>3. CASE w = "mode"
  <2>1. 3 * t + 1 \in Nat /\ (3 * t + 1) + 1 = 3 * t + 2
    BY <1>1
  <2>2. /\ <<reg_tmr_ctrl, 3 * t + 1>> \in on' <=> <<reg_tmr_ctrl, 3 * t + 1>> \in on
        /\ <<reg_tmr_ctrl, 3 * t + 2>> \in on' <=> <<reg_tmr_ctrl, 3 * t + 2>> \in on
    BY <1>1, <1>3 DEF TimerBits, ModeBits
  <2> DEFINE n == 3 * t + 1
  <2>3. n \in Nat /\ n + 1 = 3 * t + 2
    BY <2>1
  <2> HIDE DEF n
  <2>4. /\ <<reg_tmr_ctrl, n>> \in on' <=> <<reg_tmr_ctrl, n>> \in on
        /\ <<reg_tmr_ctrl, n + 1>> \in on' <=> <<reg_tmr_ctrl, n + 1>> \in on
    BY <2>2, <2>3 DEF n
  <2>5. ValueOf(on', reg_tmr_ctrl, n, 2) = ValueOf(on, reg_tmr_ctrl, n, 2)
    BY <2>3, <2>4, ValueOfTwo
  <2>6. TimerIs(t, w) = ValueOf(on, reg_tmr_ctrl, n, 2)
        /\ TimerIs(t, w)' = ValueOf(on', reg_tmr_ctrl, n, 2)
    BY <1>3 DEF TimerIs, n
  <2> QED
    BY <2>5, <2>6
<1>4. CASE w = "capture"
  <2> DEFINE n == 9
  <2>1. /\ n \in Nat
        /\ \A i \in 0 .. 13 : <<reg_tmr_ctrl, n + i>> \in on' <=> <<reg_tmr_ctrl, n + i>> \in on
    BY <1>1, <1>4 DEF TimerBits
  <2>2. TimerIs(t, w) = ValueOf(on, reg_tmr_ctrl, n, 14)
        /\ TimerIs(t, w)' = ValueOf(on', reg_tmr_ctrl, n, 14)
    BY <1>4 DEF TimerIs
  <2> HIDE DEF n
  <2>3. \A i \in 0 .. 13 : Digit(on, reg_tmr_ctrl, n, i) = Digit(on', reg_tmr_ctrl, n, i)
    BY <2>1 DEF Digit
  <2>4. ValueOf(on, reg_tmr_ctrl, n, 14) = ValueOf(on', reg_tmr_ctrl, n, 14)
    BY <2>1, <2>3, ValueOfFourteen
  <2> QED
    BY <2>2, <2>4
<1> QED
  BY <1>1, <1>2, <1>3, <1>4

LEMMA ToldStep ==
    ASSUME ToldHolds, NEW changed, OnlyIn(changed),
           NEW old, DOMAIN old \subseteq DOMAIN told, \A s \in DOMAIN old : old[s] = told[s],
           NEW promise, told' = Onto(promise, old), DOMAIN promise \subseteq Sayable,
           \A s \in DOMAIN promise : Is(s[1], s[2])' = promise[s],
           \A s \in DOMAIN promise : s[2] = "mux" => reg_gpio_func_mux(s[1]) \in DOMAIN mux',
           \A s \in DOMAIN old \ DOMAIN promise : BitsOf(s[1], s[2]) \cap changed = {},
           \A s \in DOMAIN old \ DOMAIN promise : s[2] = "mux" =>
             /\ reg_gpio_func_mux(s[1]) \in DOMAIN mux'
             /\ mux'[reg_gpio_func_mux(s[1])] = mux[reg_gpio_func_mux(s[1])]
    PROVE  ToldHolds'
<1>1. /\ DOMAIN told' = DOMAIN promise \cup DOMAIN old
      /\ \A s \in DOMAIN promise : told'[s] = promise[s]
      /\ \A s \in DOMAIN old \ DOMAIN promise : told'[s] = told[s]
  BY DEF Onto
<1>2. /\ DOMAIN told \subseteq Sayable
      /\ \A s \in DOMAIN told : Is(s[1], s[2]) = told[s]
  BY DEF ToldHolds
<1>3. ASSUME NEW s \in DOMAIN old \ DOMAIN promise PROVE Is(s[1], s[2])' = told'[s]
  <2>1. s \in Sayable /\ s \in DOMAIN told
    BY <1>2
  <2>2. \A b \in BitsOf(s[1], s[2]) : b \in on' <=> b \in on
    BY DEF OnlyIn
  <2>3. s[2] = "mux" => mux'[reg_gpio_func_mux(s[1])] = mux[reg_gpio_func_mux(s[1])]
    OBVIOUS
  <2>4. Is(s[1], s[2])' = Is(s[1], s[2])
    BY <2>1, <2>2, <2>3, IsSame
  <2> QED
    BY <1>1, <1>2, <2>1, <2>4
<1>4. \A s \in DOMAIN told' : Is(s[1], s[2])' = told'[s]
  BY <1>1, <1>3
<1>5. DOMAIN told' \subseteq Sayable
  BY <1>1, <1>2
<1>6. \A s \in DOMAIN told' : s[2] = "mux" => reg_gpio_func_mux(s[1]) \in DOMAIN mux'
  BY <1>1
<1> QED
  BY <1>4, <1>5, <1>6 DEF ToldHolds

LEMMA TimedStep ==
    ASSUME TimedHolds, NEW changed, OnlyIn(changed),
           NEW promise, timed' = Onto(promise, timed), DOMAIN promise \subseteq TimerSayable,
           \A s \in DOMAIN promise : TimerIs(s[1], s[2])' = promise[s],
           \A s \in DOMAIN timed \ DOMAIN promise : TimerBits(s[1], s[2]) \cap changed = {}
    PROVE  TimedHolds'
<1>1. /\ DOMAIN timed' = DOMAIN promise \cup DOMAIN timed
      /\ \A s \in DOMAIN promise : timed'[s] = promise[s]
      /\ \A s \in DOMAIN timed \ DOMAIN promise : timed'[s] = timed[s]
  BY DEF Onto
<1>2. /\ DOMAIN timed \subseteq TimerSayable
      /\ \A s \in DOMAIN timed : TimerIs(s[1], s[2]) = timed[s]
  BY DEF TimedHolds
<1>3. ASSUME NEW s \in DOMAIN timed \ DOMAIN promise PROVE TimerIs(s[1], s[2])' = timed'[s]
  <2>1. s \in TimerSayable
    BY <1>2
  <2>2. \A b \in TimerBits(s[1], s[2]) : b \in on' <=> b \in on
    BY DEF OnlyIn
  <2>3. TimerIs(s[1], s[2])' = TimerIs(s[1], s[2])
    BY <2>1, <2>2, TimerIsSame
  <2> QED
    BY <1>1, <1>2, <2>3
<1>4. \A s \in DOMAIN timed' : TimerIs(s[1], s[2])' = timed'[s]
  BY <1>1, <1>3
<1>5. DOMAIN timed' \subseteq TimerSayable
  BY <1>1, <1>2
<1> QED
  BY <1>4, <1>5 DEF TimedHolds

(* What a call does to no timer's bits. *)
LEMMA TimedSame ==
    ASSUME TimedHolds, NEW changed, OnlyIn(changed), timed' = timed,
           \A b \in changed : b[1] \notin TimerAddress
    PROVE  TimedHolds'
<1>1. /\ DOMAIN timed \subseteq TimerSayable
      /\ \A s \in DOMAIN timed : TimerIs(s[1], s[2]) = timed[s]
  BY DEF TimedHolds
<1>2. ASSUME NEW s \in DOMAIN timed PROVE TimerIs(s[1], s[2])' = timed'[s]
  <2>1. s \in TimerSayable
    BY <1>1
  <2>2. \A b \in TimerBits(s[1], s[2]) : b \in on' <=> b \in on
    BY <2>1, TimerBitsAre DEF OnlyIn
  <2>3. TimerIs(s[1], s[2])' = TimerIs(s[1], s[2])
    BY <2>1, <2>2, TimerIsSame
  <2> QED
    BY <1>1, <2>3
<1> QED
  BY <1>1, <1>2 DEF TimedHolds

(* And what a call does to no pin's. *)
LEMMA ToldSame ==
    ASSUME ToldHolds, NEW changed, OnlyIn(changed), told' = told, mux' = mux,
           \A b \in changed : What(b) = "nothing"
    PROVE  ToldHolds'
<1>1. /\ DOMAIN told \subseteq Sayable
      /\ \A s \in DOMAIN told : Is(s[1], s[2]) = told[s]
  BY DEF ToldHolds
<1>2. ASSUME NEW s \in DOMAIN told PROVE Is(s[1], s[2])' = told'[s]
  <2>1. s \in Sayable /\ s[2] # "nothing"
    BY <1>1 DEF Sayable, PinKind, IrqKind
  <2>2. \A b \in BitsOf(s[1], s[2]) : b \in on' <=> b \in on
    BY <2>1, OwnerOf DEF OnlyIn
  <2>3. Is(s[1], s[2])' = Is(s[1], s[2])
    BY <2>1, <2>2, IsSame
  <2> QED
    BY <1>1, <2>3
<1> QED
  BY <1>1, <1>2 DEF ToldHolds

LEMMA PinBitsApart ==
    ASSUME NEW s \in Sayable, NEW b \in BitsOf(s[1], s[2])
    PROVE  b[1] \notin TimerAddress /\ What(b) # "nothing"
<1>1. What(b) = s[2] /\ s[2] \in PinKind
  BY OwnerOf DEF Sayable
<1>2. What(b) # "nothing"
  BY <1>1 DEF PinKind, IrqKind
<1>3. b[1] \in TimerAddress => What(b) = "nothing"
  BY DEF What, TimerAddress
<1> QED
  BY <1>2, <1>3

LEMMA CalledSays ==
    ASSUME NEW p \in WatchedPin, NEW w \in PinKind,
           w = "pull" => p[1] # GroupE, w = "pull30" => p[1] = GroupC
    PROVE  <<p, w>> \in Sayable
BY DEF Sayable

LEMMA Called ==
    ASSUME NEW p \in CalledPin
    PROVE  p \in WatchedPin /\ p \in Pin
BY PinAssumption

(* A call that promises something of each bit that it changes. *)
LEMMA CallStep ==
    ASSUME PinInv, NEW changed, OnlyIn(changed), NEW promise,
           told' = Onto(promise, told), mux' = mux, timed' = timed,
           DOMAIN promise \subseteq Sayable,
           \A s \in DOMAIN promise : s[2] \notin {"mux", "trigger"},
           \A b \in changed : \E s \in DOMAIN promise : b \in BitsOf(s[1], s[2]),
           \A s \in DOMAIN promise : Is(s[1], s[2])' = promise[s]
    PROVE  PinInv'
<1>1. ToldHolds /\ TimedHolds
  BY DEF PinInv
<1>2. \A s \in DOMAIN told \ DOMAIN promise : BitsOf(s[1], s[2]) \cap changed = {}
  <2> SUFFICES ASSUME NEW s \in DOMAIN told \ DOMAIN promise, NEW b \in changed,
                      b \in BitsOf(s[1], s[2])
               PROVE  FALSE
    OBVIOUS
  <2>1. PICK d \in DOMAIN promise : b \in BitsOf(d[1], d[2])
    OBVIOUS
  <2>2. s \in Sayable /\ d \in Sayable /\ d[2] # "trigger" /\ s # d
    BY <1>1, <2>1 DEF ToldHolds
  <2> QED
    BY <2>1, <2>2, BitsApart
<1>3. \A s \in DOMAIN told \ DOMAIN promise : s[2] = "mux" =>
             /\ reg_gpio_func_mux(s[1]) \in DOMAIN mux'
             /\ mux'[reg_gpio_func_mux(s[1])] = mux[reg_gpio_func_mux(s[1])]
  BY <1>1 DEF ToldHolds
<1>4. ToldHolds'
  <2>1. \A s \in DOMAIN told : told[s] = told[s]
    OBVIOUS
  <2>2. \A s \in DOMAIN promise : s[2] = "mux" => reg_gpio_func_mux(s[1]) \in DOMAIN mux'
    OBVIOUS
  <2> QED
    BY <1>1, <1>2, <1>3, <2>1, <2>2, ToldStep
<1>5. \A b \in changed : b[1] \notin TimerAddress
  BY PinBitsApart
<1>6. TimedHolds'
  BY <1>1, <1>5, TimedSame
<1> QED
  BY <1>4, <1>6 DEF PinInv

(* A call that sets one bit of a pin, and says so. *)
LEMMA OneBit ==
    ASSUME PinInv, NEW p \in CalledPin, NEW w \in PinKind \ {"pull", "pull30", "mux", "trigger"},
           NEW b, BitsOf(p, w) = {b}, NEW x \in BOOLEAN, NEW v,
           on' = With(on, b, x), told' = Onto(Says(p, w, v), told), mux' = mux, timed' = timed,
           Is(p, w)' = v
    PROVE  PinInv'
<1> DEFINE P == Says(p, w, v)
           C == {b}
<1>1. OnlyIn(C)
  BY DEF OnlyIn, With
<1>2. DOMAIN P = {<<p, w>>} /\ P[<<p, w>>] = v
  BY SaysIs
<1>3. DOMAIN P \subseteq Sayable
  BY <1>2, Called, CalledSays
<1>4. told' = Onto(P, told)
  OBVIOUS
<1> HIDE DEF P
<1>5. /\ \A s \in DOMAIN P : s[2] \notin {"mux", "trigger"}
      /\ \A c \in C : \E s \in DOMAIN P : c \in BitsOf(s[1], s[2])
      /\ \A s \in DOMAIN P : Is(s[1], s[2])' = P[s]
  <2>1. \A s \in DOMAIN P : s = <<p, w>> /\ s[1] = p /\ s[2] = w
    BY <1>2
  <2>2. \A s \in DOMAIN P : Is(s[1], s[2])' = P[s]
    <3> SUFFICES ASSUME NEW s \in DOMAIN P PROVE Is(s[1], s[2])' = P[s]
      OBVIOUS
    <3>1. s[1] = p /\ s[2] = w /\ P[s] = v
      BY <1>2, <2>1
    <3> QED
      BY <3>1
  <2> QED
    BY <1>2, <2>1, <2>2
<1> HIDE DEF C
<1> QED
  BY <1>1, <1>3, <1>4, <1>5, CallStep

LEMMA output_en_Step ==
    ASSUME PinInv, NEW p \in CalledPin, NEW v \in BOOLEAN, gpio_set_output_en(p, v)
    PROVE  PinInv'
<1> DEFINE b == PinBit("oen", p)
<1>1. on' = With(on, b, ~v) /\ told' = Onto(Says(p, "output", v), told) /\ mux' = mux
      /\ timed' = timed
  BY DEF gpio_set_output_en, Call
<1>2. BitsOf(p, "output") = {b} /\ "output" \in PinKind \ {"pull", "pull30", "mux", "trigger"}
  BY DEF BitsOf, IrqKind, PinKind
<1>3. Is(p, "output")' = v
  BY <1>1 DEF Is, IrqKind, With
<1>4. (~v) \in BOOLEAN
  OBVIOUS
<1> HIDE DEF b
<1> QED
  BY <1>1, <1>2, <1>3, <1>4, OneBit

LEMMA input_en_Step ==
    ASSUME PinInv, NEW p \in CalledPin, NEW v \in BOOLEAN, gpio_set_input_en(p, v)
    PROVE  PinInv'
<1> DEFINE b == InputBit(p)
<1>1. on' = With(on, b, v) /\ told' = Onto(Says(p, "input", v), told) /\ mux' = mux
      /\ timed' = timed
  BY DEF gpio_set_input_en, Call
<1>2. BitsOf(p, "input") = {b} /\ "input" \in PinKind \ {"pull", "pull30", "mux", "trigger"}
  BY DEF BitsOf, IrqKind, PinKind
<1>3. Is(p, "input")' = v
  BY <1>1 DEF Is, IrqKind, With
<1> HIDE DEF b
<1> QED
  BY <1>1, <1>2, <1>3, OneBit

LEMMA data_strength_Step ==
    ASSUME PinInv, NEW p \in CalledPin, NEW v \in BOOLEAN, gpio_set_data_strength(p, v)
    PROVE  PinInv'
<1> DEFINE b == StrengthBit(p)
<1>1. on' = With(on, b, v) /\ told' = Onto(Says(p, "strong", v), told) /\ mux' = mux
      /\ timed' = timed
  BY DEF gpio_set_data_strength, Call
<1>2. BitsOf(p, "strong") = {b} /\ "strong" \in PinKind \ {"pull", "pull30", "mux", "trigger"}
  BY DEF BitsOf, IrqKind, PinKind
<1>3. Is(p, "strong")' = v
  BY <1>1 DEF Is, IrqKind, With
<1> HIDE DEF b
<1> QED
  BY <1>1, <1>2, <1>3, OneBit

LEMMA write_Step ==
    ASSUME PinInv, NEW p \in CalledPin, NEW v \in BOOLEAN, gpio_write(p, v)
    PROVE  PinInv'
<1> DEFINE b == PinBit("out", p)
<1>1. on' = With(on, b, v) /\ told' = Onto(Says(p, "level", v), told) /\ mux' = mux
      /\ timed' = timed
  BY DEF gpio_write, Call
<1>2. BitsOf(p, "level") = {b} /\ "level" \in PinKind \ {"pull", "pull30", "mux", "trigger"}
  BY DEF BitsOf, IrqKind, PinKind
<1>3. Is(p, "level")' = v
  BY <1>1 DEF Is, IrqKind, With
<1> HIDE DEF b
<1> QED
  BY <1>1, <1>2, <1>3, OneBit

LEMMA toggle_Step ==
    ASSUME PinInv, NEW p \in CalledPin, gpio_toggle(p)
    PROVE  PinInv'
<1> DEFINE b == PinBit("out", p)
           v == b \notin on
<1>1. on' = With(on, b, v) /\ mux' = mux /\ timed' = timed
  BY DEF gpio_toggle, Call
<1>2. BitsOf(p, "level") = {b} /\ "level" \in PinKind \ {"pull", "pull30", "mux", "trigger"}
  BY DEF BitsOf, IrqKind, PinKind
<1>3. Is(p, "level")' = v
  BY <1>1 DEF Is, IrqKind, With
<1>4. told' = Onto(Says(p, "level", v), told)
  <2> DEFINE s == <<p, "level">>
  <2>1. s \in DOMAIN told /\ told' = Onto(Says(p, "level", ~told[s]), told) /\ s[1] = p
        /\ s[2] = "level"
    BY DEF gpio_toggle, Call
  <2>2. Is(s[1], s[2]) = told[s]
    BY <2>1 DEF PinInv, ToldHolds
  <2>3. Is(p, "level") = (b \in on)
    BY DEF Is, IrqKind
  <2>4. told[s] = (b \in on)
    BY <2>1, <2>2, <2>3
  <2>5. (~told[s]) = v
    BY <2>4
  <2> QED
    BY <2>1, <2>5
<1>5. v \in BOOLEAN
  OBVIOUS
<1> HIDE DEF b, v
<1> QED
  BY <1>1, <1>2, <1>3, <1>4, <1>5, OneBit

LEMMA en_interrupt_Step ==
    ASSUME PinInv, NEW p \in CalledPin, NEW k \in IrqKind, NEW v \in BOOLEAN,
           gpio_en_interrupt(k, p, v)
    PROVE  PinInv'
<1> DEFINE b == IrqBit(k, p)
<1>1. on' = With(on, b, v) /\ told' = Onto(Says(p, k, v), told) /\ mux' = mux /\ timed' = timed
  BY DEF gpio_en_interrupt, Call
<1>2. BitsOf(p, k) = {b} /\ k \in PinKind \ {"pull", "pull30", "mux", "trigger"}
  BY DEF BitsOf, IrqKind, PinKind
<1>3. Is(p, k)' = v
  BY <1>1 DEF Is, IrqKind, With
<1> HIDE DEF b
<1> QED
  BY <1>1, <1>2, <1>3, OneBit

LEMMA HoldingTwo ==
    ASSUME NEW addr, NEW n \in Nat, NEW v \in 0 .. 3
    PROVE  Holding(addr, n, 2, v) =
             (IF v % 2 = 1 THEN {<<addr, n>>} ELSE {})
               \cup (IF v \div 2 = 1 THEN {<<addr, n + 1>>} ELSE {})
<1>1. v = 0 \/ v = 1 \/ v = 2 \/ v = 3
  OBVIOUS
<1> DEFINE J == {j \in 0 .. 1 : (v \div 2^j) % 2 = 1}
<1>2. 0 \in J <=> v % 2 = 1
  BY 2^0 = 1
<1>3. 1 \in J <=> v \div 2 = 1
  BY 2^1 = 2
<1>4. J \subseteq {0, 1}
  OBVIOUS
<1>5. Holding(addr, n, 2, v) = {<<addr, n + i>> : i \in J}
  BY DEF Holding
<1> HIDE DEF J
<1>6. n + 0 = n
  OBVIOUS
<1> QED
  BY <1>2, <1>3, <1>4, <1>5, <1>6

LEMMA TwoHeld ==
    ASSUME NEW bits, NEW addr, NEW n \in Nat, NEW v \in 0 .. 3,
           <<addr, n>> \in bits <=> v % 2 = 1,
           <<addr, n + 1>> \in bits <=> v \div 2 = 1
    PROVE  ValueOf(bits, addr, n, 2) = v
<1>1. ValueOf(bits, addr, n, 2) = (IF v % 2 = 1 THEN 1 ELSE 0) + (IF v \div 2 = 1 THEN 2 ELSE 0)
  BY ValueOfTwo
<1> QED
  BY <1>1

LEMMA BaseIsPull ==
    ASSUME NEW p \in Pin, p[1] # GroupE
    PROVE  base_ana_reg(p) = areg_pull(p)
<1> DEFINE g == p[1]
           n == p[2]
<1>1. g \in 0 .. 5 /\ n \in 0 .. 7
  BY PinIs
<1>2. areg_pull(p) = Areg(IF g = GroupF THEN 22 ELSE 14 + (8 * g + n) \div 4)
  BY DEF areg_pull
<1>3. base_ana_reg(p) = IF g = GroupF THEN Areg(22) ELSE Areg(14 + 2 * g + (IF n > 3 THEN 1 ELSE 0))
  BY DEF base_ana_reg
<1> HIDE DEF g, n
<1>4. 14 + (8 * g + n) \div 4 = 14 + 2 * g + (IF n > 3 THEN 1 ELSE 0)
  BY <1>1
<1> QED
  BY <1>2, <1>3, <1>4

LEMMA Resisted ==
    ASSUME NEW p \in Pin, NEW bits, NEW v \in 0 .. 3,
           NEW new, new = Resistor(bits, areg_pull(p), p, v)
    PROVE  /\ ValueOf(new, areg_pull(p), 2 * (p[2] % 4), 2) = v
           /\ \A b : b \notin PullBits(p) => (b \in new <=> b \in bits)
<1> DEFINE n == 2 * (p[2] % 4)
           a == areg_pull(p)
<1>1. n \in Nat
  BY PinIs
<1>2. new = (bits \ {<<a, n>>, <<a, n + 1>>}) \cup Holding(a, n, 2, v)
      /\ PullBits(p) = {<<a, n>>, <<a, n + 1>>}
  BY DEF Resistor, PullBits
<1> HIDE DEF n, a
<1>3. /\ <<a, n>> \in new <=> v % 2 = 1
      /\ <<a, n + 1>> \in new <=> v \div 2 = 1
      /\ \A b : b \notin {<<a, n>>, <<a, n + 1>>} => (b \in new <=> b \in bits)
  <2>1. n # n + 1
    BY <1>1
  <2> QED
    BY <1>1, <1>2, <2>1, HoldingTwo
<1>4. ValueOf(new, a, n, 2) = v
  BY <1>1, <1>3, TwoHeld
<1> QED
  BY <1>2, <1>3, <1>4 DEF n, a

LEMMA SaysStep ==
    ASSUME PinInv, NEW p \in CalledPin, NEW w \in PinKind \ {"mux", "trigger"}, NEW v,
           w = "pull" => p[1] # GroupE, w = "pull30" => p[1] = GroupC,
           OnlyIn(BitsOf(p, w)), told' = Onto(Says(p, w, v), told), mux' = mux, timed' = timed,
           Is(p, w)' = v
    PROVE  PinInv'
<1> DEFINE P == Says(p, w, v)
           C == BitsOf(p, w)
<1>1. OnlyIn(C)
  OBVIOUS
<1>2. DOMAIN P = {<<p, w>>} /\ P[<<p, w>>] = v
  BY SaysIs
<1>3. DOMAIN P \subseteq Sayable
  BY <1>2, Called, CalledSays
<1>4. told' = Onto(P, told)
  OBVIOUS
<1>5. /\ \A s \in DOMAIN P : s[2] \notin {"mux", "trigger"}
      /\ \A c \in C : \E s \in DOMAIN P : c \in BitsOf(s[1], s[2])
      /\ \A s \in DOMAIN P : Is(s[1], s[2])' = P[s]
  <2> HIDE DEF P
  <2>1. \A s \in DOMAIN P : s = <<p, w>> /\ s[1] = p /\ s[2] = w
    BY <1>2
  <2>2. \A s \in DOMAIN P : Is(s[1], s[2])' = P[s]
    <3> SUFFICES ASSUME NEW s \in DOMAIN P PROVE Is(s[1], s[2])' = P[s]
      OBVIOUS
    <3>1. s[1] = p /\ s[2] = w /\ P[s] = v
      BY <1>2, <2>1
    <3> QED
      BY <3>1
  <2> QED
    BY <1>2, <2>1, <2>2
<1> HIDE DEF P, C
<1> QED
  BY <1>1, <1>3, <1>4, <1>5, CallStep

LEMMA ResistorStep ==
    ASSUME PinInv, NEW p \in CalledPin, NEW v \in 0 .. 3, p[1] # GroupE,
           Call(Resistor(on, areg_pull(p), p, v), Says(p, "pull", v))
    PROVE  PinInv'
<1>1. /\ on' = Resistor(on, areg_pull(p), p, v) /\ told' = Onto(Says(p, "pull", v), told)
      /\ mux' = mux /\ timed' = timed
  BY DEF Call
<1>2. /\ ValueOf(on', areg_pull(p), 2 * (p[2] % 4), 2) = v
      /\ \A b : b \notin PullBits(p) => (b \in on' <=> b \in on)
  BY <1>1, Called, Resisted
<1>3. BitsOf(p, "pull") = PullBits(p)
  BY DEF BitsOf, IrqKind
<1>4. OnlyIn(BitsOf(p, "pull"))
  BY <1>2, <1>3 DEF OnlyIn
<1>5. Is(p, "pull")' = v
  BY <1>2 DEF Is, IrqKind, PullOf
<1>6. "pull" \in PinKind \ {"mux", "trigger"} /\ "pull" # "pull30"
  BY DEF PinKind
<1> QED
  BY <1>1, <1>4, <1>5, <1>6, SaysStep

LEMMA resistor_Step ==
    ASSUME PinInv, NEW p \in CalledPin, NEW v \in 0 .. 3, gpio_setup_up_down_resistor(p, v)
    PROVE  PinInv'
<1>1. p[1] # GroupE /\ base_ana_reg(p) = areg_pull(p)
  BY Called, BaseIsPull DEF gpio_setup_up_down_resistor
<1>2. Call(Resistor(on, areg_pull(p), p, v), Says(p, "pull", v))
  BY <1>1 DEF gpio_setup_up_down_resistor
<1> QED
  BY <1>1, <1>2, ResistorStep

LEMMA PULL_TOGGLE_Step ==
    ASSUME PinInv, NEW p \in CalledPin, PULL_TOGGLE(p)
    PROVE  PinInv'
<1> DEFINE s == <<p, "pull">>
<1>1. s \in DOMAIN told /\ s[1] = p /\ s[2] = "pull"
  BY DEF PULL_TOGGLE
<1>2. s \in Sayable /\ told[s] = Is(p, "pull")
  BY <1>1 DEF PinInv, ToldHolds
<1>3. p[1] # GroupE
  BY <1>1, <1>2 DEF Sayable
<1>4. PullOf(p) \in 0 .. 3 /\ told[s] = PullOf(p)
  <2>1. 2 * (p[2] % 4) \in Nat
    BY Called, PinIs
  <2>2. PullOf(p) \in 0 .. 3
    <3> DEFINE n == 2 * (p[2] % 4)
               a == areg_pull(p)
    <3>1. n \in Nat /\ PullOf(p) = ValueOf(on, a, n, 2)
      BY <2>1 DEF PullOf
    <3> HIDE DEF n, a
    <3>2. PullOf(p) = (IF <<a, n>> \in on THEN 1 ELSE 0) + (IF <<a, n + 1>> \in on THEN 2 ELSE 0)
      BY <3>1, ValueOfTwo
    <3> QED
      BY <3>2
  <2> QED
    BY <1>2, <2>2 DEF Is, IrqKind
<1>5. Toggled(PullOf(p)) \in 0 .. 3
  BY <1>4 DEF Toggled
<1>6. Call(Resistor(on, areg_pull(p), p, Toggled(PullOf(p))), Says(p, "pull", Toggled(PullOf(p))))
  BY <1>4 DEF PULL_TOGGLE
<1> HIDE DEF s
<1> QED
  BY <1>3, <1>5, <1>6, ResistorStep

(* What several things said of one pin, in a function, come to. *)
LEMMA set_func_Step ==
    ASSUME PinInv, NEW p \in CalledPin, NEW f \in {0, AS_GPIO}, gpio_set_func(p, f)
    PROVE  PinInv'
<1> DEFINE r == reg_gpio_func_mux(p)
           m == [x \in IF f = AS_GPIO THEN {} ELSE {r} |-> f]
           set == IF f = AS_GPIO THEN NoneYet ELSE Says(p, "mux", f)
           P == Onto(Says(p, "gpio", f = AS_GPIO), set)
           C == BitsOf(p, "gpio")
           ds == <<p, "gpio">>
           dm == <<p, "mux">>
<1>1. /\ on' = With(on, PinBit("func", p), f = AS_GPIO) /\ mux' = Onto(m, mux)
      /\ told' = Onto(P, told) /\ timed' = timed
  BY DEF gpio_set_func
<1>2. C = {PinBit("func", p)}
  BY DEF BitsOf, IrqKind
<1>3. OnlyIn(C)
  BY <1>1, <1>2 DEF OnlyIn, With
<1>4. /\ DOMAIN P = IF f = AS_GPIO THEN {ds} ELSE {ds, dm}
      /\ P[ds] = (f = AS_GPIO)
      /\ f # AS_GPIO => P[dm] = f
  BY DEF Onto, Says, NoneYet
<1>5. ds \in Sayable /\ dm \in Sayable
  <2>1. {"gpio", "mux"} \subseteq PinKind
    BY DEF PinKind
  <2> QED
    BY <2>1, Called, CalledSays
<1>6. /\ \A x \in DOMAIN mux : x \in DOMAIN mux' /\ (x # r => mux'[x] = mux[x])
      /\ f # AS_GPIO => r \in DOMAIN mux' /\ mux'[r] = f
      /\ f = AS_GPIO => \A x \in DOMAIN mux : mux'[x] = mux[x]
  BY <1>1 DEF Onto
<1>7. Is(p, "gpio")' = (f = AS_GPIO)
  BY <1>1 DEF Is, IrqKind, With
<1>8. f # AS_GPIO => Is(p, "mux")' = f
  BY <1>6 DEF Is, IrqKind
<1>9. ds[1] = p /\ ds[2] = "gpio" /\ dm[1] = p /\ dm[2] = "mux"
  OBVIOUS
<1> HIDE DEF m, set, P, C, ds, dm
<1>10. ToldHolds'
  <2>1. DOMAIN P \subseteq Sayable
    BY <1>4, <1>5
  <2>2. \A s \in DOMAIN P : Is(s[1], s[2])' = P[s]
    <3> SUFFICES ASSUME NEW s \in DOMAIN P PROVE Is(s[1], s[2])' = P[s]
      OBVIOUS
    <3>1. CASE s = ds
      <4>1. s[1] = p /\ s[2] = "gpio"
        BY <1>9, <3>1
      <4> QED
        BY <1>4, <1>7, <3>1, <4>1
    <3>2. CASE s = dm /\ f # AS_GPIO
      <4>1. s[1] = p /\ s[2] = "mux"
        BY <1>9, <3>2
      <4> QED
        BY <1>4, <1>8, <3>2, <4>1
    <3> QED
      BY <1>4, <3>1, <3>2
  <2>3. \A s \in DOMAIN P : s[2] = "mux" => reg_gpio_func_mux(s[1]) \in DOMAIN mux'
    BY <1>4, <1>6, <1>9
  <2>4. ToldHolds /\ DOMAIN told \subseteq Sayable
    BY DEF PinInv, ToldHolds
  <2>5. \A s \in DOMAIN told \ DOMAIN P : BitsOf(s[1], s[2]) \cap C = {}
    <3> SUFFICES ASSUME NEW s \in DOMAIN told \ DOMAIN P, NEW b \in BitsOf(s[1], s[2]), b \in C
                 PROVE  FALSE
      OBVIOUS
    <3>1. b \in BitsOf(ds[1], ds[2]) /\ ds[2] # "trigger" /\ s # ds
      BY <1>4, <1>9 DEF C
    <3> QED
      BY <1>5, <2>4, <3>1, BitsApart
  <2>6. ASSUME NEW s \in DOMAIN told \ DOMAIN P, s[2] = "mux"
        PROVE  /\ reg_gpio_func_mux(s[1]) \in DOMAIN mux'
               /\ mux'[reg_gpio_func_mux(s[1])] = mux[reg_gpio_func_mux(s[1])]
    <3>1. reg_gpio_func_mux(s[1]) \in DOMAIN mux
      BY <2>4, <2>6 DEF ToldHolds
    <3>2. s \in Sayable /\ s[1] \in Pin /\ s = <<s[1], s[2]>>
      <4>1. WatchedPin \subseteq Pin
        BY PinAssumption
      <4> QED
        BY <2>4, <4>1 DEF Sayable
    <3>3. CASE f = AS_GPIO
      BY <1>6, <3>1, <3>3
    <3>4. CASE f # AS_GPIO
      <4>1. s # dm
        BY <1>4, <3>4
      <4>2. s[1] # p
        BY <2>6, <3>2, <4>1 DEF dm
      <4>3. reg_gpio_func_mux(s[1]) # r
        BY <3>2, <4>2, Called, MuxApart
      <4> QED
        BY <1>6, <3>1, <4>3
    <3> QED
      BY <3>3, <3>4
  <2>7. \A s \in DOMAIN told : told[s] = told[s]
    OBVIOUS
  <2> HIDE DEF r
  <2> QED
    BY <1>1, <1>3, <2>1, <2>2, <2>3, <2>4, <2>5, <2>6, <2>7, ToldStep
<1>11. TimedHolds'
  <2>1. \A b \in C : b[1] \notin TimerAddress
    BY <1>5, <1>9, PinBitsApart DEF C
  <2> QED
    BY <1>1, <1>3, <2>1, TimedSame DEF PinInv
<1> QED
  BY <1>10, <1>11 DEF PinInv

(* Several bits of one pin. *)
LEMMA PinCallStep ==
    ASSUME PinInv, NEW p \in CalledPin,
           NEW kinds \in SUBSET (PinKind \ {"mux", "trigger", "pull30"}),
           "pull" \in kinds => p[1] # GroupE,
           NEW P, DOMAIN P = {p} \X kinds, OnlyIn(UNION {BitsOf(p, w) : w \in kinds}),
           told' = Onto(P, told), mux' = mux, timed' = timed,
           \A w \in kinds : Is(p, w)' = P[<<p, w>>]
    PROVE  PinInv'
<1> DEFINE C == UNION {BitsOf(p, w) : w \in kinds}
<1>1. \A s \in DOMAIN P : /\ s[1] = p /\ s[2] \in kinds /\ s = <<p, s[2]>>
  OBVIOUS
<1>2. DOMAIN P \subseteq Sayable
  <2> SUFFICES ASSUME NEW s \in DOMAIN P PROVE s \in Sayable
    OBVIOUS
  <2> QED
    BY <1>1, Called, CalledSays
<1>3. \A s \in DOMAIN P : s[2] \notin {"mux", "trigger"}
  BY <1>1
<1>4. ASSUME NEW b \in C PROVE \E s \in DOMAIN P : b \in BitsOf(s[1], s[2])
  <2>1. PICK w \in kinds : b \in BitsOf(p, w)
    OBVIOUS
  <2>2. <<p, w>> \in DOMAIN P /\ <<p, w>>[1] = p /\ <<p, w>>[2] = w
    OBVIOUS
  <2>3. b \in BitsOf(<<p, w>>[1], <<p, w>>[2])
    BY <2>1, <2>2
  <2> QED
    BY <2>2, <2>3
<1>5. ASSUME NEW s \in DOMAIN P PROVE Is(s[1], s[2])' = P[s]
  <2>1. s[1] = p /\ s[2] \in kinds /\ s = <<p, s[2]>>
    BY <1>1
  <2>2. Is(p, s[2])' = P[<<p, s[2]>>]
    BY <2>1
  <2> QED
    BY <2>1, <2>2
<1>6. OnlyIn(C)
  OBVIOUS
<1> HIDE DEF C
<1> QED
  BY <1>2, <1>3, <1>4, <1>5, <1>6, CallStep

LEMMA BitMeans ==
    ASSUME NEW p \in Pin
    PROVE  /\ What(InputBit(p)) = "input" /\ Whose(InputBit(p)) = p
           /\ What(StrengthBit(p)) = "strong" /\ Whose(StrengthBit(p)) = p
           /\ What(PinBit("oen", p)) = "output" /\ Whose(PinBit("oen", p)) = p
           /\ What(PinBit("out", p)) = "level" /\ Whose(PinBit("out", p)) = p
           /\ What(PinBit("func", p)) = "gpio" /\ Whose(PinBit("func", p)) = p
           /\ What(PinBit("pol", p)) = "trigger" /\ Whose(PinBit("pol", p)) = p
           /\ What(PinBit("irq_wakeup_en", p)) = "irq" /\ Whose(PinBit("irq_wakeup_en", p)) = p
<1>1. DOMAIN Offset = {"ie", "oen", "out", "pol", "ds", "func", "irq_wakeup_en"}
  BY DEF Offset
<1>2. \A f \in DOMAIN Offset : What(PinBit(f, p)) = Field[Offset[f]] /\ Whose(PinBit(f, p)) = p
  BY FieldBit
<1>3. /\ Field[Offset["ie"]] = "input" /\ Field[Offset["ds"]] = "strong"
      /\ Field[Offset["oen"]] = "output" /\ Field[Offset["out"]] = "level"
      /\ Field[Offset["func"]] = "gpio" /\ Field[Offset["pol"]] = "trigger"
      /\ Field[Offset["irq_wakeup_en"]] = "irq"
  BY DEF Field, Offset
<1>4. /\ What(PinBit("ie", p)) = "input" /\ Whose(PinBit("ie", p)) = p
      /\ What(PinBit("ds", p)) = "strong" /\ Whose(PinBit("ds", p)) = p
  BY <1>1, <1>2, <1>3
<1>5. p[1] = GroupC => /\ What(InputBit(p)) = "input" /\ Whose(InputBit(p)) = p
                       /\ What(StrengthBit(p)) = "strong" /\ Whose(StrengthBit(p)) = p
  <2>1. p = <<p[1], p[2]>>
    BY PinIs
  <2> QED
    BY <2>1 DEF InputBit, StrengthBit, Areg, What, Whose, GroupC
<1>6. p[1] # GroupC => InputBit(p) = PinBit("ie", p) /\ StrengthBit(p) = PinBit("ds", p)
  BY DEF InputBit, StrengthBit
<1> QED
  BY <1>1, <1>2, <1>3, <1>4, <1>5, <1>6

LEMMA pullup_30k_Step ==
    ASSUME PinInv, NEW p \in CalledPin, gpio_set_pullup_res_30k(p)
    PROVE  PinInv'
<1>1. CASE p[1] = GroupC
  <2>1. /\ on' = on \cup {PullUp30Bit(p)} /\ told' = Onto(Says(p, "pull30", TRUE), told)
        /\ mux' = mux /\ timed' = timed
    BY <1>1 DEF gpio_set_pullup_res_30k, Call
  <2>2. BitsOf(p, "pull30") = {PullUp30Bit(p)} /\ "pull30" \in PinKind \ {"mux", "trigger"}
        /\ "pull30" # "pull"
    BY DEF BitsOf, IrqKind, PinKind
  <2>3. OnlyIn(BitsOf(p, "pull30")) /\ Is(p, "pull30")' = TRUE
    BY <2>1, <2>2 DEF OnlyIn, Is, IrqKind
  <2> QED
    BY <1>1, <2>1, <2>2, <2>3, SaysStep
<1>2. CASE p[1] # GroupC
  <2> DEFINE kinds == {"output", "level"}
             P == [s \in {p} \X kinds |-> s[2] = "level"]
  <2>1. /\ on' = on \cup {PinBit("oen", p), PinBit("out", p)} /\ told' = Onto(P, told)
        /\ mux' = mux /\ timed' = timed
    BY <1>2 DEF gpio_set_pullup_res_30k, Call
  <2>2. kinds \in SUBSET (PinKind \ {"mux", "trigger", "pull30"}) /\ "pull" \notin kinds
    BY DEF PinKind
  <2>3. BitsOf(p, "output") = {PinBit("oen", p)} /\ BitsOf(p, "level") = {PinBit("out", p)}
    BY DEF BitsOf, IrqKind
  <2>4. OnlyIn(UNION {BitsOf(p, w) : w \in kinds})
    BY <2>1, <2>3 DEF OnlyIn
  <2>5. Is(p, "output")' = FALSE /\ Is(p, "level")' = TRUE
    BY <2>1 DEF Is, IrqKind
  <2>6. P[<<p, "output">>] = FALSE /\ P[<<p, "level">>] = TRUE /\ DOMAIN P = {p} \X kinds
    OBVIOUS
  <2>7. \A w \in kinds : Is(p, w)' = P[<<p, w>>]
    <3> HIDE DEF P
    <3> QED
      BY <2>5, <2>6
  <2> HIDE DEF P, kinds
  <2> QED
    BY <2>1, <2>2, <2>4, <2>6, <2>7, PinCallStep
<1> QED
  BY <1>1, <1>2

LEMMA shutdown_Step ==
    ASSUME PinInv, NEW p \in CalledPin, gpio_shutdown(p)
    PROVE  PinInv'
<1> DEFINE kinds == {"output", "level"} \cup (IF p = SWS THEN {} ELSE {"input", "gpio"})
           P == [s \in {p} \X kinds |-> s[2] = "gpio"]
           inp == InputBit(p)
           oen == PinBit("oen", p)
           outp == PinBit("out", p)
           func == PinBit("func", p)
<1>1. /\ on' = ((IF p = SWS THEN on ELSE (on \ {inp}) \cup {func}) \ {outp}) \cup {oen}
      /\ told' = Onto(P, told) /\ mux' = mux /\ timed' = timed
  BY DEF gpio_shutdown, Call, Shut
<1>2. kinds \in SUBSET (PinKind \ {"mux", "trigger", "pull30"}) /\ "pull" \notin kinds
  BY DEF PinKind
<1>3. /\ BitsOf(p, "output") = {oen} /\ BitsOf(p, "level") = {outp}
      /\ BitsOf(p, "input") = {inp} /\ BitsOf(p, "gpio") = {func}
  BY DEF BitsOf, IrqKind
<1>4. inp # oen /\ inp # outp /\ inp # func /\ oen # outp /\ oen # func /\ outp # func
  <2>1. What(inp) = "input" /\ What(oen) = "output" /\ What(outp) = "level" /\ What(func) = "gpio"
    BY Called, BitMeans
  <2> HIDE DEF inp, oen, outp, func
  <2> QED
    BY <2>1
<1>5. OnlyIn(UNION {BitsOf(p, w) : w \in kinds})
  <2> HIDE DEF inp, oen, outp, func
  <2> QED
    BY <1>1, <1>3 DEF OnlyIn
<1>6. /\ Is(p, "output")' = FALSE /\ Is(p, "level")' = FALSE
      /\ p # SWS => Is(p, "input")' = FALSE /\ Is(p, "gpio")' = TRUE
  <2>1. oen \in on' => Is(p, "output")' = FALSE
    BY DEF Is, IrqKind
  <2>11. outp \notin on' => Is(p, "level")' = FALSE
    <3>1. Is(p, "level")' = (outp \in on')
      BY DEF Is, IrqKind
    <3> HIDE DEF outp
    <3>2. outp \notin on' => (outp \in on') = FALSE
      OBVIOUS
    <3> QED
      BY <3>1, <3>2
  <2>12. inp \notin on' => Is(p, "input")' = FALSE
    <3>1. Is(p, "input")' = (inp \in on')
      BY DEF Is, IrqKind
    <3> HIDE DEF inp
    <3>2. inp \notin on' => (inp \in on') = FALSE
      OBVIOUS
    <3> QED
      BY <3>1, <3>2
  <2>13. func \in on' => Is(p, "gpio")' = TRUE
    BY DEF Is, IrqKind
  <2> HIDE DEF inp, oen, outp, func
  <2>2. oen \in on' /\ outp \notin on' /\ (p # SWS => inp \notin on' /\ func \in on')
    BY <1>1, <1>4
  <2> QED
    BY <2>1, <2>11, <2>12, <2>13, <2>2
<1>7. \A w \in kinds : P[<<p, w>>] = (w = "gpio")
  OBVIOUS
<1>8. DOMAIN P = {p} \X kinds
  OBVIOUS
<1>9. \A w \in kinds : Is(p, w)' = P[<<p, w>>]
  <2> HIDE DEF P
  <2> QED
    BY <1>6, <1>7
<1> HIDE DEF P, kinds, inp, outp, oen, func
<1> QED
  BY <1>1, <1>2, <1>5, <1>8, <1>9, PinCallStep

LEMMA RegMeans ==
    ASSUME NEW f \in DOMAIN Offset, NEW g \in 0 .. 5, NEW n
    PROVE  /\ reg_gpio(f, g) \in 1281 .. 1327
           /\ What(<<reg_gpio(f, g), n>>) = Field[Offset[f]]
           /\ Whose(<<reg_gpio(f, g), n>>) = <<g, n>>
<1> DEFINE a == 1280 + 8 * g + Offset[f]
<1>1. Offset[f] \in 1 .. 7
  BY DEF Offset
<1>2. reg_gpio(f, g) = a
  BY DEF reg_gpio
<1>3. a \in 1281 .. 1327 /\ a % 8 = Offset[f] /\ (a - 1280) \div 8 = g
  BY <1>1
<1> HIDE DEF a
<1>4. <<a, n>>[1] = a /\ <<a, n>>[2] = n
  OBVIOUS
<1>5. What(<<a, n>>) = Field[a % 8]
  BY <1>3, <1>4 DEF What
<1>6. Whose(<<a, n>>) = <<(a - 1280) \div 8, n>>
  BY <1>3, <1>4 DEF Whose
<1> QED
  BY <1>2, <1>3, <1>5, <1>6

LEMMA FieldNames ==
    /\ Field[Offset["ie"]] = "input" /\ Field[Offset["ds"]] = "strong"
    /\ Field[Offset["oen"]] = "output" /\ Field[Offset["out"]] = "level"
    /\ Field[Offset["func"]] = "gpio" /\ Field[Offset["pol"]] = "trigger"
    /\ Field[Offset["irq_wakeup_en"]] = "irq"
    /\ DOMAIN Offset = {"ie", "oen", "out", "pol", "ds", "func", "irq_wakeup_en"}
BY DEF Field, Offset

(* Meaning depends on the address alone, but for whose. *)
LEMMA AddressMeans ==
    ASSUME NEW b, NEW f \in DOMAIN Offset, NEW g \in 0 .. 5, b[1] = reg_gpio(f, g)
    PROVE  What(b) = Field[Offset[f]] /\ Whose(b) = <<g, b[2]>> /\ b[1] \in 1281 .. 1327
<1>1. What(<<reg_gpio(f, g), b[2]>>) = What(b)
  BY DEF What
<1>2. Whose(<<reg_gpio(f, g), b[2]>>) = Whose(b)
  BY DEF Whose
<1> QED
  BY <1>1, <1>2, RegMeans

LEMMA SWSIsPin == SWS \in Pin /\ SWS[1] = 0 /\ SWS[2] = 3
BY DEF SWS, Pin

LEMMA shutdown_all_Step ==
    ASSUME PinInv, gpio_shutdown_all
    PROVE  PinInv'
<1> DEFINE groups == {0, 1, GroupC, 3, GroupF}
           cleared == {reg_gpio(f, g) : f \in {"out", "oen", "func"}, g \in groups}
                        \cup {reg_gpio("ie", g) : g \in groups \ {GroupC}} \cup {Areg(192)}
           high == {<<reg_gpio(f, g), n>> : f \in {"oen", "func"}, g \in groups, n \in 0 .. 7}
           four == {"output", "level", "input", "gpio"}
           pins == {q \in WatchedPin : q[1] # GroupE}
           shut == {<<p, w>> : p \in pins, w \in four}
           P == [s \in shut |-> (s[2] = "gpio" /\ s[1] # SWS) \/ (s[2] = "input" /\ s[1] = SWS)]
           C == {b \in on \cup on' : b[1] \in cleared}
<1>1. /\ on' = {b \in on : b[1] \notin cleared} \cup (high \ {PinBit("func", SWS)}) \cup {InputBit(SWS)}
      /\ told' = Onto(P, told) /\ mux' = mux /\ timed' = timed
  BY DEF gpio_shutdown_all, Call
<1>2. groups \subseteq 0 .. 5 /\ GroupE \notin groups
  BY DEF GroupC, GroupE, GroupF
<1>3. \A b \in high : b[1] \in cleared /\ What(b) \in {"output", "gpio"}
  <2> SUFFICES ASSUME NEW b \in high PROVE b[1] \in cleared /\ What(b) \in {"output", "gpio"}
    OBVIOUS
  <2>0. PICK f \in {"oen", "func"}, g \in groups, n \in 0 .. 7 : b = <<reg_gpio(f, g), n>>
    OBVIOUS
  <2>01. b[1] \in cleared
    BY <2>0
  <2>1. f \in DOMAIN Offset /\ g \in 0 .. 5
    BY <1>2, FieldNames
  <2>2. What(<<reg_gpio(f, g), n>>) = Field[Offset[f]]
    BY <2>1, RegMeans
  <2>3. Field[Offset[f]] \in {"output", "gpio"}
    BY FieldNames
  <2> QED
    BY <2>0, <2>01, <2>2, <2>3
<1>4. InputBit(SWS)[1] \in cleared
  BY SWSIsPin DEF InputBit, PinBit, GroupC
<1>5. ASSUME NEW b, b[1] \in cleared
      PROVE  /\ What(b) \in four /\ b[1] \notin TimerAddress /\ b[1] # 1399
             /\ Whose(b)[1] # GroupE
  <2>1. CASE b[1] = Areg(192)
    BY <2>1 DEF What, Whose, Areg, TimerAddress, GroupC, GroupE
  <2>2. ASSUME NEW f \in {"out", "oen", "func", "ie"}, NEW g \in groups, b[1] = reg_gpio(f, g)
        PROVE  What(b) \in four /\ Whose(b)[1] # GroupE /\ b[1] \in 1281 .. 1327
    <3>1. f \in DOMAIN Offset /\ g \in 0 .. 5 /\ g # GroupE
      BY <1>2, FieldNames
    <3>2. What(b) = Field[Offset[f]] /\ Whose(b) = <<g, b[2]>> /\ b[1] \in 1281 .. 1327
      BY <2>2, <3>1, AddressMeans
    <3>3. Field[Offset[f]] \in four
      BY FieldNames
    <3> HIDE DEF four, groups
    <3> QED
      BY <3>1, <3>2, <3>3
  <2>3. b[1] = Areg(192)
        \/ \E f \in {"out", "oen", "func", "ie"}, g \in groups : b[1] = reg_gpio(f, g)
    BY <1>5
  <2>4. b[1] \in 1281 .. 1327 => b[1] \notin TimerAddress /\ b[1] # 1399
    BY DEF TimerAddress
  <2> HIDE DEF four, groups
  <2> QED
    BY <2>1, <2>2, <2>3, <2>4
<1>6. OnlyIn(C)
  <2> HIDE DEF cleared, high
  <2> QED
    BY <1>1, <1>3, <1>4 DEF OnlyIn
<1>7. ToldHolds /\ TimedHolds
  BY DEF PinInv
<1>8. TimedHolds'
  <2>1. \A b \in C : b[1] \notin TimerAddress
    <3> HIDE DEF cleared
    <3> QED
      BY <1>5
  <2> HIDE DEF C
  <2> QED
    BY <1>1, <1>6, <1>7, <2>1, TimedSame
<1>9. \A s \in shut : s[1] \in pins /\ s[2] \in four /\ s = <<s[1], s[2]>>
  OBVIOUS
<1>10. DOMAIN P \subseteq Sayable
  <2>1. four \subseteq PinKind /\ "pull" \notin four /\ "pull30" \notin four
    BY DEF PinKind
  <2>2. pins \subseteq WatchedPin
    OBVIOUS
  <2>3. DOMAIN P = shut
    OBVIOUS
  <2> HIDE DEF P, shut, pins, four
  <2> QED
    BY <1>9, <2>1, <2>2, <2>3, CalledSays
<1>11. \A s \in DOMAIN told \ DOMAIN P : BitsOf(s[1], s[2]) \cap C = {}
  <2> SUFFICES ASSUME NEW s \in DOMAIN told, NEW b \in BitsOf(s[1], s[2]), b[1] \in cleared
               PROVE  s \in shut
    OBVIOUS
  <2>1. s \in Sayable /\ s = <<s[1], s[2]>> /\ s[1] \in WatchedPin
    BY <1>7 DEF ToldHolds, Sayable
  <2>2. What(b) = s[2] /\ (b[1] # 1399 => Whose(b) = s[1])
    BY <2>1, OwnerOf
  <2>3. What(b) \in four /\ b[1] # 1399 /\ Whose(b)[1] # GroupE
    <3> HIDE DEF cleared, four
    <3> QED
      BY <1>5
  <2>4. s[1] \in pins /\ s[2] \in four
    BY <2>1, <2>2, <2>3
  <2> HIDE DEF pins, four
  <2> QED
    BY <2>1, <2>4
<1>12. \A s \in DOMAIN P : Is(s[1], s[2])' = P[s]
  <2> SUFFICES ASSUME NEW p \in pins, NEW w \in four, <<p, w>> \in shut
        PROVE Is(p, w)' = P[<<p, w>>]
    <3>1. DOMAIN P = shut
      OBVIOUS
    <3> HIDE DEF P, shut, pins, four
    <3> SUFFICES ASSUME NEW s \in shut PROVE Is(s[1], s[2])' = P[s]
      BY <3>1
    <3>2. s[1] \in pins /\ s[2] \in four /\ s = <<s[1], s[2]>>
      BY <1>9
    <3>3. Is(s[1], s[2])' = P[<<s[1], s[2]>>]
      BY <3>2
    <3> QED
      BY <3>2, <3>3
  <2>1. p \in Pin /\ p[1] \in groups /\ p = <<p[1], p[2]>> /\ p[2] \in 0 .. 7
    BY PinAssumption, PinIs DEF GroupC, GroupE, GroupF
  <2>2. P[<<p, w>>] = ((w = "gpio" /\ p # SWS) \/ (w = "input" /\ p = SWS))
    OBVIOUS
  <2> DEFINE inp == InputBit(p)
             oen == PinBit("oen", p)
             outp == PinBit("out", p)
             func == PinBit("func", p)
             swsin == InputBit(SWS)
             swsfunc == PinBit("func", SWS)
  <2>3. /\ What(inp) = "input" /\ What(oen) = "output" /\ What(outp) = "level"
           /\ What(func) = "gpio"
        /\ Whose(inp) = p /\ Whose(func) = p
        /\ What(swsin) = "input" /\ Whose(swsin) = SWS /\ What(swsfunc) = "gpio"
           /\ Whose(swsfunc) = SWS
    BY <2>1, SWSIsPin, BitMeans
  <2>4. oen \in high /\ func \in high
    BY <2>1 DEF PinBit
  <2>5. inp[1] \in cleared /\ outp[1] \in cleared
    BY <2>1 DEF InputBit, PinBit
  <2>6. /\ Is(p, "output")' = (oen \notin on') /\ Is(p, "level")' = (outp \in on')
    BY DEF Is, IrqKind
  <2>6a. /\ Is(p, "input")' = (inp \in on') /\ Is(p, "gpio")' = (func \in on')
    BY DEF Is, IrqKind
  <2> HIDE DEF inp, oen, outp, func, swsin, swsfunc, high, cleared, P, shut, pins
  <2>7. oen \in on'
    BY <1>1, <2>3, <2>4 DEF swsfunc
  <2>8. outp \notin on'
    BY <1>1, <1>3, <2>3, <2>5 DEF swsin
  <2>9. inp \in on' <=> p = SWS
    <3>1. p = SWS => inp = swsin
      BY DEF inp, swsin
    <3> QED
      BY <1>1, <1>3, <2>3, <2>5, <3>1 DEF swsin
  <2>10. func \in on' <=> p # SWS
    <3>1. p = SWS => func = swsfunc
      BY DEF func, swsfunc
    <3>2. func # swsin
      BY <2>3
    <3>3. func[1] \in cleared
      BY <1>3, <2>4
    <3> QED
      BY <1>1, <2>3, <2>4, <3>1, <3>2, <3>3 DEF swsin, swsfunc
  <2> HIDE DEF inp, oen, outp, func
  <2>11. CASE w = "output"
    <3>1. Is(p, w)' = FALSE /\ P[<<p, w>>] = FALSE
      BY <2>2, <2>6, <2>7, <2>11
    <3> QED
      BY <3>1
  <2>12. CASE w = "level"
    <3>1. (outp \in on') = FALSE
      BY <2>8
    <3>2. P[<<p, w>>] = FALSE
      BY <2>2, <2>12
    <3> QED
      BY <2>6, <2>12, <3>1, <3>2
  <2>13. CASE w = "input"
    <3>1. (inp \in on') = (p = SWS)
      BY <2>9
    <3>2. P[<<p, w>>] = (p = SWS)
      BY <2>2, <2>13
    <3> QED
      BY <2>6a, <2>13, <3>1, <3>2
  <2>14. CASE w = "gpio"
    <3>1. (func \in on') = (p # SWS)
      BY <2>10
    <3>2. P[<<p, w>>] = (p # SWS)
      BY <2>2, <2>14
    <3> QED
      BY <2>6a, <2>14, <3>1, <3>2
  <2> QED
    BY <2>11, <2>12, <2>13, <2>14
<1>13. \A s \in DOMAIN P : s[2] # "mux"
  BY <1>9
<1>14. \A s \in DOMAIN told \ DOMAIN P : s[2] = "mux" =>
             /\ reg_gpio_func_mux(s[1]) \in DOMAIN mux'
             /\ mux'[reg_gpio_func_mux(s[1])] = mux[reg_gpio_func_mux(s[1])]
  BY <1>1, <1>7 DEF ToldHolds
<1>15. ToldHolds'
  <2>1. \A s \in DOMAIN told : told[s] = told[s]
    OBVIOUS
  <2> HIDE DEF P, C
  <2> QED
    BY <1>1, <1>6, <1>7, <1>10, <1>11, <1>12, <1>13, <1>14, <2>1, ToldStep
<1> QED
  BY <1>8, <1>15 DEF PinInv

LEMMA DefaultPullIs ==
    ASSUME NEW p \in Pin
    PROVE  DefaultPull(p) \in 0 .. 3
<1>1. p \in DOMAIN BoardPull => BoardPull[p] \in 0 .. 3
  BY PinAssumption
<1>2. p[2] \in DOMAIN Default(p).pull => Default(p).pull[p[2]] \in 0 .. 3
  <2>1. p[1] \in 0 .. 5
    BY PinIs
  <2>2. Default(p) \in {PA_default, PB_default, PC_default, PD_default, PE_default, PF_default}
    BY <2>1 DEF Default
  <2> QED
    BY <2>2 DEF PA_default, PB_default, PC_default, PD_default, PE_default, PF_default, NoneYet
<1> QED
  BY <1>1, <1>2 DEF DefaultPull

LEMMA PullBitsHold ==
    ASSUME NEW p \in Pin
    PROVE  Holding(areg_pull(p), 2 * (p[2] % 4), 2, DefaultPull(p)) \subseteq PullBits(p)
<1> DEFINE n == 2 * (p[2] % 4)
           a == areg_pull(p)
           v == DefaultPull(p)
<1>1. n \in Nat /\ v \in 0 .. 3
  BY PinIs, DefaultPullIs
<1>2. PullBits(p) = {<<a, n>>, <<a, n + 1>>}
  BY DEF PullBits
<1> HIDE DEF n, a, v
<1>3. Holding(a, n, 2, v) \subseteq PullBits(p)
  BY <1>1, <1>2, HoldingTwo
<1> QED
  BY <1>3 DEF n, a, v

(* What gpio_init sets. *)
LEMMA ConfiguredMeans ==
    ASSUME NEW v \in BOOLEAN, NEW b \in ConfiguredBits(v)
    PROVE  /\ What(b) \in {"input", "output", "strong", "gpio", "pull"}
           /\ What(b) = "input" => Whose(b)[2] \in Default(Whose(b)).input
           /\ What(b) = "output" => Whose(b) \notin BoardOutput
           /\ What(b) = "gpio" => Whose(b)[2] \notin Default(Whose(b)).func
           /\ What(b) = "pull" =>
                v /\ b \in Holding(areg_pull(Whose(b)), 2 * (Whose(b)[2] % 4), 2, DefaultPull(Whose(b)))
<1> DEFINE Good == /\ What(b) \in {"input", "output", "strong", "gpio", "pull"}
                   /\ What(b) = "input" => Whose(b)[2] \in Default(Whose(b)).input
                   /\ What(b) = "output" => Whose(b) \notin BoardOutput
                   /\ What(b) = "gpio" => Whose(b)[2] \notin Default(Whose(b)).func
                   /\ What(b) = "pull" =>
                        v /\ b \in Holding(areg_pull(Whose(b)), 2 * (Whose(b)[2] % 4), 2,
                                           DefaultPull(Whose(b)))
<1>1. \/ \E p \in Pin : p[2] \in Default(p).input /\ b = InputBit(p)
      \/ \E p \in Pin \ BoardOutput : b = PinBit("oen", p)
      \/ \E p \in Pin : b = StrengthBit(p)
      \/ \E p \in Pin : p[2] \notin Default(p).func /\ b = PinBit("func", p)
      \/ v /\ \E p \in Pin : /\ p[1] # GroupE
                             /\ b \in Holding(areg_pull(p), 2 * (p[2] % 4), 2, DefaultPull(p))
  BY DEF ConfiguredBits
<1>2. ASSUME NEW p \in Pin, p[2] \in Default(p).input, b = InputBit(p) PROVE Good
  BY <1>2, BitMeans
<1>3. ASSUME NEW p \in Pin \ BoardOutput, b = PinBit("oen", p) PROVE Good
  BY <1>3, BitMeans
<1>4. ASSUME NEW p \in Pin, b = StrengthBit(p) PROVE Good
  BY <1>4, BitMeans
<1>5. ASSUME NEW p \in Pin, p[2] \notin Default(p).func, b = PinBit("func", p) PROVE Good
  BY <1>5, BitMeans
<1>6. ASSUME v, NEW p \in Pin, p[1] # GroupE,
             b \in Holding(areg_pull(p), 2 * (p[2] % 4), 2, DefaultPull(p))
      PROVE  Good
  <2>1. b \in PullBits(p) /\ BitsOf(p, "pull") = PullBits(p)
    BY <1>6, PullBitsHold DEF BitsOf, IrqKind
  <2>2. "pull" \in PinKind /\ "pull" # "pull30" /\ "pull" # "trigger"
    BY DEF PinKind
  <2>3. What(b) = "pull" /\ Whose(b) = p
    BY <1>6, <2>1, <2>2, BitOwner
  <2> QED
    BY <1>6, <2>3
<1> HIDE DEF Good
<1>7. Good
  BY <1>1, <1>2, <1>3, <1>4, <1>5, <1>6
<1> QED
  BY <1>7 DEF Good

(* The registers that gpio_init writes. *)
LEMMA WrittenMeans ==
    ASSUME NEW v \in BOOLEAN, NEW b, b[1] \in Written(v)
    PROVE  /\ b[1] \notin TimerAddress /\ b[1] # 1399
           /\ What(b) \in {"input", "output", "level", "strong", "gpio",
                                  "pull", "irq", "trigger"}
           /\ What(b) = "pull" => v
           /\ What(b) \in {"irq", "trigger"} => Whose(b)[1] \notin {GroupC, GroupE}
<1> DEFINE Good == /\ b[1] \notin TimerAddress /\ b[1] # 1399
                   /\ What(b) \in {"input", "output", "level", "strong", "gpio",
                                  "pull", "irq", "trigger"}
                   /\ What(b) = "pull" => v
                   /\ What(b) \in {"irq", "trigger"} => Whose(b)[1] \notin {GroupC, GroupE}
<1>1. \/ \E f \in DOMAIN Offset, g \in {0, 1, 3, GroupF} : b[1] = reg_gpio(f, g)
      \/ \E f \in {"oen", "out", "func"} : b[1] = reg_gpio(f, GroupC)
      \/ b[1] = Areg(192) \/ b[1] = Areg(194)
      \/ \E f \in {"ie", "oen", "out", "ds", "func"} : b[1] = reg_gpio(f, GroupE)
      \/ v /\ \E a \in 14 .. 22 : b[1] = Areg(a)
  BY DEF Written
<1>2. b[1] \in 1281 .. 1327 => b[1] \notin TimerAddress /\ b[1] # 1399
  BY DEF TimerAddress
<1>3. ASSUME NEW f \in DOMAIN Offset, NEW g \in {0, 1, 3, GroupF}, b[1] = reg_gpio(f, g) PROVE Good
  <2>1. g \in 0 .. 5 /\ g \notin {GroupC, GroupE}
    BY DEF GroupC, GroupE, GroupF
  <2>2. What(b) = Field[Offset[f]] /\ Whose(b) = <<g, b[2]>> /\ b[1] \in 1281 .. 1327
    BY <1>3, <2>1, AddressMeans
  <2>3. Field[Offset[f]] \in {"input", "output", "level", "strong", "gpio", "irq", "trigger"}
    BY FieldNames
  <2> QED
    BY <1>2, <2>1, <2>2, <2>3
<1>4. ASSUME NEW f \in {"oen", "out", "func", "ie", "ds"}, NEW g \in {GroupC, GroupE},
             b[1] = reg_gpio(f, g)
      PROVE  Good
  <2>1. g \in 0 .. 5 /\ f \in DOMAIN Offset
    BY FieldNames DEF GroupC, GroupE
  <2>2. What(b) = Field[Offset[f]] /\ b[1] \in 1281 .. 1327
    BY <1>4, <2>1, AddressMeans
  <2>3. Field[Offset[f]] \in {"input", "output", "level", "strong", "gpio"}
    BY FieldNames
  <2> QED
    BY <1>2, <2>2, <2>3
<1>5. ASSUME b[1] = Areg(192) \/ b[1] = Areg(194) PROVE Good
  BY <1>5 DEF Areg, What, TimerAddress
<1>6. ASSUME v, NEW a \in 14 .. 22, b[1] = Areg(a) PROVE Good
  <2>1. b[1] \in 4110 .. 4118
    BY <1>6 DEF Areg
  <2>2. What(b) = "pull" /\ b[1] \notin TimerAddress /\ b[1] # 1399
    BY <2>1 DEF What, TimerAddress
  <2> QED
    BY <1>6, <2>2
<1> HIDE DEF Good
<1>7. Good
  BY <1>1, <1>3, <1>4, <1>5, <1>6
<1> QED
  BY <1>7 DEF Good

(* And all of it is in registers that are written. *)
LEMMA ConfiguredIsWritten ==
    ASSUME NEW v \in BOOLEAN, NEW p \in Pin
    PROVE  /\ InputBit(p)[1] \in Written(v) /\ StrengthBit(p)[1] \in Written(v)
           /\ PinBit("oen", p)[1] \in Written(v) /\ PinBit("out", p)[1] \in Written(v)
           /\ PinBit("func", p)[1] \in Written(v)
           /\ p[1] \notin {GroupC, GroupE} => PinBit("irq_wakeup_en", p)[1] \in Written(v)
           /\ v /\ p[1] # GroupE => areg_pull(p) \in Written(v)
<1> DEFINE g == p[1]
<1>1. g \in 0 .. 5 /\ p[2] \in 0 .. 7
  BY PinIs
<1>2. \A f : PinBit(f, p)[1] = reg_gpio(f, g)
  BY DEF PinBit
<1>3. /\ InputBit(p)[1] = IF g = GroupC THEN Areg(192) ELSE reg_gpio("ie", g)
      /\ StrengthBit(p)[1] = IF g = GroupC THEN Areg(194) ELSE reg_gpio("ds", g)
  BY <1>2 DEF InputBit, StrengthBit
<1>4. v /\ g # GroupE => areg_pull(p) \in {Areg(a) : a \in 14 .. 22}
  <2> SUFFICES ASSUME v, g # GroupE PROVE areg_pull(p) \in {Areg(a) : a \in 14 .. 22}
    OBVIOUS
  <2>1. CASE g = GroupF
    BY <2>1 DEF areg_pull
  <2>2. CASE g # GroupF
    <3>1. areg_pull(p) = Areg(14 + (8 * g + p[2]) \div 4)
      BY <2>2 DEF areg_pull
    <3>2. g \in 0 .. 3
      BY <1>1, <2>2 DEF GroupE, GroupF
    <3>3. 14 + (8 * g + p[2]) \div 4 \in 14 .. 22
      BY <1>1, <3>2
    <3> QED
      BY <3>1, <3>3
  <2> QED
    BY <2>1, <2>2
<1>5. g \in {0, 1, 3, GroupF} \/ g = GroupC \/ g = GroupE
  BY <1>1 DEF GroupC, GroupE, GroupF
<1> HIDE DEF g
<1>6. v /\ p[1] # GroupE => areg_pull(p) \in Written(v)
  BY <1>4 DEF Written, g
<1>7. \A f \in {"oen", "out", "func"} : reg_gpio(f, g) \in Written(v)
  BY <1>5, FieldNames DEF Written
<1>8. g # GroupC => reg_gpio("ie", g) \in Written(v) /\ reg_gpio("ds", g) \in Written(v)
  BY <1>5, FieldNames DEF Written
<1>9. Areg(192) \in Written(v) /\ Areg(194) \in Written(v)
  BY DEF Written
<1>10. g \notin {GroupC, GroupE} => reg_gpio("irq_wakeup_en", g) \in Written(v)
  BY <1>5, FieldNames DEF Written
<1> QED
  BY <1>2, <1>3, <1>6, <1>7, <1>8, <1>9, <1>10 DEF g

LEMMA ConfiguredPull ==
    ASSUME NEW p \in Pin, p[1] # GroupE, NEW bits, NEW new,
           new = {b \in bits : b[1] \notin Written(TRUE)} \cup ConfiguredBits(TRUE)
    PROVE  ValueOf(new, areg_pull(p), 2 * (p[2] % 4), 2) = DefaultPull(p)
<1> DEFINE n == 2 * (p[2] % 4)
           a == areg_pull(p)
           d == DefaultPull(p)
           H == Holding(a, n, 2, d)
<1>1. n \in Nat /\ d \in 0 .. 3 /\ n # n + 1
  BY PinIs, DefaultPullIs
<1>2. PullBits(p) = {<<a, n>>, <<a, n + 1>>} /\ BitsOf(p, "pull") = PullBits(p)
  BY DEF PullBits, BitsOf, IrqKind
<1>3. H \subseteq ConfiguredBits(TRUE)
  BY DEF ConfiguredBits
<1>4. a \in Written(TRUE)
  BY ConfiguredIsWritten
<1>5. ASSUME NEW b \in PullBits(p), b \in ConfiguredBits(TRUE) PROVE b \in H
  <2>1. "pull" \in PinKind /\ "pull" # "pull30" /\ "pull" # "trigger"
    BY DEF PinKind
  <2>2. What(b) = "pull" /\ Whose(b) = p
    BY <1>2, <1>5, <2>1, BitOwner
  <2>3. b \in Holding(areg_pull(Whose(b)), 2 * (Whose(b)[2] % 4), 2, DefaultPull(Whose(b)))
    BY <1>5, <2>2, ConfiguredMeans
  <2> QED
    BY <2>2, <2>3
<1> HIDE DEF n, a, d, H
<1>6. <<a, n>> \in new <=> <<a, n>> \in H
  BY <1>2, <1>3, <1>4, <1>5
<1>7. <<a, n + 1>> \in new <=> <<a, n + 1>> \in H
  BY <1>2, <1>3, <1>4, <1>5
<1>8. H = (IF d % 2 = 1 THEN {<<a, n>>} ELSE {}) \cup (IF d \div 2 = 1 THEN {<<a, n + 1>>} ELSE {})
  BY <1>1, HoldingTwo DEF H
<1>9. /\ <<a, n>> \in new <=> d % 2 = 1
      /\ <<a, n + 1>> \in new <=> d \div 2 = 1
  <2>1. <<a, n>> # <<a, n + 1>>
    BY <1>1
  <2> QED
    BY <1>6, <1>7, <1>8, <2>1
<1>10. ValueOf(new, a, n, 2) = d
  BY <1>1, <1>9, TwoHeld
<1> QED
  BY <1>10 DEF n, a, d

LEMMA gpio_init_Step ==
    ASSUME PinInv, NEW v \in BOOLEAN, gpio_init(v)
    PROVE  PinInv'
<1> DEFINE cleared == {q \in WatchedPin : q[1] \notin {GroupC, GroupE}}
           five == {"input", "output", "level", "strong", "gpio"}
           pulled == IF v THEN {q \in WatchedPin : q[1] # GroupE} \X {"pull"} ELSE {}
           promised == WatchedPin \X five \cup cleared \X {"irq"} \cup pulled
           P == [s \in promised |-> Configured(s[1], s[2])]
           kept == DOMAIN told \ (cleared \X {"trigger"})
           old == Restrict(told, kept)
           C == {b \in on \cup on' : b[1] \in Written(v)}
<1>1. /\ on' = {b \in on : b[1] \notin Written(v)} \cup ConfiguredBits(v)
      /\ told' = Onto(P, old) /\ mux' = mux /\ timed' = timed
  BY DEF gpio_init
<1>2. ToldHolds /\ TimedHolds
  BY DEF PinInv
<1>3. DOMAIN old = kept /\ \A s \in kept : old[s] = told[s]
  BY DEF Restrict
<1>4. DOMAIN P = promised /\ \A s \in promised : P[s] = Configured(s[1], s[2])
  OBVIOUS
<1>5. \A s \in promised : /\ s = <<s[1], s[2]>> /\ s[1] \in WatchedPin
                          /\ \/ s[2] \in five
                             \/ s[2] = "irq" /\ s[1][1] \notin {GroupC, GroupE}
                             \/ s[2] = "pull" /\ v /\ s[1][1] # GroupE
  OBVIOUS
<1>6. ASSUME NEW p \in WatchedPin, NEW w,
             \/ w \in five
             \/ w = "irq" /\ p[1] \notin {GroupC, GroupE}
             \/ w = "pull" /\ v /\ p[1] # GroupE
      PROVE  <<p, w>> \in promised
  BY <1>6
<1>7. five \cup {"irq", "pull"} \subseteq PinKind \ {"mux", "pull30", "trigger"}
      /\ "pull" \notin five
  BY DEF PinKind, IrqKind
<1> HIDE DEF cleared, pulled, promised, P, kept, old
<1>8. ASSUME NEW b \in ConfiguredBits(v) PROVE b[1] \in Written(v)
  <2>1. \/ \E p \in Pin : b = InputBit(p)
        \/ \E p \in Pin : b = PinBit("oen", p)
        \/ \E p \in Pin : b = StrengthBit(p)
        \/ \E p \in Pin : b = PinBit("func", p)
        \/ v /\ \E p \in Pin : /\ p[1] # GroupE
                               /\ b \in Holding(areg_pull(p), 2 * (p[2] % 4), 2, DefaultPull(p))
    BY DEF ConfiguredBits
  <2>2. ASSUME v, NEW p \in Pin, p[1] # GroupE,
               b \in Holding(areg_pull(p), 2 * (p[2] % 4), 2, DefaultPull(p))
        PROVE  b[1] \in Written(v)
    <3>1. b \in PullBits(p)
      BY <2>2, PullBitsHold
    <3>2. b[1] = areg_pull(p)
      BY <3>1 DEF PullBits
    <3> QED
      BY <2>2, <3>2, ConfiguredIsWritten
  <2> QED
    BY <2>1, <2>2, ConfiguredIsWritten
<1>9. OnlyIn(C)
  BY <1>1, <1>8 DEF OnlyIn
<1>10. TimedHolds'
  <2>1. \A b \in C : b[1] \notin TimerAddress
    BY WrittenMeans
  <2> HIDE DEF C
  <2> QED
    BY <1>1, <1>2, <1>9, <2>1, TimedSame
<1>11. DOMAIN P \subseteq Sayable
  <2> SUFFICES ASSUME NEW s \in promised PROVE s \in Sayable
    BY <1>4
  <2>1. s = <<s[1], s[2]>> /\ s[1] \in WatchedPin /\ s[2] \in PinKind
        /\ (s[2] = "pull" => s[1][1] # GroupE) /\ s[2] # "pull30"
    <3> HIDE DEF five
    <3> QED
      BY <1>5, <1>7
  <2> QED
    BY <2>1, CalledSays
<1>12. \A s \in DOMAIN old \ DOMAIN P : BitsOf(s[1], s[2]) \cap C = {}
  <2> SUFFICES ASSUME NEW s \in kept, NEW b \in BitsOf(s[1], s[2]), b[1] \in Written(v),
                      s \notin promised
               PROVE  FALSE
    BY <1>3, <1>4
  <2>1. s \in Sayable /\ s = <<s[1], s[2]>> /\ s[1] \in WatchedPin
    BY <1>2 DEF ToldHolds, Sayable, kept
  <2>2. What(b) = s[2] /\ (b[1] # 1399 => Whose(b) = s[1])
    BY <2>1, OwnerOf
  <2>3. /\ b[1] # 1399
        /\ What(b) \in {"input", "output", "level", "strong", "gpio",
                                  "pull", "irq", "trigger"}
        /\ What(b) = "pull" => v
        /\ What(b) \in {"irq", "trigger"} => Whose(b)[1] \notin {GroupC, GroupE}
    BY WrittenMeans
  <2>4. s[2] = "pull" => s[1][1] # GroupE
    BY <2>1 DEF Sayable
  <2>5. s[2] = "trigger"
    <3>1. ~(\/ s[2] \in five
            \/ s[2] = "irq" /\ s[1][1] \notin {GroupC, GroupE}
            \/ s[2] = "pull" /\ v /\ s[1][1] # GroupE)
      BY <1>6, <2>1
    <3> QED
      BY <2>2, <2>3, <2>4, <3>1
  <2>6. s \in cleared \X {"trigger"}
    BY <2>1, <2>2, <2>3, <2>5 DEF cleared
  <2> QED
    BY <2>6 DEF kept
<1>13. ASSUME NEW p \in WatchedPin, NEW w, <<p, w>> \in promised
       PROVE  Is(p, w)' = Configured(p, w)
  <2>1. p \in Pin
    BY PinAssumption
  <2>0. \/ w \in five
        \/ w = "irq" /\ p[1] \notin {GroupC, GroupE}
        \/ w = "pull" /\ v /\ p[1] # GroupE
    <3> DEFINE s == <<p, w>>
    <3>1. s \in promised /\ s[1] = p /\ s[2] = w
      BY <1>13
    <3> HIDE DEF s, five
    <3> QED
      BY <1>5, <3>1
  <2> DEFINE inp == InputBit(p)
             oen == PinBit("oen", p)
             outp == PinBit("out", p)
             ds == StrengthBit(p)
             func == PinBit("func", p)
             irq == PinBit("irq_wakeup_en", p)
  <2>2. /\ What(inp) = "input" /\ What(oen) = "output" /\ What(outp) = "level"
           /\ What(ds) = "strong"
        /\ What(func) = "gpio" /\ What(irq) = "irq"
        /\ Whose(inp) = p /\ Whose(oen) = p /\ Whose(func) = p
    BY <2>1, BitMeans
  <2>3. /\ inp[1] \in Written(v) /\ oen[1] \in Written(v) /\ outp[1] \in Written(v)
        /\ ds[1] \in Written(v) /\ func[1] \in Written(v)
        /\ p[1] \notin {GroupC, GroupE} => irq[1] \in Written(v)
    BY <2>1, ConfiguredIsWritten
  <2>4. /\ p[2] \in Default(p).input => inp \in ConfiguredBits(v)
        /\ p \notin BoardOutput => oen \in ConfiguredBits(v)
        /\ ds \in ConfiguredBits(v)
        /\ p[2] \notin Default(p).func => func \in ConfiguredBits(v)
    BY <2>1 DEF ConfiguredBits
  <2>5. /\ Is(p, "input")' = (inp \in on') /\ Is(p, "level")' = (outp \in on')
        /\ Is(p, "strong")' = (ds \in on') /\ Is(p, "gpio")' = (func \in on')
    BY DEF Is, IrqKind
  <2>6. Is(p, "output")' = (oen \notin on') /\ Is(p, "irq")' = (irq \in on')
    BY DEF Is, IrqKind, IrqBit
  <2>7. /\ Configured(p, "input") = (p[2] \in Default(p).input)
        /\ Configured(p, "output") = (p \in BoardOutput)
        /\ Configured(p, "level") = FALSE
        /\ Configured(p, "strong") = TRUE
        /\ Configured(p, "gpio") = (p[2] \notin Default(p).func)
        /\ Configured(p, "irq") = FALSE
        /\ Configured(p, "pull") = DefaultPull(p)
    BY DEF Configured
  <2> HIDE DEF inp, oen, outp, ds, func, irq
  <2>8. \A b : b[1] \in Written(v) => (b \in on' <=> b \in ConfiguredBits(v))
    BY <1>1
  <2>9. CASE w = "input"
    <3>1. inp \in on' <=> p[2] \in Default(p).input
      BY <2>2, <2>3, <2>4, <2>8, ConfiguredMeans
    <3>2. (inp \in on') = (p[2] \in Default(p).input)
      BY <3>1
    <3> QED
      BY <2>5, <2>7, <2>9, <3>2
  <2>10. CASE w = "output"
    <3>1. oen \notin on' <=> p \in BoardOutput
      BY <2>2, <2>3, <2>4, <2>8, ConfiguredMeans
    <3>2. (oen \notin on') = (p \in BoardOutput)
      BY <3>1
    <3> QED
      BY <2>6, <2>7, <2>10, <3>2
  <2>11. CASE w = "level"
    <3>1. outp \notin on'
      BY <2>2, <2>3, <2>8, ConfiguredMeans
    <3>2. (outp \in on') = FALSE
      BY <3>1
    <3> QED
      BY <2>5, <2>7, <2>11, <3>2
  <2>12. CASE w = "strong"
    <3>1. ds \in on'
      BY <2>3, <2>4, <2>8
    <3>2. (ds \in on') = TRUE
      BY <3>1
    <3> QED
      BY <2>5, <2>7, <2>12, <3>2
  <2>13. CASE w = "gpio"
    <3>1. func \in on' <=> p[2] \notin Default(p).func
      BY <2>2, <2>3, <2>4, <2>8, ConfiguredMeans
    <3>2. (func \in on') = (p[2] \notin Default(p).func)
      BY <3>1
    <3> QED
      BY <2>5, <2>7, <2>13, <3>2
  <2>14. CASE w = "irq"
    <3>1. p[1] \notin {GroupC, GroupE}
      BY <2>0, <2>14
    <3>2. irq \notin on'
      BY <2>2, <2>3, <2>8, <3>1, ConfiguredMeans
    <3>3. (irq \in on') = FALSE
      BY <3>2
    <3> QED
      BY <2>6, <2>7, <2>14, <3>3
  <2>15. CASE w = "pull"
    <3>1. v = TRUE /\ p[1] # GroupE
      BY <2>0, <2>15
    <3>2. on' = {b \in on : b[1] \notin Written(TRUE)} \cup ConfiguredBits(TRUE)
      BY <1>1, <3>1
    <3>3. ValueOf(on', areg_pull(p), 2 * (p[2] % 4), 2) = DefaultPull(p)
      BY <2>1, <3>1, <3>2, ConfiguredPull
    <3>4. Is(p, "pull")' = ValueOf(on', areg_pull(p), 2 * (p[2] % 4), 2)
      BY DEF Is, IrqKind, PullOf
    <3> QED
      BY <2>7, <2>15, <3>3, <3>4
  <2> QED
    BY <2>9, <2>10, <2>11, <2>12, <2>13, <2>14, <2>15, <2>0
<1>14. \A s \in DOMAIN P : Is(s[1], s[2])' = P[s]
  <2> SUFFICES ASSUME NEW s \in promised PROVE Is(s[1], s[2])' = P[s]
    BY <1>4
  <2>1. s[1] \in WatchedPin /\ <<s[1], s[2]>> \in promised
    BY <1>5
  <2>2. Is(s[1], s[2])' = Configured(s[1], s[2])
    BY <1>13, <2>1
  <2> QED
    BY <1>4, <2>2
<1>15. \A s \in DOMAIN P : s[2] # "mux"
  BY <1>4, <1>5
<1>16. \A s \in DOMAIN old \ DOMAIN P : s[2] = "mux" =>
             /\ reg_gpio_func_mux(s[1]) \in DOMAIN mux'
             /\ mux'[reg_gpio_func_mux(s[1])] = mux[reg_gpio_func_mux(s[1])]
  BY <1>1, <1>2, <1>3 DEF ToldHolds, kept
<1>17. ToldHolds'
  <2>1. DOMAIN old \subseteq DOMAIN told /\ \A s \in DOMAIN old : old[s] = told[s]
    BY <1>3 DEF kept
  <2> HIDE DEF C
  <2> QED
    BY <1>1, <1>2, <1>9, <1>11, <1>12, <1>14, <1>15, <1>16, <2>1, ToldStep
<1> QED
  BY <1>10, <1>17 DEF PinInv

LEMMA TriggerStep ==
    ASSUME ToldHolds, NEW p \in CalledPin, NEW falling \in BOOLEAN, NEW level \in BOOLEAN,
           NEW base, on' = Trigger(base, p, falling, level),
           NEW changed, \A b : b \notin changed => (b \in base <=> b \in on),
           NEW promise, told' = Triggered(p, falling, level, promise), mux' = mux,
           DOMAIN promise \subseteq Sayable,
           \A s \in DOMAIN promise : s[2] \notin {"mux", "trigger"},
           \A b \in changed : What(b) = "nothing"
           \/ \E s \in DOMAIN promise : b \in BitsOf(s[1], s[2]),
           \A s \in DOMAIN promise : Is(s[1], s[2])' = promise[s]
    PROVE  ToldHolds' /\ OnlyIn(changed \cup {PinBit("pol", p), LevelBit(p)})
<1> DEFINE pol == PinBit("pol", p)
           lev == LevelBit(p)
           t == <<p, "trigger">>
           P == Onto(promise, Says(p, "trigger", <<falling, level>>))
           kept == DOMAIN told \ Disturbed(p)
           old == Restrict(told, kept)
           C == changed \cup {pol, lev}
<1>1. told' = Onto(P, old)
  BY DEF Triggered
<1>2. DOMAIN old = kept /\ \A s \in kept : old[s] = told[s]
  BY DEF Restrict
<1>3. p \in WatchedPin /\ p \in Pin
  BY Called
<1>4. t \in Sayable /\ t[1] = p /\ t[2] = "trigger"
  <2>1. "trigger" \in PinKind /\ "trigger" # "pull" /\ "trigger" # "pull30"
    BY DEF PinKind
  <2> QED
    BY <1>3, <2>1, CalledSays
<1>5. BitsOf(p, "trigger") = {pol, lev}
  BY DEF BitsOf, IrqKind
<1>6. pol # lev
  BY <1>3, FieldBit, FieldNames DEF LevelBit
<1>7. on' = With(With(base, pol, falling), lev, level)
  BY DEF Trigger
<1>8. DOMAIN P = DOMAIN promise \cup {t} /\ t \notin DOMAIN promise
  <2>1. DOMAIN P = DOMAIN promise \cup DOMAIN Says(p, "trigger", <<falling, level>>)
    BY DEF Onto
  <2> HIDE DEF P
  <2> QED
    BY <1>4, <2>1, SaysIs
<1>9. (\A s \in DOMAIN promise : P[s] = promise[s]) /\ P[t] = <<falling, level>>
  <2>1. \A s \in DOMAIN promise : P[s] = promise[s]
    BY DEF Onto
  <2>2. t \in DOMAIN Says(p, "trigger", <<falling, level>>)
        /\ Says(p, "trigger", <<falling, level>>)[t] = <<falling, level>>
    BY DEF Says
  <2>3. P[t] = <<falling, level>>
    BY <1>8, <2>2 DEF Onto
  <2> QED
    BY <2>1, <2>3
<1> HIDE DEF pol, lev, P, kept, old, t
<1>10. /\ pol \in on' <=> falling
       /\ lev \in on' <=> level
  BY <1>6, <1>7 DEF With
<1>11. OnlyIn(C)
  BY <1>7 DEF OnlyIn, With
<1>12. Is(p, "trigger")' = <<falling, level>>
  <2>1. Is(p, "trigger")' = <<pol \in on', lev \in on'>>
    BY DEF Is, IrqKind, pol, lev
  <2>2. (pol \in on') = falling /\ (lev \in on') = level
    BY <1>10
  <2> QED
    BY <2>1, <2>2
<1>13. \A s \in DOMAIN P : Is(s[1], s[2])' = P[s]
  BY <1>4, <1>8, <1>9, <1>12
<1>14. DOMAIN P \subseteq Sayable /\ \A s \in DOMAIN P : s[2] # "mux"
  BY <1>4, <1>8
<1>15. \A s \in DOMAIN old \ DOMAIN P : BitsOf(s[1], s[2]) \cap C = {}
  <2> SUFFICES ASSUME NEW s \in kept, s \notin DOMAIN promise, s # t,
                      NEW b \in BitsOf(s[1], s[2]), b \in changed \/ b \in BitsOf(t[1], t[2])
               PROVE  FALSE
    BY <1>2, <1>4, <1>5, <1>8
  <2>1. s \in Sayable /\ s \notin Disturbed(p)
    BY DEF ToldHolds, kept
  <2>2. s = <<s[1], s[2]>> /\ s[1] \in WatchedPin
    BY <2>1 DEF Sayable
  <2>3. CASE b \in changed
    <3>1. What(b) # "nothing"
      BY <2>1, PinBitsApart
    <3>2. PICK d \in DOMAIN promise : b \in BitsOf(d[1], d[2])
      BY <2>3, <3>1
    <3>3. d \in Sayable /\ s # d /\ d[2] # "trigger"
      BY <3>2
    <3> QED
      BY <2>1, <3>2, <3>3, BitsApart
  <2>4. CASE b \in BitsOf(t[1], t[2])
    <3>1. s[2] = "trigger" /\ s[1][2] = p[2]
      BY <1>4, <2>1, <2>4, BitsApart
    <3>2. s \in Disturbed(p)
      BY <2>2, <3>1 DEF Disturbed
    <3> QED
      BY <2>1, <3>2
  <2> QED
    BY <2>3, <2>4
<1>16. \A s \in DOMAIN old \ DOMAIN P : s[2] = "mux" =>
             /\ reg_gpio_func_mux(s[1]) \in DOMAIN mux'
             /\ mux'[reg_gpio_func_mux(s[1])] = mux[reg_gpio_func_mux(s[1])]
  BY <1>2 DEF ToldHolds, kept
<1>17. ToldHolds'
  <2>1. DOMAIN old \subseteq DOMAIN told /\ \A s \in DOMAIN old : old[s] = told[s]
    BY <1>2 DEF kept
  <2> HIDE DEF C
  <2> QED
    BY <1>1, <1>11, <1>13, <1>14, <1>15, <1>16, <2>1, ToldStep
<1> QED
  BY <1>11, <1>17 DEF pol, lev

LEMMA MaskStep ==
    ASSUME TimedHolds, NEW n \in {0, 1, 2, 15, 18, 21, 22}, NEW v,
           NEW changed, OnlyIn(changed),
           \A b \in changed : b[1] \notin TimerAddress \/ b = MaskBit(n),
           timed' = Onto(Says(n, "mask", v), timed), (MaskBit(n) \in on') = v
    PROVE  TimedHolds'
<1> DEFINE P == Says(n, "mask", v)
           m == <<n, "mask">>
<1>1. DOMAIN P = {m} /\ P[m] = v /\ m[1] = n /\ m[2] = "mask"
  BY SaysIs
<1>2. m \in TimerSayable
  BY DEF TimerSayable
<1>3. TimerIs(n, "mask")' = v
  <2>1. (MaskBit(n) \in on') = v
    OBVIOUS
  <2>2. TimerIs(n, "mask")' = (MaskBit(n) \in on')
    BY DEF TimerIs
  <2> QED
    BY <2>1, <2>2
<1>4. timed' = Onto(P, timed)
  OBVIOUS
<1> HIDE DEF P
<1>5. ASSUME NEW s \in DOMAIN timed \ DOMAIN P PROVE TimerBits(s[1], s[2]) \cap changed = {}
  <2> SUFFICES ASSUME NEW b \in TimerBits(s[1], s[2]), b \in changed PROVE FALSE
    OBVIOUS
  <2>1. s \in TimerSayable /\ s # m
    BY <1>1 DEF TimedHolds
  <2>2. b[1] \in TimerAddress
    BY <2>1, TimerBitsAre
  <2>3. b = <<1600, n>>
    BY <2>2 DEF MaskBit
  <2>4. s = m
    BY <2>1, <2>3 DEF TimerSayable, TimerBits, EnableBit, ModeBits, WdEnableBit, MaskBit, reg_tmr_ctrl
  <2> QED
    BY <2>1, <2>4
<1>6. \A s \in DOMAIN P : TimerIs(s[1], s[2])' = P[s]
  BY <1>1, <1>3
<1> QED
  BY <1>1, <1>2, <1>4, <1>5, <1>6, TimedStep

LEMMA set_interrupt_Step ==
    ASSUME PinInv, NEW p \in CalledPin, NEW k \in {"irq", "risc0", "risc1"},
           NEW falling \in BOOLEAN, gpio_set_interrupt(k, p, falling)
    PROVE  PinInv'
<1> DEFINE n == FLD_IRQ_GPIO[k]
           ib == IrqBit(k, p)
           mb == MaskBit(n)
           pol == PinBit("pol", p)
           lev == LevelBit(p)
           core == IF k = "irq" THEN {CoreInterruptBit} ELSE {}
           base == on \cup {ib, mb} \cup core
           changed == {ib, mb, CoreInterruptBit}
           P == Says(p, k, TRUE)
           s0 == <<p, k>>
<1>1. /\ on' = Trigger(base, p, falling, FALSE)
      /\ told' = Triggered(p, falling, FALSE, P)
      /\ timed' = Onto(Says(n, "mask", TRUE), timed)
      /\ mux' = mux
  BY DEF gpio_set_interrupt
<1>2. n \in {18, 21, 22} /\ What(mb) = "nothing" /\ What(CoreInterruptBit) = "nothing"
      /\ CoreInterruptBit[1] \notin TimerAddress /\ mb[1] = 1600 /\ CoreInterruptBit # mb
  BY DEF FLD_IRQ_GPIO, MaskBit, What, CoreInterruptBit, TimerAddress
<1>3. DOMAIN P = {s0} /\ P[s0] = TRUE /\ s0[1] = p /\ s0[2] = k
  BY SaysIs
<1>4. k \in PinKind /\ k \notin {"mux", "trigger", "pull", "pull30"} /\ k \in IrqKind
  BY DEF PinKind, IrqKind
<1>5. s0 \in Sayable
  BY <1>4, Called, CalledSays
<1>6. BitsOf(p, k) = {ib}
  BY DEF BitsOf, IrqKind
<1>7. BitsOf(p, "trigger") = {pol, lev} /\ <<p, "trigger">> \in Sayable
  <2>1. "trigger" \in PinKind /\ "trigger" # "pull" /\ "trigger" # "pull30"
    BY DEF PinKind
  <2> QED
    BY <2>1, Called, CalledSays DEF BitsOf, IrqKind
<1>8. /\ What(ib) = k /\ ib[1] \notin TimerAddress
      /\ What(pol) = "trigger" /\ pol[1] \notin TimerAddress
      /\ What(lev) = "trigger" /\ lev[1] \notin TimerAddress
  <2> DEFINE tr == <<p, "trigger">>
  <2>1. tr[1] = p /\ tr[2] = "trigger" /\ tr \in Sayable
    BY <1>7
  <2> HIDE DEF tr, s0, ib, pol, lev
  <2> QED
    BY <1>3, <1>5, <1>6, <1>7, <2>1, OwnerOf, PinBitsApart
<1> HIDE DEF n, ib, mb, pol, lev, P, s0
<1>9. Is(p, k)' = TRUE
  <2>1. ib # pol /\ ib # lev
    BY <1>4, <1>8
  <2>2. on' = With(With(base, pol, falling), lev, FALSE)
    BY <1>1 DEF Trigger, pol, lev
  <2>3. ib \in on'
    BY <2>1, <2>2 DEF With
  <2>4. (ib \in on') = TRUE
    BY <2>3
  <2>5. Is(p, k)' = (ib \in on')
    BY DEF Is, IrqKind, ib
  <2> QED
    BY <2>4, <2>5
<1>10. ToldHolds /\ TimedHolds
  BY DEF PinInv
<1>11. \A b \in changed : What(b) = "nothing" \/ \E s \in DOMAIN P : b \in BitsOf(s[1], s[2])
  BY <1>2, <1>3, <1>6
<1>12. \A b : b \notin changed => (b \in base <=> b \in on)
  OBVIOUS
<1>13. /\ DOMAIN P \subseteq Sayable /\ \A s \in DOMAIN P : s[2] \notin {"mux", "trigger"}
       /\ \A s \in DOMAIN P : Is(s[1], s[2])' = P[s]
  BY <1>3, <1>4, <1>5, <1>9
<1>14. ToldHolds' /\ OnlyIn(changed \cup {PinBit("pol", p), LevelBit(p)})
  <2> HIDE DEF changed, base
  <2> QED
    BY <1>1, <1>10, <1>11, <1>12, <1>13, TriggerStep
<1>15. TimedHolds'
  <2> DEFINE C == changed \cup {pol, lev}
  <2>1. OnlyIn(C)
    BY <1>14 DEF pol, lev
  <2>2. \A b \in C : b[1] \notin TimerAddress \/ b = MaskBit(n)
    BY <1>2, <1>8 DEF mb
  <2>3. (MaskBit(n) \in on') = TRUE
    <3>1. mb # pol /\ mb # lev
      BY <1>2, <1>8
    <3>2. on' = With(With(base, pol, falling), lev, FALSE)
      BY <1>1 DEF Trigger, pol, lev
    <3>3. mb \in on'
      BY <3>1, <3>2 DEF With
    <3> QED
      BY <3>3 DEF mb
  <2>4. n \in {0, 1, 2, 15, 18, 21, 22}
    BY <1>2
  <2> HIDE DEF C
  <2> QED
    BY <1>1, <1>10, <2>1, <2>2, <2>3, <2>4, MaskStep
<1> QED
  BY <1>14, <1>15 DEF PinInv

LEMMA TriggerBits ==
    ASSUME NEW p \in CalledPin
    PROVE  /\ What(PinBit("pol", p)) = "trigger" /\ PinBit("pol", p)[1] \notin TimerAddress
           /\ What(LevelBit(p)) = "trigger" /\ LevelBit(p)[1] \notin TimerAddress
<1> DEFINE t == <<p, "trigger">>
<1>1. t[1] = p /\ t[2] = "trigger"
  OBVIOUS
<1>2. t \in Sayable
  <2>1. "trigger" \in PinKind /\ "trigger" # "pull" /\ "trigger" # "pull30"
    BY DEF PinKind
  <2> QED
    BY <2>1, Called, CalledSays
<1>3. PinBit("pol", p) \in BitsOf(t[1], t[2]) /\ LevelBit(p) \in BitsOf(t[1], t[2])
  BY DEF BitsOf, IrqKind
<1> HIDE DEF t
<1> QED
  BY <1>1, <1>2, <1>3, OwnerOf, PinBitsApart

LEMMA set_src_irq_Step ==
    ASSUME PinInv, NEW p \in CalledPin, NEW falling \in BOOLEAN, NEW level \in BOOLEAN,
           gpio_set_src_irq(p, falling, level)
    PROVE  PinInv'
<1> DEFINE n == FLD_IRQ_GPIO["pad"]
           mb == MaskBit(n)
           pad == PadMaskBit(p)
           pol == PinBit("pol", p)
           lev == LevelBit(p)
           changed == {pad, mb}
           base == on \cup changed
           P == NoneYet
<1>1. /\ on' = Trigger(base, p, falling, level)
      /\ told' = Triggered(p, falling, level, P)
      /\ timed' = Onto(Says(n, "mask", TRUE), timed)
      /\ mux' = mux
  BY DEF gpio_set_src_irq
<1>2. /\ n \in {0, 1, 2, 15, 18, 21, 22} /\ What(mb) = "nothing" /\ What(pad) = "nothing"
      /\ pad[1] \notin TimerAddress
  BY DEF FLD_IRQ_GPIO, MaskBit, What, PadMaskBit, TimerAddress
<1>3. DOMAIN P = {}
  BY NoneYetIs
<1>4. /\ What(pol) = "trigger" /\ pol[1] \notin TimerAddress
      /\ What(lev) = "trigger" /\ lev[1] \notin TimerAddress
  BY TriggerBits
<1> HIDE DEF n, mb, pad, pol, lev, P
<1>5. ToldHolds /\ TimedHolds
  BY DEF PinInv
<1>6. \A b \in changed : What(b) = "nothing" \/ \E s \in DOMAIN P : b \in BitsOf(s[1], s[2])
  BY <1>2
<1>7. \A b : b \notin changed => (b \in base <=> b \in on)
  OBVIOUS
<1>8. /\ DOMAIN P \subseteq Sayable /\ \A s \in DOMAIN P : s[2] \notin {"mux", "trigger"}
      /\ \A s \in DOMAIN P : Is(s[1], s[2])' = P[s]
  BY <1>3
<1>9. ToldHolds' /\ OnlyIn(changed \cup {PinBit("pol", p), LevelBit(p)})
  <2> HIDE DEF changed, base
  <2> QED
    BY <1>1, <1>5, <1>6, <1>7, <1>8, TriggerStep
<1>10. TimedHolds'
  <2> DEFINE C == changed \cup {pol, lev}
  <2>1. OnlyIn(C)
    BY <1>9 DEF pol, lev
  <2>2. \A b \in C : b[1] \notin TimerAddress \/ b = MaskBit(n)
    BY <1>2, <1>4 DEF mb
  <2>3. (MaskBit(n) \in on') = TRUE
    <3>1. mb # pol /\ mb # lev
      BY <1>2, <1>4
    <3>2. on' = With(With(base, pol, falling), lev, level)
      BY <1>1 DEF Trigger, pol, lev
    <3>3. mb \in on'
      BY <3>1, <3>2 DEF With
    <3> QED
      BY <3>3 DEF mb
  <2> HIDE DEF C
  <2> QED
    BY <1>1, <1>2, <1>5, <2>1, <2>2, <2>3, MaskStep
<1> QED
  BY <1>9, <1>10 DEF PinInv

LEMMA irq_mask_Step ==
    ASSUME PinInv, NEW k \in {"irq", "risc0", "risc1", "pad"}, NEW v \in BOOLEAN, gpio_irq_mask(k, v)
    PROVE  PinInv'
<1> DEFINE n == FLD_IRQ_GPIO[k]
           mb == MaskBit(n)
           C == {mb}
<1>1. /\ on' = With(on, mb, v) /\ timed' = Onto(Says(n, "mask", v), timed)
      /\ told' = told /\ mux' = mux
  BY DEF gpio_irq_mask
<1>2. n \in {0, 1, 2, 15, 18, 21, 22} /\ What(mb) = "nothing"
  BY DEF FLD_IRQ_GPIO, MaskBit, What
<1>3. mb = MaskBit(n)
  OBVIOUS
<1> HIDE DEF n, mb
<1>4. OnlyIn(C) /\ \A b \in C : b[1] \notin TimerAddress \/ b = MaskBit(n)
  BY <1>1, <1>3 DEF OnlyIn, With
<1>5. (MaskBit(n) \in on') = v
  BY <1>1, <1>3 DEF With
<1>6. \A b \in C : What(b) = "nothing"
  BY <1>2
<1> HIDE DEF C
<1>7. TimedHolds'
  BY <1>1, <1>2, <1>4, <1>5, MaskStep DEF PinInv
<1>8. ToldHolds'
  BY <1>1, <1>4, <1>6, ToldSame DEF PinInv
<1> QED
  BY <1>7, <1>8 DEF PinInv

(* A step that leaves the registers alone. *)
LEMMA NothingStep ==
    ASSUME PinInv, UNCHANGED <<on, mux, told, timed>>
    PROVE  PinInv'
<1> DEFINE C == {}
<1>1. OnlyIn(C)
  BY DEF OnlyIn
<1>2. TimedHolds' /\ ToldHolds'
  <2>1. (\A b \in C : b[1] \notin TimerAddress) /\ (\A b \in C : What(b) = "nothing")
    OBVIOUS
  <2>2. told' = told /\ mux' = mux /\ timed' = timed
    OBVIOUS
  <2> HIDE DEF C
  <2> QED
    BY <1>1, <2>1, <2>2, TimedSame, ToldSame DEF PinInv
<1> QED
  BY <1>2 DEF PinInv

LEMMA usb_set_pin_en_Step ==
    ASSUME PinInv, usb_set_pin_en
    PROVE  PinInv'
<1> DEFINE pins == UsbPin
           kinds == {"gpio", "mux", "input"}
           regs == {reg_gpio_func_mux(p) : p \in pins}
           D == pins \X kinds
           P == [s \in D |-> CASE s[2] = "gpio" -> FALSE [] s[2] = "mux" -> 0 [] OTHER -> TRUE]
           C == {PinBit("func", p) : p \in pins} \cup {InputBit(p) : p \in pins}
                 \cup {DpPullUpBit}
<1>1. /\ on' = (on \ {PinBit("func", p) : p \in pins}) \cup {InputBit(p) : p \in pins} \cup {DpPullUpBit}
      /\ mux' = Onto([m \in regs |-> 0], mux)
      /\ told' = Onto(P, told) /\ timed' = timed
  BY DEF usb_set_pin_en
<1>2. pins \subseteq WatchedPin /\ pins \subseteq Pin
  BY PinAssumption
<1>3. ToldHolds /\ TimedHolds
  BY DEF PinInv
<1>4. What(DpPullUpBit) = "nothing" /\ DpPullUpBit[1] \notin TimerAddress
  BY DEF DpPullUpBit, Areg, What, TimerAddress
<1>5. OnlyIn(C)
  BY <1>1 DEF OnlyIn
<1>6. \A s \in D : s[1] \in pins /\ s[2] \in kinds /\ s = <<s[1], s[2]>>
  OBVIOUS
<1>7. \A p \in pins, w \in kinds : <<p, w>> \in D
  OBVIOUS
<1>8. \A p : BitsOf(p, "gpio") = {PinBit("func", p)} /\ BitsOf(p, "input") = {InputBit(p)}
      /\ BitsOf(p, "mux") = {}
  BY DEF BitsOf, IrqKind
<1>9. \A s \in D : P[s] = IF s[2] = "gpio" THEN FALSE ELSE IF s[2] = "mux" THEN 0 ELSE TRUE
  BY <1>6
<1>10. DOMAIN P = D
  OBVIOUS
<1>11. kinds \subseteq PinKind /\ \A w \in kinds : w \notin {"pull", "pull30", "trigger"}
  BY DEF PinKind
<1>12. \A b \in C : b = DpPullUpBit \/ \E p \in pins : b = PinBit("func", p) \/ b = InputBit(p)
  OBVIOUS
<1>13. \A x : x \in regs <=> \E p \in pins : x = reg_gpio_func_mux(p)
  OBVIOUS
<1>14. /\ \A x \in DOMAIN mux : x \in DOMAIN mux' /\ (x \notin regs => mux'[x] = mux[x])
       /\ \A x \in regs : x \in DOMAIN mux' /\ mux'[x] = 0
  <2> HIDE DEF regs
  <2> QED
    BY <1>1 DEF Onto
<1> HIDE DEF regs, D, P
<1>15. D \subseteq Sayable
  <2> SUFFICES ASSUME NEW s \in D PROVE s \in Sayable
    OBVIOUS
  <2>1. s[1] \in WatchedPin /\ s[2] \in PinKind /\ s[2] # "pull" /\ s[2] # "pull30"
        /\ s = <<s[1], s[2]>>
    <3> HIDE DEF pins, kinds
    <3> QED
      BY <1>2, <1>6, <1>11
  <2> QED
    BY <2>1, CalledSays
<1>16. ASSUME NEW b \in C, b # DpPullUpBit
       PROVE  \E s \in D : b \in BitsOf(s[1], s[2]) /\ s[2] # "trigger"
  <2> HIDE DEF C
  <2>1. PICK p \in pins : b = PinBit("func", p) \/ b = InputBit(p)
    BY <1>12, <1>16
  <2>2. CASE b = PinBit("func", p)
    <3> DEFINE s == <<p, "gpio">>
    <3>1. s \in D /\ s[1] = p /\ s[2] = "gpio"
      BY <1>7
    <3> HIDE DEF s
    <3> QED
      BY <1>8, <2>2, <3>1
  <2>3. CASE b = InputBit(p)
    <3> DEFINE s == <<p, "input">>
    <3>1. s \in D /\ s[1] = p /\ s[2] = "input"
      BY <1>7
    <3> HIDE DEF s
    <3> QED
      BY <1>8, <2>3, <3>1
  <2> QED
    BY <2>1, <2>2, <2>3
<1>17. TimedHolds'
  <2>1. \A b \in C : b[1] \notin TimerAddress
    <3> SUFFICES ASSUME NEW b \in C PROVE b[1] \notin TimerAddress
      OBVIOUS
    <3> HIDE DEF C
    <3>1. CASE b = DpPullUpBit
      BY <1>4, <3>1
    <3>2. CASE b # DpPullUpBit
      BY <1>15, <1>16, <3>2, PinBitsApart
    <3> QED
      BY <3>1, <3>2
  <2> HIDE DEF C
  <2> QED
    BY <1>1, <1>3, <1>5, <2>1, TimedSame
<1>18. ASSUME NEW p \in pins PROVE Is(p, "gpio")' = FALSE /\ Is(p, "input")' = TRUE
         /\ Is(p, "mux")' = 0
  <2>1. p \in Pin
    BY <1>2
  <2>2. What(PinBit("func", p)) = "gpio" /\ \A q \in pins : What(InputBit(q)) = "input"
    BY <1>2, <2>1, BitMeans
  <2>3. PinBit("func", p) \notin on' /\ InputBit(p) \in on'
    <3>1. \A q \in pins : PinBit("func", p) # InputBit(q)
      BY <2>2
    <3>2. PinBit("func", p) # DpPullUpBit
      BY <1>4, <2>2
    <3> HIDE DEF pins
    <3> QED
      BY <1>1, <3>1, <3>2
  <2>4. Is(p, "gpio")' = (PinBit("func", p) \in on') /\ Is(p, "input")' = (InputBit(p) \in on')
        /\ Is(p, "mux")' = mux'[reg_gpio_func_mux(p)]
    BY DEF Is, IrqKind
  <2>5. (PinBit("func", p) \in on') = FALSE /\ (InputBit(p) \in on') = TRUE
    BY <2>3
  <2>6. mux'[reg_gpio_func_mux(p)] = 0
    BY <1>13, <1>14
  <2> QED
    BY <2>4, <2>5, <2>6
<1>19. \A s \in D : Is(s[1], s[2])' = P[s]
  <2> SUFFICES ASSUME NEW s \in D PROVE Is(s[1], s[2])' = P[s]
    OBVIOUS
  <2>1. s[1] \in pins /\ s[2] \in kinds
    BY <1>6
  <2>2. P[s] = IF s[2] = "gpio" THEN FALSE ELSE IF s[2] = "mux" THEN 0 ELSE TRUE
    BY <1>9
  <2> HIDE DEF pins
  <2>3. CASE s[2] = "gpio"
    BY <1>18, <2>1, <2>2, <2>3
  <2>4. CASE s[2] = "mux"
    BY <1>18, <2>1, <2>2, <2>4
  <2>5. CASE s[2] = "input"
    BY <1>18, <2>1, <2>2, <2>5
  <2> QED
    BY <2>1, <2>3, <2>4, <2>5
<1>20. \A s \in DOMAIN told \ DOMAIN P : BitsOf(s[1], s[2]) \cap C = {}
  <2> SUFFICES ASSUME NEW s \in DOMAIN told, s \notin D, NEW b \in BitsOf(s[1], s[2]), b \in C
               PROVE  FALSE
    BY <1>10
  <2> HIDE DEF C
  <2>1. s \in Sayable
    BY <1>3 DEF ToldHolds
  <2>2. b # DpPullUpBit
    BY <1>4, <2>1, PinBitsApart
  <2>3. PICK d \in D : b \in BitsOf(d[1], d[2]) /\ d[2] # "trigger"
    BY <1>16, <2>2
  <2> QED
    BY <1>15, <2>1, <2>3, BitsApart
<1>21. \A s \in DOMAIN P : s[2] = "mux" => reg_gpio_func_mux(s[1]) \in DOMAIN mux'
  BY <1>6, <1>10, <1>13, <1>14
<1>22. ASSUME NEW s \in DOMAIN told \ DOMAIN P, s[2] = "mux"
       PROVE  /\ reg_gpio_func_mux(s[1]) \in DOMAIN mux'
              /\ mux'[reg_gpio_func_mux(s[1])] = mux[reg_gpio_func_mux(s[1])]
  <2>1. s \in Sayable /\ reg_gpio_func_mux(s[1]) \in DOMAIN mux
    BY <1>3, <1>22 DEF ToldHolds
  <2>2. s = <<s[1], s[2]>> /\ s[1] \in Pin
    BY <2>1, PinAssumption DEF Sayable
  <2>3. s[1] \notin pins
    BY <1>7, <1>10, <1>22, <2>2
  <2>4. reg_gpio_func_mux(s[1]) \notin regs
    <3> HIDE DEF pins
    <3> QED
      BY <1>2, <1>13, <2>2, <2>3, MuxApart
  <2> QED
    BY <1>14, <2>1, <2>4
<1>23. ToldHolds'
  <2>1. \A s \in DOMAIN told : told[s] = told[s]
    OBVIOUS
  <2> HIDE DEF C
  <2> QED
    BY <1>1, <1>3, <1>5, <1>10, <1>15, <1>19, <1>20, <1>21, <1>22, <2>1, ToldStep
<1> QED
  BY <1>17, <1>23 DEF PinInv

LEMMA timer_gpio_init_Step ==
    ASSUME PinInv, NEW p \in CalledPin, NEW t \in 0 .. 2, NEW falling \in BOOLEAN,
           timer_gpio_init(t, p, falling)
    PROVE  PinInv'
<1> DEFINE kind == <<"risc0", "risc1", "risc2">>[t + 1]
           pull == IF falling THEN PM_PIN_PULLUP_10K ELSE PM_PIN_PULLDOWN_100K
           oen == PinBit("oen", p)
           irq == IrqBit(kind, p)
           inp == InputBit(p)
           func == PinBit("func", p)
           pol == PinBit("pol", p)
           lev == LevelBit(p)
           set == on \cup {oen, irq, inp, func}
           base == Resistor(set, areg_pull(p), p, pull)
           kinds == {"output", kind, "input", "pull", "gpio"}
           P == [s \in {p} \X kinds |->
                   CASE s[2] = "output" -> FALSE [] s[2] = "pull" -> pull [] OTHER -> TRUE]
           changed == {oen, irq, inp, func} \cup PullBits(p)
<1>1. p[1] # GroupE /\ p \in Pin /\ p \in WatchedPin
  BY Called DEF timer_gpio_init
<1>2. /\ on' = Trigger(base, p, falling, FALSE)
      /\ told' = Triggered(p, falling, FALSE, P)
      /\ mux' = mux /\ timed' = timed
  <2>1. on' = Trigger(Resistor(set, base_ana_reg(p), p, pull), p, falling, FALSE)
    BY DEF timer_gpio_init
  <2>2. base_ana_reg(p) = areg_pull(p)
    BY <1>1, BaseIsPull
  <2>3. told' = Triggered(p, falling, FALSE, P) /\ mux' = mux /\ timed' = timed
    BY DEF timer_gpio_init
  <2> HIDE DEF set, P, pull
  <2> QED
    BY <2>1, <2>2, <2>3
<1>3. kind \in {"risc0", "risc1", "risc2"} /\ pull \in 0 .. 3
  BY DEF PM_PIN_PULLUP_10K, PM_PIN_PULLDOWN_100K
<1>4. /\ BitsOf(p, "output") = {oen} /\ BitsOf(p, "input") = {inp} /\ BitsOf(p, "gpio") = {func}
      /\ BitsOf(p, "pull") = PullBits(p)
  BY DEF BitsOf, IrqKind
<1>5. BitsOf(p, kind) = {irq}
  <2> HIDE DEF kind
  <2> QED
    BY <1>3 DEF BitsOf, IrqKind
<1> HIDE DEF kind, pull, oen, irq, inp, func, pol, lev
<1>6. /\ kinds \subseteq PinKind
      /\ \A w \in kinds : w \notin {"mux", "trigger", "pull30"}
      /\ kind # "output" /\ kind # "pull" /\ kind # "input" /\ kind # "gpio"
  BY <1>3 DEF PinKind, IrqKind
<1>7. /\ \A s \in {p} \X kinds : s[1] = p /\ s[2] \in kinds /\ s = <<p, s[2]>>
      /\ \A w \in kinds : <<p, w>> \in {p} \X kinds
  OBVIOUS
<1>8. \A s \in {p} \X kinds :
        P[s] = IF s[2] = "output" THEN FALSE ELSE IF s[2] = "pull" THEN pull ELSE TRUE
  BY <1>7
<1>9. DOMAIN P = {p} \X kinds
  OBVIOUS
<1> HIDE DEF P, kinds
<1>10. DOMAIN P \subseteq Sayable
  <2> SUFFICES ASSUME NEW s \in {p} \X kinds PROVE s \in Sayable
    BY <1>9
  <2>1. s = <<p, s[2]>> /\ s[2] \in PinKind /\ s[2] # "pull30"
    BY <1>6, <1>7
  <2> QED
    BY <1>1, <2>1, CalledSays
<1>11. /\ What(oen) = "output" /\ What(irq) = kind /\ What(inp) = "input" /\ What(func) = "gpio"
       /\ What(pol) = "trigger" /\ What(lev) = "trigger"
       /\ \A b \in PullBits(p) : What(b) = "pull"
       /\ \A b \in changed : b[1] \notin TimerAddress
       /\ pol[1] \notin TimerAddress /\ lev[1] \notin TimerAddress
  <2>1. ASSUME NEW w \in kinds, NEW b \in BitsOf(p, w)
        PROVE  What(b) = w /\ b[1] \notin TimerAddress
    <3> DEFINE s == <<p, w>>
    <3>1. s \in Sayable /\ s[1] = p /\ s[2] = w
      BY <1>7, <1>9, <1>10
    <3> HIDE DEF s
    <3> QED
      BY <3>1, <2>1, OwnerOf, PinBitsApart
  <2>2. What(pol) = "trigger" /\ What(lev) = "trigger" /\ pol[1] \notin TimerAddress
        /\ lev[1] \notin TimerAddress
    BY TriggerBits DEF pol, lev
  <2>3. kind \in kinds /\ "output" \in kinds /\ "input" \in kinds /\ "pull" \in kinds
        /\ "gpio" \in kinds
    BY DEF kinds
  <2> QED
    BY <1>4, <1>5, <2>1, <2>2, <2>3
<1>12. /\ ValueOf(base, areg_pull(p), 2 * (p[2] % 4), 2) = pull
       /\ \A b : b \notin PullBits(p) => (b \in base <=> b \in set)
  BY <1>1, <1>3, Resisted
<1> HIDE DEF base
<1>13. on' = With(With(base, pol, falling), lev, FALSE)
  BY <1>2 DEF Trigger, pol, lev
<1>14. \A b : What(b) # "trigger" => (b \in on' <=> b \in base)
  BY <1>11, <1>13 DEF With
<1>15. oen \in on' /\ irq \in on' /\ inp \in on' /\ func \in on'
  <2>1. oen \in base /\ irq \in base /\ inp \in base /\ func \in base
    BY <1>6, <1>11, <1>12
  <2> QED
    BY <1>6, <1>11, <1>14, <2>1 DEF kinds
<1>16. ValueOf(on', areg_pull(p), 2 * (p[2] % 4), 2) = pull
  <2> DEFINE n == 2 * (p[2] % 4)
             a == areg_pull(p)
  <2>1. n \in Nat /\ PullBits(p) = {<<a, n>>, <<a, n + 1>>}
    BY <1>1, PinIs DEF PullBits
  <2>2. ValueOf(base, a, n, 2) = pull
    BY <1>12
  <2> HIDE DEF n, a
  <2>3. /\ <<a, n>> \in on' <=> <<a, n>> \in base
        /\ <<a, n + 1>> \in on' <=> <<a, n + 1>> \in base
    BY <1>11, <1>14, <2>1
  <2>4. ValueOf(on', a, n, 2) = ValueOf(base, a, n, 2)
    BY <2>1, <2>3, ValueOfTwo
  <2> QED
    BY <2>2, <2>4 DEF n, a
<1>17. \A s \in DOMAIN P : Is(s[1], s[2])' = P[s]
  <2> SUFFICES ASSUME NEW s \in {p} \X kinds PROVE Is(s[1], s[2])' = P[s]
    BY <1>9
  <2>1. s[1] = p /\ s[2] \in {"output", kind, "input", "pull", "gpio"}
    BY <1>7 DEF kinds
  <2>2. Is(p, "output")' = (oen \notin on') /\ Is(p, "input")' = (inp \in on')
        /\ Is(p, "gpio")' = (func \in on')
    BY DEF Is, IrqKind, oen, inp, func
  <2>3. Is(p, kind)' = (irq \in on')
    BY <1>3 DEF Is, IrqKind, irq
  <2>4. Is(p, "pull")' = pull
    BY <1>16 DEF Is, IrqKind, PullOf
  <2>5. /\ (oen \notin on') = FALSE /\ (inp \in on') = TRUE /\ (func \in on') = TRUE
        /\ (irq \in on') = TRUE
    BY <1>15
  <2>6. P[s] = IF s[2] = "output" THEN FALSE ELSE IF s[2] = "pull" THEN pull ELSE TRUE
    BY <1>8
  <2>7. CASE s[2] = "output"
    BY <2>1, <2>2, <2>5, <2>6, <2>7
  <2>8. CASE s[2] = "pull"
    BY <2>1, <2>4, <2>6, <2>8
  <2>9. CASE s[2] = "input"
    BY <2>1, <2>2, <2>5, <2>6, <2>9
  <2>10. CASE s[2] = "gpio"
    BY <2>1, <2>2, <2>5, <2>6, <2>10
  <2>11. CASE s[2] = kind
    BY <1>6, <2>1, <2>3, <2>5, <2>6, <2>11
  <2> QED
    BY <2>1, <2>7, <2>8, <2>9, <2>10, <2>11
<1>18. ASSUME NEW b \in changed PROVE \E s \in DOMAIN P : b \in BitsOf(s[1], s[2])
  <2>1. ASSUME NEW w \in kinds, b \in BitsOf(p, w)
          PROVE \E s \in DOMAIN P : b \in BitsOf(s[1], s[2])
    <3> DEFINE s == <<p, w>>
    <3>1. s \in DOMAIN P /\ s[1] = p /\ s[2] = w
      BY <1>7, <1>9
    <3> HIDE DEF s
    <3> QED
      BY <2>1, <3>1
  <2>2. kind \in kinds /\ "output" \in kinds /\ "input" \in kinds /\ "pull" \in kinds
        /\ "gpio" \in kinds
    BY DEF kinds
  <2> QED
    BY <1>4, <1>5, <2>1, <2>2
<1>19. \A b : b \notin changed => (b \in base <=> b \in on)
  BY <1>12
<1>20. \A s \in DOMAIN P : s[2] \notin {"mux", "trigger"}
  BY <1>6, <1>7, <1>9
<1> HIDE DEF changed
<1>21. ToldHolds' /\ OnlyIn(changed \cup {PinBit("pol", p), LevelBit(p)})
  <2>1. ToldHolds
    BY DEF PinInv
  <2> QED
    BY <1>2, <1>10, <1>17, <1>18, <1>19, <1>20, <2>1, TriggerStep
<1>22. TimedHolds'
  <2> DEFINE C == changed \cup {pol, lev}
  <2>1. OnlyIn(C)
    BY <1>21 DEF pol, lev
  <2>2. \A b \in C : b[1] \notin TimerAddress
    BY <1>11
  <2> HIDE DEF C
  <2> QED
    BY <1>2, <2>1, <2>2, TimedSame DEF PinInv
<1> QED
  BY <1>21, <1>22 DEF PinInv

LEMMA TimerCallStep ==
    ASSUME PinInv, NEW bits, NEW P, TimerCall(bits, P), NEW changed, OnlyIn(changed),
           \A b \in changed : b[1] \in TimerAddress,
           DOMAIN P \subseteq TimerSayable,
           \A s \in DOMAIN P : TimerIs(s[1], s[2])' = P[s],
           \A s \in TimerSayable \ DOMAIN P : TimerBits(s[1], s[2]) \cap changed = {}
    PROVE  PinInv'
<1>1. told' = told /\ mux' = mux /\ timed' = Onto(P, timed)
  BY DEF TimerCall
<1>2. \A b \in changed : What(b) = "nothing"
  BY DEF What, TimerAddress
<1>3. ToldHolds'
  BY <1>1, <1>2, ToldSame DEF PinInv
<1>4. TimedHolds /\ DOMAIN timed \subseteq TimerSayable
  BY DEF PinInv, TimedHolds
<1>5. TimedHolds'
  BY <1>1, <1>4, TimedStep
<1> QED
  BY <1>3, <1>5 DEF PinInv

LEMMA timer_set_mode_Step ==
    ASSUME PinInv, NEW t \in 0 .. 2, NEW mode \in 0 .. 3, timer_set_mode(t, mode)
    PROVE  PinInv'
<1> DEFINE n == 3 * t + 1
           H == Holding(reg_tmr_ctrl, n, 2, mode)
           bits == (on \ ModeBits(t)) \cup H \cup {MaskBit(t)}
           P == Onto(Says(t, "mode", mode), Says(t, "mask", TRUE))
           C == ModeBits(t) \cup {MaskBit(t)}
           sm == <<t, "mode">>
           sk == <<t, "mask">>
<1>1. TimerCall(bits, P) /\ on' = bits
  BY DEF timer_set_mode, TimerCall
<1>2. n \in Nat /\ ModeBits(t) = {<<reg_tmr_ctrl, n>>, <<reg_tmr_ctrl, n + 1>>}
  BY DEF ModeBits
<1>3. \A b \in C : b[1] \in TimerAddress
  BY DEF ModeBits, MaskBit, reg_tmr_ctrl, TimerAddress
<1>4. /\ sm \in TimerSayable /\ sk \in TimerSayable /\ sm # sk
      /\ sm[1] = t /\ sm[2] = "mode" /\ sk[1] = t /\ sk[2] = "mask"
  BY DEF TimerSayable
<1>5. DOMAIN P = {sm, sk} /\ P[sm] = mode /\ P[sk] = TRUE
  BY DEF Onto, Says
<1>6. ASSUME NEW s \in TimerSayable, s \notin {sm, sk} PROVE TimerBits(s[1], s[2]) \cap C = {}
  BY <1>6 DEF TimerSayable, TimerBits, EnableBit, ModeBits, WdEnableBit, MaskBit, reg_tmr_ctrl
<1>7. MaskBit(t) \notin ModeBits(t)
  BY DEF MaskBit, ModeBits, reg_tmr_ctrl
<1> HIDE DEF n, H
<1>8. H = (IF mode % 2 = 1 THEN {<<reg_tmr_ctrl, n>>} ELSE {})
            \cup (IF mode \div 2 = 1 THEN {<<reg_tmr_ctrl, n + 1>>} ELSE {})
  BY <1>2, HoldingTwo DEF H
<1>9. OnlyIn(C)
  BY <1>1, <1>2, <1>8 DEF OnlyIn
<1>10. ValueOf(on', reg_tmr_ctrl, n, 2) = mode
  <2>1. n # n + 1
    BY <1>2
  <2>2. /\ <<reg_tmr_ctrl, n>> \in on' <=> mode % 2 = 1
        /\ <<reg_tmr_ctrl, n + 1>> \in on' <=> mode \div 2 = 1
    BY <1>1, <1>2, <1>7, <1>8, <2>1
  <2> QED
    BY <1>2, <2>2, TwoHeld
<1>11. TimerIs(t, "mode")' = mode
  BY <1>10 DEF TimerIs, n
<1>12. TimerIs(t, "mask")' = TRUE
  <2>1. (MaskBit(t) \in on') = TRUE
    BY <1>1
  <2> QED
    BY <2>1 DEF TimerIs
<1> HIDE DEF P, C, sm, sk
<1>13. \A s \in DOMAIN P : TimerIs(s[1], s[2])' = P[s]
  BY <1>4, <1>5, <1>11, <1>12
<1> HIDE DEF bits
<1> QED
  BY <1>1, <1>3, <1>4, <1>5, <1>6, <1>9, <1>13, TimerCallStep

LEMMA timer_start_Step ==
    ASSUME PinInv, NEW t \in 0 .. 2, timer_start(t)
    PROVE  PinInv'
<1> DEFINE eb == EnableBit(t)
           wb == WdEnableBit
           dog == IF t = 2 THEN Says(2, "dog", wb \in on) ELSE NoneYet
           P == Onto(Says(t, "on", TRUE), dog)
           C == {eb}
           so == <<t, "on">>
           sd == <<2, "dog">>
<1>1. TimerCall(on \cup {eb}, P) /\ on' = on \cup {eb}
  BY DEF timer_start, TimerCall
<1>2. /\ so \in TimerSayable /\ sd \in TimerSayable /\ so # sd
      /\ so[1] = t /\ so[2] = "on" /\ sd[1] = 2 /\ sd[2] = "dog"
  BY DEF TimerSayable
<1>3. /\ DOMAIN P = IF t = 2 THEN {so, sd} ELSE {so}
      /\ P[so] = TRUE
      /\ t = 2 => P[sd] = (wb \in on)
  BY DEF Onto, Says, NoneYet
<1>4. \A b \in C : b[1] \in TimerAddress
  BY DEF EnableBit, reg_tmr_ctrl, TimerAddress
<1>5. ASSUME NEW s \in TimerSayable, s # so, t = 2 => s # sd PROVE TimerBits(s[1], s[2]) \cap C = {}
  BY <1>5 DEF TimerSayable, TimerBits, EnableBit, ModeBits, WdEnableBit, MaskBit, reg_tmr_ctrl
<1>6. OnlyIn(C)
  BY <1>1 DEF OnlyIn
<1>7. TimerIs(t, "on")' = TRUE
  <2>1. (eb \in on') = TRUE
    BY <1>1
  <2> QED
    BY <2>1 DEF TimerIs
<1>8. t = 2 => TimerIs(2, "dog")' = (wb \in on)
  <2> SUFFICES ASSUME t = 2 PROVE TimerIs(2, "dog")' = (wb \in on)
    OBVIOUS
  <2>1. wb # eb
    BY DEF WdEnableBit, EnableBit
  <2>2. TimerIs(2, "dog")' = (wb \in on' /\ eb \in on')
    BY DEF TimerIs
  <2> HIDE DEF wb, eb
  <2>3. (wb \in on' /\ eb \in on') = (wb \in on)
    BY <1>1, <2>1
  <2> QED
    BY <2>2, <2>3
<1> HIDE DEF P, so, sd
<1>9. \A s \in DOMAIN P : TimerIs(s[1], s[2])' = P[s]
  BY <1>2, <1>3, <1>7, <1>8
<1>10. \A s \in TimerSayable \ DOMAIN P : TimerBits(s[1], s[2]) \cap C = {}
  BY <1>3, <1>5
<1>11. DOMAIN P \subseteq TimerSayable
  BY <1>2, <1>3
<1> HIDE DEF C, eb, wb
<1> QED
  BY <1>1, <1>4, <1>6, <1>9, <1>10, <1>11, TimerCallStep

LEMMA timer_stop_Step ==
    ASSUME PinInv, NEW t \in 0 .. 2, timer_stop(t)
    PROVE  PinInv'
<1> DEFINE eb == EnableBit(t)
           dog == IF t = 2 THEN Says(2, "dog", FALSE) ELSE NoneYet
           P == Onto(Says(t, "on", FALSE), dog)
           C == {eb}
           so == <<t, "on">>
           sd == <<2, "dog">>
<1>1. TimerCall(on \ {eb}, P) /\ on' = on \ {eb}
  BY DEF timer_stop, TimerCall
<1>2. /\ so \in TimerSayable /\ sd \in TimerSayable /\ so # sd
      /\ so[1] = t /\ so[2] = "on" /\ sd[1] = 2 /\ sd[2] = "dog"
  BY DEF TimerSayable
<1>3. /\ DOMAIN P = IF t = 2 THEN {so, sd} ELSE {so}
      /\ P[so] = FALSE
      /\ t = 2 => P[sd] = FALSE
  BY DEF Onto, Says, NoneYet
<1>4. \A b \in C : b[1] \in TimerAddress
  BY DEF EnableBit, reg_tmr_ctrl, TimerAddress
<1>5. ASSUME NEW s \in TimerSayable, s # so, t = 2 => s # sd PROVE TimerBits(s[1], s[2]) \cap C = {}
  BY <1>5 DEF TimerSayable, TimerBits, EnableBit, ModeBits, WdEnableBit, MaskBit, reg_tmr_ctrl
<1>6. OnlyIn(C)
  BY <1>1 DEF OnlyIn
<1>7. TimerIs(t, "on")' = FALSE
  <2>1. TimerIs(t, "on")' = (eb \in on')
    BY DEF TimerIs
  <2> HIDE DEF eb
  <2>2. (eb \in on') = FALSE
    BY <1>1
  <2> QED
    BY <2>1, <2>2
<1>8. t = 2 => TimerIs(2, "dog")' = FALSE
  <2> SUFFICES ASSUME t = 2 PROVE TimerIs(2, "dog")' = FALSE
    OBVIOUS
  <2>1. TimerIs(2, "dog")' = (WdEnableBit \in on' /\ eb \in on')
    BY DEF TimerIs
  <2> HIDE DEF eb
  <2>2. (WdEnableBit \in on' /\ eb \in on') = FALSE
    BY <1>1
  <2> QED
    BY <2>1, <2>2
<1> HIDE DEF P, so, sd
<1>9. \A s \in DOMAIN P : TimerIs(s[1], s[2])' = P[s]
  BY <1>2, <1>3, <1>7, <1>8
<1>10. \A s \in TimerSayable \ DOMAIN P : TimerBits(s[1], s[2]) \cap C = {}
  BY <1>3, <1>5
<1>11. DOMAIN P \subseteq TimerSayable
  BY <1>2, <1>3
<1> HIDE DEF C, eb
<1> QED
  BY <1>1, <1>4, <1>6, <1>9, <1>10, <1>11, TimerCallStep

LEMMA wd_start_Step ==
    ASSUME PinInv, wd_start
    PROVE  PinInv'
<1> DEFINE eb == EnableBit(2)
           wb == WdEnableBit
           P == [s \in {2} \X {"on", "dog"} |-> TRUE]
           C == {eb, wb}
           so == <<2, "on">>
           sd == <<2, "dog">>
<1>1. TimerCall(on \cup C, P) /\ on' = on \cup C
  BY DEF wd_start, TimerCall
<1>2. /\ so \in TimerSayable /\ sd \in TimerSayable
      /\ so[1] = 2 /\ so[2] = "on" /\ sd[1] = 2 /\ sd[2] = "dog"
  BY DEF TimerSayable
<1>3. DOMAIN P = {so, sd} /\ P[so] = TRUE /\ P[sd] = TRUE
  OBVIOUS
<1>4. \A b \in C : b[1] \in TimerAddress
  BY DEF EnableBit, WdEnableBit, reg_tmr_ctrl, TimerAddress
<1>5. ASSUME NEW s \in TimerSayable, s \notin {so, sd} PROVE TimerBits(s[1], s[2]) \cap C = {}
  BY <1>5 DEF TimerSayable, TimerBits, EnableBit, ModeBits, WdEnableBit, MaskBit, reg_tmr_ctrl
<1>6. OnlyIn(C)
  BY <1>1 DEF OnlyIn
<1>7. TimerIs(2, "on")' = TRUE /\ TimerIs(2, "dog")' = TRUE
  <2>1. TimerIs(2, "on")' = (eb \in on')
    BY DEF TimerIs
  <2>2. TimerIs(2, "dog")' = (wb \in on' /\ eb \in on')
    BY DEF TimerIs
  <2> HIDE DEF eb, wb
  <2>3. (eb \in on') = TRUE /\ (wb \in on' /\ eb \in on') = TRUE
    BY <1>1
  <2> QED
    BY <2>1, <2>2, <2>3
<1> HIDE DEF P, so, sd
<1>8. \A s \in DOMAIN P : TimerIs(s[1], s[2])' = P[s]
  BY <1>2, <1>3, <1>7
<1>9. \A s \in TimerSayable \ DOMAIN P : TimerBits(s[1], s[2]) \cap C = {}
  BY <1>3, <1>5
<1>10. DOMAIN P \subseteq TimerSayable
  BY <1>2, <1>3
<1> HIDE DEF C, eb, wb
<1> QED
  BY <1>1, <1>4, <1>6, <1>8, <1>9, <1>10, TimerCallStep

LEMMA wd_stop_Step ==
    ASSUME PinInv, wd_stop
    PROVE  PinInv'
<1> DEFINE wb == WdEnableBit
           P == Says(2, "dog", FALSE)
           C == {wb}
           sd == <<2, "dog">>
<1>1. TimerCall(on \ C, P) /\ on' = on \ C
  BY DEF wd_stop, TimerCall
<1>2. sd \in TimerSayable /\ sd[1] = 2 /\ sd[2] = "dog"
  BY DEF TimerSayable
<1>3. DOMAIN P = {sd} /\ P[sd] = FALSE
  BY DEF Says
<1>4. \A b \in C : b[1] \in TimerAddress
  BY DEF WdEnableBit, reg_tmr_ctrl, TimerAddress
<1>5. ASSUME NEW s \in TimerSayable, s # sd PROVE TimerBits(s[1], s[2]) \cap C = {}
  BY <1>5 DEF TimerSayable, TimerBits, EnableBit, ModeBits, WdEnableBit, MaskBit, reg_tmr_ctrl
<1>6. OnlyIn(C)
  BY <1>1 DEF OnlyIn
<1>7. TimerIs(2, "dog")' = FALSE
  <2>1. TimerIs(2, "dog")' = (wb \in on' /\ EnableBit(2) \in on')
    BY DEF TimerIs
  <2> HIDE DEF wb
  <2>2. (wb \in on' /\ EnableBit(2) \in on') = FALSE
    BY <1>1
  <2> QED
    BY <2>1, <2>2
<1> HIDE DEF P, sd
<1>8. \A s \in DOMAIN P : TimerIs(s[1], s[2])' = P[s]
  BY <1>2, <1>3, <1>7
<1>9. \A s \in TimerSayable \ DOMAIN P : TimerBits(s[1], s[2]) \cap C = {}
  BY <1>3, <1>5
<1>10. DOMAIN P \subseteq TimerSayable
  BY <1>2, <1>3
<1> HIDE DEF C, wb
<1> QED
  BY <1>1, <1>4, <1>6, <1>8, <1>9, <1>10, TimerCallStep

(* Bit i of a value. *)
HasBit(v, i) == (v \div 2^i) % 2 = 1

(* Seven bits of a register, from number n on, are those of a value. *)
SevenBits(bits, addr, n, v) == \A i \in 0 .. 6 : <<addr, n + i>> \in bits <=> HasBit(v, i)

LEMMA SevenHeld ==
    ASSUME NEW addr, NEW n \in Int, NEW v, NEW i \in 0 .. 6
    PROVE  <<addr, n + i>> \in Holding(addr, n, 7, v) <=> HasBit(v, i)
<1>1. ASSUME NEW j \in 0 .. 6 PROVE <<addr, n + i>> = <<addr, n + j>> <=> j = i
  OBVIOUS
<1>2. <<addr, n + i>> \in Holding(addr, n, 7, v)
        <=> \E j \in 0 .. 6 : HasBit(v, j) /\ <<addr, n + i>> = <<addr, n + j>>
  <2>1. 7 - 1 = 6
    OBVIOUS
  <2> QED
    BY <2>1 DEF Holding, HasBit
<1> QED
  BY <1>1, <1>2

LEMMA SevenAt ==
    ASSUME NEW addr, NEW n \in Int, NEW v, NEW b \in Holding(addr, n, 7, v)
    PROVE  b[1] = addr /\ b[2] \in n .. n + 6
BY DEF Holding

(* The fourteen bits that the interval is written to hold what Capture says. *)
LEMMA CaptureWritten ==
    ASSUME NEW addr, NEW n \in Nat, NEW bits, NEW v \in Nat, NEW u, u = v \div 256,
           NEW h \in Nat, h = n + 7,
           SevenBits(bits, addr, n, v), SevenBits(bits, addr, h, u)
    PROVE  ValueOf(bits, addr, n, 14) = Capture(v)
<1> DEFINE d(i) == Digit(bits, addr, n, i)
<1>1. u \in Nat /\ v \div 1 = v /\ u \div 1 = u
  OBVIOUS
<1>2. ValueOf(bits, addr, n, 14) =
        d(0) + d(1) + d(2) + d(3) + d(4) + d(5) + d(6) + d(7) + d(8) + d(9) + d(10)
          + d(11) + d(12) + d(13)
  BY ValueOfFourteen
<1>3. /\ <<addr, n + 0>> \in bits <=> HasBit(v, 0)
      /\ <<addr, n + 1>> \in bits <=> HasBit(v, 1)
      /\ <<addr, n + 2>> \in bits <=> HasBit(v, 2)
      /\ <<addr, n + 3>> \in bits <=> HasBit(v, 3)
      /\ <<addr, n + 4>> \in bits <=> HasBit(v, 4)
      /\ <<addr, n + 5>> \in bits <=> HasBit(v, 5)
      /\ <<addr, n + 6>> \in bits <=> HasBit(v, 6)
  BY DEF SevenBits
<1>4. /\ <<addr, h + 0>> \in bits <=> HasBit(u, 0)
      /\ <<addr, h + 1>> \in bits <=> HasBit(u, 1)
      /\ <<addr, h + 2>> \in bits <=> HasBit(u, 2)
      /\ <<addr, h + 3>> \in bits <=> HasBit(u, 3)
      /\ <<addr, h + 4>> \in bits <=> HasBit(u, 4)
      /\ <<addr, h + 5>> \in bits <=> HasBit(u, 5)
      /\ <<addr, h + 6>> \in bits <=> HasBit(u, 6)
  BY DEF SevenBits
<1>5. /\ h + 0 = n + 7 /\ h + 1 = n + 8 /\ h + 2 = n + 9 /\ h + 3 = n + 10
      /\ h + 4 = n + 11 /\ h + 5 = n + 12 /\ h + 6 = n + 13
  OBVIOUS
<1>6. /\ d(0) = (IF v % 2 = 1 THEN 1 ELSE 0) /\ d(1) = (IF (v \div 2) % 2 = 1 THEN 2 ELSE 0)
      /\ d(2) = (IF (v \div 4) % 2 = 1 THEN 4 ELSE 0)
         /\ d(3) = (IF (v \div 8) % 2 = 1 THEN 8 ELSE 0)
      /\ d(4) = (IF (v \div 16) % 2 = 1 THEN 16 ELSE 0)
         /\ d(5) = (IF (v \div 32) % 2 = 1 THEN 32 ELSE 0)
      /\ d(6) = (IF (v \div 64) % 2 = 1 THEN 64 ELSE 0)
  BY <1>1, <1>3, PowersOfTwo DEF Digit, HasBit
<1>7. /\ d(7) = (IF u % 2 = 1 THEN 128 ELSE 0) /\ d(8) = (IF (u \div 2) % 2 = 1 THEN 256 ELSE 0)
      /\ d(9) = (IF (u \div 4) % 2 = 1 THEN 512 ELSE 0)
         /\ d(10) = (IF (u \div 8) % 2 = 1 THEN 1024 ELSE 0)
      /\ d(11) = (IF (u \div 16) % 2 = 1 THEN 2048 ELSE 0)
         /\ d(12) = (IF (u \div 32) % 2 = 1 THEN 4096 ELSE 0)
      /\ d(13) = (IF (u \div 64) % 2 = 1 THEN 8192 ELSE 0)
  BY <1>1, <1>4, <1>5, PowersOfTwo DEF Digit, HasBit
<1> HIDE DEF d
<1>8. d(0) + d(1) + d(2) + d(3) + d(4) + d(5) + d(6) = v % 128
  <2> DEFINE e0 == IF v % 2 = 1 THEN 1 ELSE 0
             e1 == IF (v \div 2) % 2 = 1 THEN 2 ELSE 0
             e2 == IF (v \div 4) % 2 = 1 THEN 4 ELSE 0
             e3 == IF (v \div 8) % 2 = 1 THEN 8 ELSE 0
             e4 == IF (v \div 16) % 2 = 1 THEN 16 ELSE 0
             e5 == IF (v \div 32) % 2 = 1 THEN 32 ELSE 0
             e6 == IF (v \div 64) % 2 = 1 THEN 64 ELSE 0
  <2>1. e0 + e1 + e2 + e3 + e4 + e5 + e6 = v % 128
    BY <1>1, SevenDigits
  <2>2. d(0) = e0 /\ d(1) = e1 /\ d(2) = e2 /\ d(3) = e3
        /\ d(4) = e4 /\ d(5) = e5 /\ d(6) = e6
    BY <1>6
  <2>3. e0 \in Int /\ e1 \in Int /\ e2 \in Int /\ e3 \in Int /\ e4 \in Int /\ e5 \in Int
        /\ e6 \in Int
    OBVIOUS
  <2> HIDE DEF e0, e1, e2, e3, e4, e5, e6
  <2> QED
    BY <2>1, <2>2, <2>3
<1>12. d(7) + d(8) + d(9) + d(10) + d(11) + d(12) + d(13) = 128 * (u % 128)
  <2> DEFINE e0 == IF u % 2 = 1 THEN 1 ELSE 0
             e1 == IF (u \div 2) % 2 = 1 THEN 2 ELSE 0
             e2 == IF (u \div 4) % 2 = 1 THEN 4 ELSE 0
             e3 == IF (u \div 8) % 2 = 1 THEN 8 ELSE 0
             e4 == IF (u \div 16) % 2 = 1 THEN 16 ELSE 0
             e5 == IF (u \div 32) % 2 = 1 THEN 32 ELSE 0
             e6 == IF (u \div 64) % 2 = 1 THEN 64 ELSE 0
  <2>1. e0 + e1 + e2 + e3 + e4 + e5 + e6 = u % 128
    BY <1>1, SevenDigits
  <2>2. d(7) = 128 * e0 /\ d(8) = 128 * e1 /\ d(9) = 128 * e2 /\ d(10) = 128 * e3
        /\ d(11) = 128 * e4 /\ d(12) = 128 * e5 /\ d(13) = 128 * e6
    BY <1>7
  <2>3. e0 \in Int /\ e1 \in Int /\ e2 \in Int /\ e3 \in Int /\ e4 \in Int /\ e5 \in Int
        /\ e6 \in Int
    OBVIOUS
  <2> HIDE DEF e0, e1, e2, e3, e4, e5, e6
  <2> QED
    BY <2>1, <2>2, <2>3
<1>13. Capture(v) = (v % 128) + 128 * (u % 128)
  BY DEF Capture
<1>14. /\ d(0) \in Int /\ d(1) \in Int /\ d(2) \in Int /\ d(3) \in Int /\ d(4) \in Int
          /\ d(5) \in Int
       /\ d(6) \in Int /\ d(7) \in Int /\ d(8) \in Int /\ d(9) \in Int /\ d(10) \in Int
          /\ d(11) \in Int
       /\ d(12) \in Int /\ d(13) \in Int
  BY <1>6, <1>7
<1>15. d(0) + d(1) + d(2) + d(3) + d(4) + d(5) + d(6) + d(7) + d(8) + d(9) + d(10)
          + d(11) + d(12) + d(13)
        = (d(0) + d(1) + d(2) + d(3) + d(4) + d(5) + d(6))
            + (d(7) + d(8) + d(9) + d(10) + d(11) + d(12) + d(13))
  BY <1>14
<1> QED
  BY <1>2, <1>8, <1>12, <1>13, <1>15

LEMMA wd_set_interval_Step ==
    ASSUME PinInv, NEW v \in WdTicks, wd_set_interval_ms(v)
    PROVE  PinInv'
<1>7. v \in Nat
  <2>1. v \in 0 .. 16383
    BY PinAssumption
  <2> QED
    BY <2>1
<1> DEFINE n == 9
           h == 16
           u == v \div 256
           low == Holding(reg_tmr_ctrl, n, 7, v)
           high == Holding(reg_tmr_ctrl, h, 7, u)
           bits == {b \in on : b[1] # reg_tmr_ctrl \/ b[2] \notin 9 .. 22} \cup low \cup high
           P == Says(2, "capture", Capture(v))
           C == {b \in on \cup on' : b[1] = reg_tmr_ctrl /\ b[2] \in 9 .. 22}
           sc == <<2, "capture">>
<1>1. TimerCall(bits, P) /\ on' = bits
  BY DEF wd_set_interval_ms, TimerCall
<1>2. sc \in TimerSayable /\ sc[1] = 2 /\ sc[2] = "capture"
  BY DEF TimerSayable
<1>3. DOMAIN P = {sc} /\ P[sc] = Capture(v)
  BY DEF Says
<1>4. \A b \in C : b[1] \in TimerAddress
  BY DEF reg_tmr_ctrl, TimerAddress
<1>5. ASSUME NEW s \in TimerSayable, s # sc PROVE TimerBits(s[1], s[2]) \cap C = {}
  <2>1. \A b \in C : b[1] = 1568 /\ b[2] \in 9 .. 22
    BY DEF reg_tmr_ctrl
  <2> HIDE DEF C
  <2> QED
    BY <1>5, <2>1 DEF TimerSayable, TimerBits, EnableBit, ModeBits, WdEnableBit, MaskBit, reg_tmr_ctrl
<1>9. n = 9 /\ n \in Nat /\ h = 16 /\ h \in Nat /\ h = n + 7
  OBVIOUS
<1> HIDE DEF n, h
<1>6. \A b \in low \cup high : b[1] = reg_tmr_ctrl /\ b[2] \in 9 .. 22
  <2>1. \A b \in low : b[1] = reg_tmr_ctrl /\ b[2] \in 9 .. 15
    BY <1>9, SevenAt
  <2>2. \A b \in high : b[1] = reg_tmr_ctrl /\ b[2] \in 16 .. 22
    BY <1>9, SevenAt
  <2> HIDE DEF low, high
  <2> QED
    BY <2>1, <2>2
<1> HIDE DEF low, high
<1>8. OnlyIn(C)
  BY <1>1, <1>6 DEF OnlyIn
<1>10. SevenBits(on', reg_tmr_ctrl, n, v) /\ SevenBits(on', reg_tmr_ctrl, h, u)
  <2> SUFFICES ASSUME NEW i \in 0 .. 6
               PROVE  /\ <<reg_tmr_ctrl, n + i>> \in on' <=> HasBit(v, i)
                      /\ <<reg_tmr_ctrl, h + i>> \in on' <=> HasBit(u, i)
    BY DEF SevenBits
  <2> DEFINE b == <<reg_tmr_ctrl, n + i>>
             c == <<reg_tmr_ctrl, h + i>>
  <2> HIDE DEF u
  <2>1. /\ b[1] = reg_tmr_ctrl /\ b[2] = n + i /\ c[1] = reg_tmr_ctrl /\ c[2] = h + i
        /\ b[2] \in 9 .. 22 /\ c[2] \in 9 .. 22 /\ b[2] \notin h .. h + 6 /\ c[2] \notin n .. n + 6
    BY <1>9
  <2>2. (b \in low <=> HasBit(v, i)) /\ (c \in high <=> HasBit(u, i))
    <3>1. ASSUME NEW x, NEW k \in Int
            PROVE <<reg_tmr_ctrl, k + i>> \in Holding(reg_tmr_ctrl, k, 7, x) <=> HasBit(x, i)
      BY SevenHeld
    <3>2. n \in Int /\ h \in Int
      BY <1>9
    <3>3. (b \in Holding(reg_tmr_ctrl, n, 7, v) <=> HasBit(v, i))
      BY <3>1, <3>2
    <3>4. (c \in Holding(reg_tmr_ctrl, h, 7, u) <=> HasBit(u, i))
      BY <3>1, <3>2
    <3> QED
      BY <3>3, <3>4 DEF low, high
  <2> HIDE DEF b, c
  <2>3. b \notin high /\ c \notin low
    BY <1>9, <2>1, SevenAt DEF low, high
  <2>4. (b \in on' <=> b \in low \/ b \in high) /\ (c \in on' <=> c \in low \/ c \in high)
    BY <1>1, <2>1
  <2> QED
    BY <2>2, <2>3, <2>4 DEF b, c
<1>11. u = v \div 256
  OBVIOUS
<1>12. ValueOf(on', reg_tmr_ctrl, n, 14) = Capture(v)
  <2> HIDE DEF u, bits, P, C
  <2>1. n \in Nat /\ h \in Nat /\ h = n + 7
    BY <1>9
  <2> QED
    BY <1>7, <1>11, <1>10, <2>1, CaptureWritten
<1>13. TimerIs(2, "capture")' = Capture(v)
  BY <1>9, <1>12 DEF TimerIs
<1> HIDE DEF P, sc, C, bits
<1>14. \A s \in DOMAIN P : TimerIs(s[1], s[2])' = P[s]
  BY <1>2, <1>3, <1>13
<1>15. \A s \in TimerSayable \ DOMAIN P : TimerBits(s[1], s[2]) \cap C = {}
  BY <1>3, <1>5
<1>16. DOMAIN P \subseteq TimerSayable
  BY <1>2, <1>3
<1> QED
  BY <1>1, <1>4, <1>8, <1>14, <1>15, <1>16, TimerCallStep

LEMMA PinInvInit == PinInit => PinInv
BY DEF PinInit, PinInv, ToldHolds, TimedHolds, NoneYet

LEMMA PinSettingsStep ==
    ASSUME PinInv, NEW p \in CalledPin, PinSettings(p)
    PROVE  PinInv'
<1>1. ASSUME NEW v \in BOOLEAN,
             \/ gpio_set_output_en(p, v) \/ gpio_set_input_en(p, v)
             \/ gpio_set_data_strength(p, v) \/ gpio_write(p, v)
      PROVE  PinInv'
  BY <1>1, output_en_Step, input_en_Step, data_strength_Step, write_Step
<1>2. CASE gpio_toggle(p)
  BY <1>2, toggle_Step
<1>3. ASSUME NEW f \in {0, AS_GPIO}, gpio_set_func(p, f) PROVE PinInv'
  BY <1>3, set_func_Step
<1>4. ASSUME NEW v \in 0 .. 3, gpio_setup_up_down_resistor(p, v) PROVE PinInv'
  BY <1>4, resistor_Step
<1>5. CASE PULL_TOGGLE(p)
  BY <1>5, PULL_TOGGLE_Step
<1>6. CASE gpio_set_pullup_res_30k(p)
  BY <1>6, pullup_30k_Step
<1>7. CASE gpio_shutdown(p)
  BY <1>7, shutdown_Step
<1> QED
  BY <1>1, <1>2, <1>3, <1>4, <1>5, <1>6, <1>7 DEF PinSettings

LEMMA PinInterruptsStep ==
    ASSUME PinInv, NEW p \in CalledPin, PinInterrupts(p)
    PROVE  PinInv'
<1> PICK falling \in BOOLEAN :
        \/ \E kind \in {"irq", "risc0", "risc1"} : gpio_set_interrupt(kind, p, falling)
        \/ \E kind \in {"irq", "risc0", "risc1"} : gpio_en_interrupt(kind, p, falling)
        \/ \E level \in BOOLEAN : gpio_set_src_irq(p, falling, level)
        \/ \E t \in 0 .. 2 : timer_gpio_init(t, p, falling)
  BY DEF PinInterrupts
<1>1. ASSUME NEW k \in {"irq", "risc0", "risc1"}, gpio_set_interrupt(k, p, falling) PROVE PinInv'
  BY <1>1, set_interrupt_Step
<1>2. ASSUME NEW k \in {"irq", "risc0", "risc1"}, gpio_en_interrupt(k, p, falling) PROVE PinInv'
  <2>1. k \in IrqKind
    BY DEF IrqKind
  <2> QED
    BY <1>2, <2>1, en_interrupt_Step
<1>3. ASSUME NEW level \in BOOLEAN, gpio_set_src_irq(p, falling, level) PROVE PinInv'
  BY <1>3, set_src_irq_Step
<1>4. ASSUME NEW t \in 0 .. 2, timer_gpio_init(t, p, falling) PROVE PinInv'
  BY <1>4, timer_gpio_init_Step
<1> QED
  BY <1>1, <1>2, <1>3, <1>4

LEMMA TimersStep ==
    ASSUME PinInv, Timers
    PROVE  PinInv'
<1>1. ASSUME NEW t \in 0 .. 2, timer_start(t) PROVE PinInv'
  BY <1>1, timer_start_Step
<1>2. ASSUME NEW t \in 0 .. 2, timer_stop(t) PROVE PinInv'
  BY <1>2, timer_stop_Step
<1>3. ASSUME NEW t \in 0 .. 2, NEW mode \in 0 .. 3, timer_set_mode(t, mode) PROVE PinInv'
  BY <1>3, timer_set_mode_Step
<1>4. ASSUME NEW v \in WdTicks, wd_set_interval_ms(v) PROVE PinInv'
  BY <1>4, wd_set_interval_Step
<1>5. wd_start => PinInv'
  BY wd_start_Step
<1>6. wd_stop => PinInv'
  BY wd_stop_Step
<1> QED
  BY <1>1, <1>2, <1>3, <1>4, <1>5, <1>6 DEF Timers

LEMMA PinInvStep == PinInv /\ [PinNext]_pinVars => PinInv'
<1> SUFFICES ASSUME PinInv, [PinNext]_pinVars PROVE PinInv'
  OBVIOUS
<1>1. ASSUME NEW p \in CalledPin, PinSettings(p) PROVE PinInv'
  BY <1>1, PinSettingsStep
<1>2. ASSUME NEW p \in CalledPin, PinInterrupts(p) PROVE PinInv'
  BY <1>2, PinInterruptsStep
<1>3. ASSUME NEW v \in BOOLEAN, gpio_init(v) PROVE PinInv'
  BY <1>3, gpio_init_Step
<1>4. CASE gpio_shutdown_all
  BY <1>4, shutdown_all_Step
<1>5. CASE usb_set_pin_en
  BY <1>5, usb_set_pin_en_Step
<1>6. ASSUME NEW k \in {"irq", "risc0", "risc1", "pad"}, NEW v \in BOOLEAN, gpio_irq_mask(k, v)
      PROVE  PinInv'
  BY <1>6, irq_mask_Step
<1>7. ASSUME NEW k, gpio_clr_irq_status(k) \/ Raise(k) PROVE PinInv'
  <2>1. UNCHANGED <<on, mux, told, timed>>
    BY <1>7 DEF gpio_clr_irq_status, Raise
  <2> QED
    BY <2>1, NothingStep
<1>8. CASE Timers
  BY <1>8, TimersStep
<1>9. CASE UNCHANGED pinVars
  <2>1. UNCHANGED <<on, mux, told, timed>>
    BY <1>9 DEF pinVars
  <2> QED
    BY <2>1, NothingStep
<1> QED
  BY <1>1, <1>2, <1>3, <1>4, <1>5, <1>6, <1>7, <1>8, <1>9 DEF PinNext

LEMMA PinInvTells == PinInv => PinsAsTold
<1> SUFFICES ASSUME PinInv PROVE PinsAsTold
  OBVIOUS
<1>1. /\ \A s \in DOMAIN told : Is(s[1], s[2]) = told[s]
      /\ \A s \in DOMAIN timed : TimerIs(s[1], s[2]) = timed[s]
  BY DEF PinInv, ToldHolds, TimedHolds
<1>2. ASSUME NEW s \in DOMAIN told, s[2] = "output"
      PROVE  gpio_is_output_en(s[1]) = told[s]
  <2>1. Is(s[1], "output") = gpio_is_output_en(s[1])
    BY DEF Is, IrqKind, gpio_is_output_en
  <2> QED
    BY <1>1, <1>2, <2>1
<1>3. ASSUME NEW s \in DOMAIN told, s[2] = "input", s[1][1] # GroupC
      PROVE  gpio_is_input_en(s[1]) = told[s]
  <2>1. Is(s[1], "input") = gpio_is_input_en(s[1])
    BY <1>3 DEF Is, IrqKind, InputBit, gpio_is_input_en
  <2> QED
    BY <1>1, <1>3, <2>1
<1> QED
  BY <1>1, <1>2, <1>3 DEF PinsAsTold

(* The inductive invariant of the pins: it holds after any number of calls. *)
THEOREM PinInvHolds == PinSpec => []PinInv
BY PinInvInit, PinInvStep, PTL DEF PinSpec

(* What a call of gpio.c, gpio.h, gpio_default.h, timer.c or watchdog.h makes of a pin,
   a timer or the watchdog stays so until a call that says otherwise, for every set
   of pins, every board and any number of calls. *)
THEOREM PinsStayAsTold == PinSpec => []PinsAsTold
BY PinInvHolds, PinInvTells, PTL

(***************************************************************************)
(* The variables of the pins have their types.                             *)
(***************************************************************************)
ChipBit == ((1280 .. 1632) \cup (Areg(0) .. Areg(255))) \X (0 .. 31)
MuxRight(m) == \A r \in DOMAIN m : m[r] \in 0 .. 255
ToldRight(t) == \A s \in DOMAIN t : s[1] \in Pin

LEMMA OntoRight ==
    ASSUME NEW a, NEW b
    PROVE  /\ MuxRight(a) /\ MuxRight(b) => MuxRight(Onto(a, b))
           /\ ToldRight(a) /\ ToldRight(b) => ToldRight(Onto(a, b))
<1>1. DOMAIN Onto(a, b) = DOMAIN a \cup DOMAIN b
  BY DEF Onto
<1>2. \A r \in DOMAIN a \cup DOMAIN b : Onto(a, b)[r] = IF r \in DOMAIN a THEN a[r] ELSE b[r]
  BY DEF Onto
<1> QED
  BY <1>1, <1>2 DEF MuxRight, ToldRight

LEMMA SaysRight ==
    ASSUME NEW p \in Pin, NEW w, NEW v
    PROVE  ToldRight(Says(p, w, v))
BY DEF ToldRight, Says

LEMMA AboutRight ==
    ASSUME NEW p \in Pin, NEW W, NEW t, DOMAIN t = {p} \X W
    PROVE  ToldRight(t)
BY DEF ToldRight

LEMMA NoneRight == MuxRight(NoneYet) /\ ToldRight(NoneYet)
BY DEF MuxRight, ToldRight, NoneYet

LEMMA FieldIsBit ==
    ASSUME NEW f \in DOMAIN Offset, NEW g \in 0 .. 5, NEW n \in 0 .. 7
    PROVE  <<reg_gpio(f, g), n>> \in ChipBit
<1>1. Offset[f] \in 1 .. 7
  BY DEF Offset
<1>2. reg_gpio(f, g) \in 1280 .. 1632
  BY <1>1 DEF reg_gpio
<1> QED
  BY <1>2 DEF ChipBit

LEMMA ChipBits ==
    ASSUME NEW p \in Pin
    PROVE  /\ InputBit(p) \in ChipBit /\ StrengthBit(p) \in ChipBit
           /\ PullUp30Bit(p) \in ChipBit
           /\ \A f \in {"ie", "oen", "out", "pol", "ds", "func", "irq_wakeup_en"} :
                PinBit(f, p) \in ChipBit
           /\ \A k \in IrqKind : IrqBit(k, p) \in ChipBit
           /\ LevelBit(p) \in ChipBit /\ PadMaskBit(p) \in ChipBit
<1>1. p[1] \in 0 .. 5 /\ p[2] \in 0 .. 7
  BY PinIs
<1>2. DOMAIN Offset = {"ie", "oen", "out", "pol", "ds", "func", "irq_wakeup_en"}
  BY DEF Offset
<1>3. ASSUME NEW f \in {"ie", "oen", "out", "pol", "ds", "func", "irq_wakeup_en"}
      PROVE  PinBit(f, p) \in ChipBit
  BY <1>1, <1>2, FieldIsBit DEF PinBit
<1>4. \A a \in 0 .. 255 : <<Areg(a), p[2]>> \in ChipBit
  BY <1>1 DEF Areg, ChipBit
<1>5. InputBit(p) \in ChipBit
  BY <1>3, <1>4 DEF InputBit
<1>6. StrengthBit(p) \in ChipBit
  BY <1>3, <1>4 DEF StrengthBit
<1>7. PullUp30Bit(p) \in ChipBit
  BY <1>4 DEF PullUp30Bit
<1>8. ASSUME NEW k \in IrqKind PROVE IrqBit(k, p) \in ChipBit
  <2>1. PinBit("irq_wakeup_en", p) \in ChipBit
    BY <1>3
  <2>2. CASE k = "irq"
    BY <2>1, <2>2 DEF IrqBit
  <2>3. CASE k = "risc0"
    <3>1. IrqBit("risc0", p) = <<1328 + p[1], p[2]>>
      BY DEF IrqBit
    <3>2. <<1328 + p[1], p[2]>> \in ChipBit
      BY <1>1 DEF ChipBit
    <3> QED
      BY <2>3, <3>1, <3>2
  <2>4. CASE k = "risc1"
    <3>1. IrqBit("risc1", p) = <<1336 + p[1], p[2]>>
      BY DEF IrqBit
    <3>2. <<1336 + p[1], p[2]>> \in ChipBit
      BY <1>1 DEF ChipBit
    <3> QED
      BY <2>4, <3>1, <3>2
  <2>5. CASE k = "risc2"
    <3>1. IrqBit("risc2", p) = <<1344 + p[1], p[2]>>
      BY DEF IrqBit
    <3>2. <<1344 + p[1], p[2]>> \in ChipBit
      BY <1>1 DEF ChipBit
    <3> QED
      BY <2>5, <3>1, <3>2
  <2> QED
    BY <2>2, <2>3, <2>4, <2>5 DEF IrqKind
<1>9. LevelBit(p) \in ChipBit /\ PadMaskBit(p) \in ChipBit
  BY <1>1 DEF LevelBit, PadMaskBit, ChipBit
<1> QED
  BY <1>3, <1>5, <1>6, <1>7, <1>8, <1>9

LEMMA ControlBits ==
    /\ CoreInterruptBit \in ChipBit /\ DpPullUpBit \in ChipBit /\ WdEnableBit \in ChipBit
    /\ \A n \in 0 .. 31 : MaskBit(n) \in ChipBit
    /\ \A t \in 0 .. 2 : EnableBit(t) \in ChipBit
    /\ \A k \in {"irq", "risc0", "risc1", "pad"} : MaskBit(FLD_IRQ_GPIO[k]) \in ChipBit
<1>1. CoreInterruptBit \in ChipBit /\ DpPullUpBit \in ChipBit /\ WdEnableBit \in ChipBit
  BY DEF CoreInterruptBit, DpPullUpBit, WdEnableBit, reg_tmr_ctrl, Areg, ChipBit
<1>2. \A n \in 0 .. 31 : MaskBit(n) \in ChipBit
  BY DEF MaskBit, ChipBit
<1>3. \A t \in 0 .. 2 : EnableBit(t) \in ChipBit
  BY DEF EnableBit, reg_tmr_ctrl, ChipBit
<1>4. \A k \in {"irq", "risc0", "risc1", "pad"} : FLD_IRQ_GPIO[k] \in 0 .. 31
  BY DEF FLD_IRQ_GPIO
<1> QED
  BY <1>1, <1>2, <1>3, <1>4

LEMMA HoldingBits ==
    ASSUME NEW a \in (1280 .. 1632) \cup (Areg(0) .. Areg(255)), NEW n \in Nat, NEW w \in Nat,
           n + w =< 32, NEW v
    PROVE  Holding(a, n, w, v) \subseteq ChipBit
<1>1. ASSUME NEW i \in 0 .. w - 1 PROVE <<a, n + i>> \in ChipBit
  <2>1. n + i \in 0 .. 31
    OBVIOUS
  <2> QED
    BY <2>1 DEF ChipBit
<1>2. ASSUME NEW b \in Holding(a, n, w, v) PROVE b \in ChipBit
  <2>1. PICK i \in 0 .. w - 1 : b = <<a, n + i>>
    BY DEF Holding
  <2> QED
    BY <1>1, <2>1
<1> QED
  BY <1>2

LEMMA ResistorBits ==
    ASSUME NEW p \in Pin, NEW B \in SUBSET ChipBit, NEW v
    PROVE  /\ Resistor(B, base_ana_reg(p), p, v) \subseteq ChipBit
           /\ Resistor(B, areg_pull(p), p, v) \subseteq ChipBit
<1>1. p[1] \in 0 .. 5 /\ p[2] \in 0 .. 7
  BY PinIs
<1>2. 2 * (p[2] % 4) \in 0 .. 6
  BY <1>1
<1>3. ASSUME NEW a \in Areg(0) .. Areg(255) PROVE Resistor(B, a, p, v) \subseteq ChipBit
  <2>1. Holding(a, 2 * (p[2] % 4), 2, v) \subseteq ChipBit
    BY <1>2, HoldingBits
  <2> QED
    BY <2>1 DEF Resistor
<1>4. base_ana_reg(p) \in Areg(0) .. Areg(255)
  BY <1>1 DEF base_ana_reg, Areg
<1>5. areg_pull(p) \in Areg(0) .. Areg(255)
  <2>1. (8 * p[1] + p[2]) \div 4 \in 0 .. 20
    BY <1>1
  <2> QED
    BY <2>1 DEF areg_pull, Areg
<1> QED
  BY <1>3, <1>4, <1>5

LEMMA ConfiguredIsBit ==
    ASSUME NEW v \in BOOLEAN
    PROVE  ConfiguredBits(v) \subseteq ChipBit
<1>1. \A p \in Pin : /\ InputBit(p) \in ChipBit /\ PinBit("oen", p) \in ChipBit
                     /\ StrengthBit(p) \in ChipBit /\ PinBit("func", p) \in ChipBit
  BY ChipBits
<1>2. ASSUME NEW p \in Pin
      PROVE  Holding(areg_pull(p), 2 * (p[2] % 4), 2, DefaultPull(p)) \subseteq ChipBit
  <2>1. p[1] \in 0 .. 5 /\ p[2] \in 0 .. 7
    BY PinIs
  <2>2. (8 * p[1] + p[2]) \div 4 \in 0 .. 20 /\ 2 * (p[2] % 4) \in 0 .. 6
    BY <2>1
  <2>3. areg_pull(p) \in Areg(0) .. Areg(255)
    BY <2>2 DEF areg_pull, Areg
  <2> QED
    BY <2>2, <2>3, HoldingBits
<1>3. UNION {Holding(areg_pull(p), 2 * (p[2] % 4), 2, DefaultPull(p)) :
             p \in {q \in Pin : q[1] # GroupE}} \subseteq ChipBit
  BY <1>2
<1> QED
  BY <1>1, <1>3 DEF ConfiguredBits

(* What a step has to show of the variables. *)
PinShape ==
    /\ on \subseteq ChipBit /\ MuxRight(mux) /\ ToldRight(told)
    /\ src \subseteq {"irq", "risc0", "risc1", "pad", "other"}
    /\ calls \in 0 .. MaxCalls

LEMMA ShapeIsType == PinTypeOK <=> PinShape
BY DEF PinTypeOK, PinShape, ChipBit, MuxRight, ToldRight

LEMMA OneMore == PinShape /\ OneCall => calls' \in 0 .. MaxCalls
BY PinAssumption DEF PinShape, OneCall

LEMMA ShapeOfCall ==
    ASSUME PinShape, NEW bits, NEW P, Call(bits, P), bits \subseteq ChipBit, ToldRight(P)
    PROVE  PinShape'
BY OneMore, OntoRight DEF PinShape, Call

LEMMA ShapeOfTimerCall ==
    ASSUME PinShape, NEW bits, NEW P, TimerCall(bits, P), bits \subseteq ChipBit
    PROVE  PinShape'
BY OneMore DEF PinShape, TimerCall

LEMMA ShapeOfSetting ==
    ASSUME PinShape, NEW p \in Pin, PinSettings(p)
    PROVE  PinShape'
<1>1. on \subseteq ChipBit /\ MuxRight(mux) /\ ToldRight(told)
  BY DEF PinShape
<1>2. \A b \in ChipBit, v \in BOOLEAN : With(on, b, v) \subseteq ChipBit
  BY <1>1 DEF With
<1>3. \A w, v : ToldRight(Says(p, w, v))
  BY SaysRight
<1>4. /\ InputBit(p) \in ChipBit /\ StrengthBit(p) \in ChipBit /\ PullUp30Bit(p) \in ChipBit
      /\ PinBit("oen", p) \in ChipBit /\ PinBit("out", p) \in ChipBit
      /\ PinBit("func", p) \in ChipBit
  BY ChipBits
<1>5. ASSUME NEW v \in BOOLEAN,
             \/ gpio_set_output_en(p, v) \/ gpio_set_input_en(p, v)
             \/ gpio_set_data_strength(p, v) \/ gpio_write(p, v)
      PROVE  PinShape'
  <2>1. CASE gpio_set_output_en(p, v)
    BY <1>2, <1>3, <1>4, <2>1, ShapeOfCall DEF gpio_set_output_en
  <2>2. CASE gpio_set_input_en(p, v)
    BY <1>2, <1>3, <1>4, <2>2, ShapeOfCall DEF gpio_set_input_en
  <2>3. CASE gpio_set_data_strength(p, v)
    BY <1>2, <1>3, <1>4, <2>3, ShapeOfCall DEF gpio_set_data_strength
  <2>4. CASE gpio_write(p, v)
    BY <1>2, <1>3, <1>4, <2>4, ShapeOfCall DEF gpio_write
  <2> QED
    BY <1>5, <2>1, <2>2, <2>3, <2>4
<1>6. CASE gpio_toggle(p)
  BY <1>2, <1>3, <1>4, <1>6, ShapeOfCall DEF gpio_toggle
<1>7. ASSUME NEW f \in {0, AS_GPIO}, gpio_set_func(p, f) PROVE PinShape'
  <2> DEFINE m == [r \in IF f = AS_GPIO THEN {} ELSE {reg_gpio_func_mux(p)} |-> f]
             set == IF f = AS_GPIO THEN NoneYet ELSE Says(p, "mux", f)
  <2>1. MuxRight(m)
    BY DEF MuxRight, AS_GPIO
  <2>2. ToldRight(set) /\ ToldRight(Says(p, "gpio", f = AS_GPIO))
    BY <1>3, NoneRight
  <2> HIDE DEF m, set
  <2>3. /\ OneCall /\ on' = With(on, PinBit("func", p), f = AS_GPIO) /\ mux' = Onto(m, mux)
        /\ told' = Onto(Onto(Says(p, "gpio", f = AS_GPIO), set), told) /\ src' = src
    BY <1>7 DEF gpio_set_func, m, set
  <2>4. MuxRight(mux') /\ ToldRight(told')
    BY <1>1, <2>1, <2>2, <2>3, OntoRight
  <2>5. on' \subseteq ChipBit
    BY <1>2, <1>4, <2>3
  <2>6. MuxRight(mux)' /\ ToldRight(told)'
    BY <2>4 DEF MuxRight, ToldRight
  <2> QED
    BY <2>3, <2>5, <2>6, OneMore DEF PinShape
<1>8. ASSUME NEW v \in 0 .. 3, gpio_setup_up_down_resistor(p, v) PROVE PinShape'
  BY <1>1, <1>3, <1>8, ResistorBits, ShapeOfCall DEF gpio_setup_up_down_resistor
<1>9. CASE PULL_TOGGLE(p)
  BY <1>1, <1>3, <1>9, ResistorBits, ShapeOfCall DEF PULL_TOGGLE
<1>10. CASE gpio_set_pullup_res_30k(p)
  <2>1. ToldRight([s \in {p} \X {"output", "level"} |-> s[2] = "level"])
    BY AboutRight
  <2>2. /\ on \cup {PullUp30Bit(p)} \subseteq ChipBit
        /\ on \cup {PinBit("oen", p), PinBit("out", p)} \subseteq ChipBit
    BY <1>1, <1>4
  <2>3. CASE p[1] = GroupC
    <3>1. Call(on \cup {PullUp30Bit(p)}, Says(p, "pull30", TRUE))
      BY <1>10, <2>3 DEF gpio_set_pullup_res_30k
    <3> QED
      BY <1>3, <2>2, <3>1, ShapeOfCall
  <2>4. CASE p[1] # GroupC
    <3>1. Call(on \cup {PinBit("oen", p), PinBit("out", p)},
               [s \in {p} \X {"output", "level"} |-> s[2] = "level"])
      BY <1>10, <2>4 DEF gpio_set_pullup_res_30k
    <3> QED
      BY <2>1, <2>2, <3>1, ShapeOfCall
  <2> QED
    BY <2>3, <2>4
<1>11. CASE gpio_shutdown(p)
  <2>1. ToldRight(Shut(p))
    BY AboutRight DEF Shut
  <2> DEFINE rest == IF p = SWS THEN on ELSE (on \ {InputBit(p)}) \cup {PinBit("func", p)}
             bits == (rest \ {PinBit("out", p)}) \cup {PinBit("oen", p)}
  <2>2. bits \subseteq ChipBit
    BY <1>1, <1>4
  <2>3. Call(bits, Shut(p))
    BY <1>11 DEF gpio_shutdown
  <2> HIDE DEF bits
  <2> QED
    BY <2>1, <2>2, <2>3, ShapeOfCall
<1> QED
  BY <1>5, <1>6, <1>7, <1>8, <1>9, <1>10, <1>11 DEF PinSettings

LEMMA ShapeOfTrigger ==
    ASSUME NEW p \in Pin, NEW B \in SUBSET ChipBit, NEW falling, NEW level
    PROVE  Trigger(B, p, falling, level) \subseteq ChipBit
<1>1. PinBit("pol", p) \in ChipBit /\ LevelBit(p) \in ChipBit
  BY ChipBits
<1> QED
  BY <1>1 DEF Trigger, With

LEMMA ShapeOfTriggered ==
    ASSUME NEW p \in Pin, NEW falling, NEW level, NEW P, ToldRight(P), ToldRight(told)
    PROVE  ToldRight(Triggered(p, falling, level, P))
<1> DEFINE kept == Restrict(told, DOMAIN told \ Disturbed(p))
<1>1. ToldRight(kept)
  BY DEF ToldRight, Restrict
<1>2. ToldRight(Onto(P, Says(p, "trigger", <<falling, level>>)))
  BY SaysRight, OntoRight
<1> HIDE DEF kept
<1>3. ToldRight(Onto(Onto(P, Says(p, "trigger", <<falling, level>>)), kept))
  BY <1>1, <1>2, OntoRight
<1> QED
  BY <1>3 DEF Triggered, kept

LEMMA ShapeOfInterrupt ==
    ASSUME PinShape, NEW p \in Pin, PinInterrupts(p)
    PROVE  PinShape'
<1>1. on \subseteq ChipBit /\ MuxRight(mux) /\ ToldRight(told)
  BY DEF PinShape
<1>2. src \subseteq {"irq", "risc0", "risc1", "pad", "other"}
  BY DEF PinShape
<1>3. /\ InputBit(p) \in ChipBit /\ PinBit("oen", p) \in ChipBit
      /\ PinBit("func", p) \in ChipBit /\ PadMaskBit(p) \in ChipBit
      /\ CoreInterruptBit \in ChipBit
      /\ \A k \in {"irq", "risc0", "risc1", "risc2"} : IrqBit(k, p) \in ChipBit
      /\ \A k \in {"irq", "risc0", "risc1", "pad"} : MaskBit(FLD_IRQ_GPIO[k]) \in ChipBit
  BY ChipBits, ControlBits DEF IrqKind
<1> PICK falling \in BOOLEAN :
        \/ \E kind \in {"irq", "risc0", "risc1"} : gpio_set_interrupt(kind, p, falling)
        \/ \E kind \in {"irq", "risc0", "risc1"} : gpio_en_interrupt(kind, p, falling)
        \/ \E level \in BOOLEAN : gpio_set_src_irq(p, falling, level)
        \/ \E t \in 0 .. 2 : timer_gpio_init(t, p, falling)
  BY DEF PinInterrupts
<1>4. ASSUME OneCall, on' \subseteq ChipBit, ToldRight(told'), mux' = mux, src' \subseteq src
      PROVE  PinShape'
  <2>1. ToldRight(told)' /\ MuxRight(mux)'
    BY <1>1, <1>4 DEF ToldRight, MuxRight
  <2> QED
    BY <1>2, <1>4, <2>1, OneMore DEF PinShape
<1>5. ASSUME NEW k \in {"irq", "risc0", "risc1"}, gpio_set_interrupt(k, p, falling)
      PROVE  PinShape'
  <2> DEFINE B == on \cup {IrqBit(k, p), MaskBit(FLD_IRQ_GPIO[k])}
                     \cup (IF k = "irq" THEN {CoreInterruptBit} ELSE {})
  <2>1. B \subseteq ChipBit
    BY <1>1, <1>3
  <2>2. OneCall /\ on' = Trigger(B, p, falling, FALSE) /\ mux' = mux /\ src' \subseteq src
        /\ told' = Triggered(p, falling, FALSE, Says(p, k, TRUE))
    BY <1>5 DEF gpio_set_interrupt
  <2> HIDE DEF B
  <2>3. on' \subseteq ChipBit /\ ToldRight(told')
    BY <1>1, <2>1, <2>2, ShapeOfTrigger, ShapeOfTriggered, SaysRight
  <2> QED
    BY <1>4, <2>2, <2>3
<1>6. ASSUME NEW k \in {"irq", "risc0", "risc1"}, gpio_en_interrupt(k, p, falling)
      PROVE  PinShape'
  <2>1. With(on, IrqBit(k, p), falling) \subseteq ChipBit
    BY <1>1, <1>3 DEF With
  <2> QED
    BY <1>6, <2>1, ShapeOfCall, SaysRight DEF gpio_en_interrupt
<1>7. ASSUME NEW level \in BOOLEAN, gpio_set_src_irq(p, falling, level) PROVE PinShape'
  <2> DEFINE B == on \cup {PadMaskBit(p), MaskBit(FLD_IRQ_GPIO["pad"])}
  <2>1. B \subseteq ChipBit
    BY <1>1, <1>3
  <2>2. OneCall /\ on' = Trigger(B, p, falling, level) /\ mux' = mux /\ src' \subseteq src
        /\ told' = Triggered(p, falling, level, NoneYet)
    BY <1>7 DEF gpio_set_src_irq
  <2> HIDE DEF B
  <2>3. on' \subseteq ChipBit /\ ToldRight(told')
    BY <1>1, <2>1, <2>2, ShapeOfTrigger, ShapeOfTriggered, NoneRight
  <2> QED
    BY <1>4, <2>2, <2>3
<1>8. ASSUME NEW t \in 0 .. 2, timer_gpio_init(t, p, falling) PROVE PinShape'
  <2> DEFINE kind == <<"risc0", "risc1", "risc2">>[t + 1]
             pull == IF falling THEN PM_PIN_PULLUP_10K ELSE PM_PIN_PULLDOWN_100K
             set == on \cup {PinBit("oen", p), IrqBit(kind, p), InputBit(p), PinBit("func", p)}
             B == Resistor(set, base_ana_reg(p), p, pull)
             P == [s \in {p} \X {"output", kind, "input", "pull", "gpio"} |->
                     CASE s[2] = "output" -> FALSE [] s[2] = "pull" -> pull [] OTHER -> TRUE]
  <2>1. kind \in {"irq", "risc0", "risc1", "risc2"}
    OBVIOUS
  <2>2. set \subseteq ChipBit
    BY <1>1, <1>3, <2>1
  <2>3. p[1] # GroupE /\ OneCall /\ on' = Trigger(B, p, falling, FALSE) /\ mux' = mux
        /\ src' \subseteq src /\ told' = Triggered(p, falling, FALSE, P)
    BY <1>8 DEF timer_gpio_init
  <2>4. ToldRight(P)
    <3>1. DOMAIN P = {p} \X {"output", kind, "input", "pull", "gpio"}
      OBVIOUS
    <3> HIDE DEF P, kind
    <3> QED
      BY <3>1, AboutRight
  <2>5. B \subseteq ChipBit
    <3> HIDE DEF set, pull
    <3> QED
      BY <2>2, <2>3, ResistorBits
  <2> HIDE DEF B, P
  <2>6. on' \subseteq ChipBit /\ ToldRight(told')
    BY <1>1, <2>3, <2>4, <2>5, ShapeOfTrigger, ShapeOfTriggered
  <2> QED
    BY <1>4, <2>3, <2>6
<1> QED
  BY <1>5, <1>6, <1>7, <1>8

LEMMA ShapeOfInit ==
    ASSUME PinShape, NEW v \in BOOLEAN, gpio_init(v)
    PROVE  PinShape'
<1> DEFINE cleared == {q \in WatchedPin : q[1] \notin {GroupC, GroupE}}
           promised == WatchedPin \X {"input", "output", "level", "strong", "gpio"}
                         \cup cleared \X {"irq"}
                         \cup (IF v THEN {q \in WatchedPin : q[1] # GroupE} \X {"pull"} ELSE {})
           P == [s \in promised |-> Configured(s[1], s[2])]
           kept == Restrict(told, DOMAIN told \ (cleared \X {"trigger"}))
<1>1. /\ on \subseteq ChipBit /\ MuxRight(mux) /\ ToldRight(told)
      /\ src \subseteq {"irq", "risc0", "risc1", "pad", "other"}
  BY DEF PinShape
<1>2. /\ OneCall /\ on' = {b \in on : b[1] \notin Written(v)} \cup ConfiguredBits(v)
      /\ told' = Onto(P, kept) /\ mux' = mux /\ src' = src
  BY DEF gpio_init
<1>3. \A s \in promised : s[1] \in Pin
  BY PinAssumption
<1>4. ToldRight(P)
  <2> HIDE DEF promised
  <2> QED
    BY <1>3 DEF ToldRight
<1>5. ToldRight(kept)
  <2> HIDE DEF cleared
  <2> QED
    BY <1>1 DEF ToldRight, Restrict
<1> HIDE DEF P, kept
<1>6. ToldRight(told')
  BY <1>2, <1>4, <1>5, OntoRight
<1>7. ToldRight(told)' /\ MuxRight(mux)'
  BY <1>1, <1>2, <1>6 DEF ToldRight, MuxRight
<1>8. on' \subseteq ChipBit
  BY <1>1, <1>2, ConfiguredIsBit
<1> QED
  BY <1>1, <1>2, <1>7, <1>8, OneMore DEF PinShape

LEMMA ShapeOfShutdown ==
    ASSUME PinShape, gpio_shutdown_all
    PROVE  PinShape'
<1> DEFINE groups == {0, 1, GroupC, 3, GroupF}
           cleared == {reg_gpio(f, g) : f \in {"out", "oen", "func"}, g \in groups}
                        \cup {reg_gpio("ie", g) : g \in groups \ {GroupC}} \cup {Areg(192)}
           high == {<<reg_gpio(f, g), n>> : f \in {"oen", "func"}, g \in groups, n \in 0 .. 7}
           shut == {<<p, w>> : p \in {q \in WatchedPin : q[1] # GroupE},
                               w \in {"output", "level", "input", "gpio"}}
           P == [s \in shut |-> (s[2] = "gpio" /\ s[1] # SWS) \/ (s[2] = "input" /\ s[1] = SWS)]
           B == {b \in on : b[1] \notin cleared} \cup (high \ {PinBit("func", SWS)})
                  \cup {InputBit(SWS)}
<1>1. on \subseteq ChipBit
  BY DEF PinShape
<1>2. Call(B, P)
  BY DEF gpio_shutdown_all
<1>3. high \subseteq ChipBit
  <2>1. groups \subseteq 0 .. 5
    BY DEF GroupC, GroupF
  <2>2. {"oen", "func"} \subseteq DOMAIN Offset
    BY DEF Offset
  <2> HIDE DEF groups
  <2> SUFFICES ASSUME NEW b \in high PROVE b \in ChipBit
    OBVIOUS
  <2>3. PICK f \in {"oen", "func"}, g \in groups, n \in 0 .. 7 : b = <<reg_gpio(f, g), n>>
    OBVIOUS
  <2>4. f \in DOMAIN Offset /\ g \in 0 .. 5
    BY <2>1, <2>2
  <2> HIDE DEF high
  <2>5. <<reg_gpio(f, g), n>> \in ChipBit
    BY <2>4, FieldIsBit
  <2> QED
    BY <2>3, <2>5
<1>4. InputBit(SWS) \in ChipBit
  <2>1. SWS \in Pin
    BY SWSIsPin
  <2> QED
    BY <2>1, ChipBits
<1>5. B \subseteq ChipBit
  <2> HIDE DEF cleared, high
  <2> QED
    BY <1>1, <1>3, <1>4
<1>6. ToldRight(P)
  <2>1. \A s \in shut : s[1] \in Pin
    BY PinAssumption
  <2> HIDE DEF shut
  <2> QED
    BY <2>1 DEF ToldRight
<1> HIDE DEF B, P
<1> QED
  BY <1>2, <1>5, <1>6, ShapeOfCall

LEMMA ShapeOfUsb ==
    ASSUME PinShape, usb_set_pin_en
    PROVE  PinShape'
<1> DEFINE pins == UsbPin
           P == [s \in pins \X {"gpio", "mux", "input"} |->
                   CASE s[2] = "gpio" -> FALSE [] s[2] = "mux" -> 0 [] OTHER -> TRUE]
           m == [r \in {reg_gpio_func_mux(p) : p \in pins} |-> 0]
<1>1. /\ on \subseteq ChipBit /\ MuxRight(mux) /\ ToldRight(told)
      /\ src \subseteq {"irq", "risc0", "risc1", "pad", "other"}
  BY DEF PinShape
<1>2. /\ OneCall /\ told' = Onto(P, told) /\ mux' = Onto(m, mux) /\ src' = src
      /\ on' = (on \ {PinBit("func", p) : p \in pins})
                  \cup {InputBit(p) : p \in pins} \cup {DpPullUpBit}
  BY DEF usb_set_pin_en
<1>3. pins \subseteq Pin
  BY PinAssumption
<1> HIDE DEF pins
<1>4. ToldRight(P)
  BY <1>3 DEF ToldRight
<1>5. MuxRight(m)
  BY DEF MuxRight
<1> HIDE DEF P, m
<1>6. ToldRight(told') /\ MuxRight(mux')
  BY <1>1, <1>2, <1>4, <1>5, OntoRight
<1>7. ToldRight(told)' /\ MuxRight(mux)'
  BY <1>6 DEF ToldRight, MuxRight
<1>8. on' \subseteq ChipBit
  BY <1>1, <1>2, <1>3, ChipBits, ControlBits
<1> QED
  BY <1>1, <1>2, <1>7, <1>8, OneMore DEF PinShape

LEMMA ShapeOfTimers ==
    ASSUME PinShape, Timers
    PROVE  PinShape'
<1>1. on \subseteq ChipBit
  BY DEF PinShape
<1>2. reg_tmr_ctrl \in (1280 .. 1632) \cup (Areg(0) .. Areg(255))
  BY DEF reg_tmr_ctrl
<1>3. /\ WdEnableBit \in ChipBit
      /\ \A t \in 0 .. 2 : EnableBit(t) \in ChipBit /\ MaskBit(t) \in ChipBit
  BY ControlBits
<1>4. ASSUME NEW t \in 0 .. 2, timer_start(t) \/ timer_stop(t) PROVE PinShape'
  BY <1>1, <1>3, <1>4, ShapeOfTimerCall DEF timer_start, timer_stop
<1>5. ASSUME NEW t \in 0 .. 2, NEW mode \in 0 .. 3, timer_set_mode(t, mode) PROVE PinShape'
  <2>1. Holding(reg_tmr_ctrl, 3 * t + 1, 2, mode) \subseteq ChipBit
    BY <1>2, HoldingBits
  <2> QED
    BY <1>1, <1>3, <1>5, <2>1, ShapeOfTimerCall DEF timer_set_mode
<1>6. ASSUME NEW v \in WdTicks, wd_set_interval_ms(v) PROVE PinShape'
  <2>1. /\ Holding(reg_tmr_ctrl, 9, 7, v) \subseteq ChipBit
        /\ Holding(reg_tmr_ctrl, 16, 7, v \div 256) \subseteq ChipBit
    BY <1>2, HoldingBits
  <2> QED
    BY <1>1, <1>6, <2>1, ShapeOfTimerCall DEF wd_set_interval_ms
<1>7. CASE wd_start
  BY <1>1, <1>3, <1>7, ShapeOfTimerCall DEF wd_start
<1>8. CASE wd_stop
  BY <1>1, <1>8, ShapeOfTimerCall DEF wd_stop
<1> QED
  BY <1>4, <1>5, <1>6, <1>7, <1>8 DEF Timers

LEMMA ShapeOfStep == PinShape /\ [PinNext]_pinVars => PinShape'
<1> SUFFICES ASSUME PinShape, [PinNext]_pinVars PROVE PinShape'
  OBVIOUS
<1>1. CalledPin \subseteq Pin
  BY PinAssumption
<1>2. ASSUME NEW p \in CalledPin, PinSettings(p) \/ PinInterrupts(p) PROVE PinShape'
  BY <1>1, <1>2, ShapeOfSetting, ShapeOfInterrupt
<1>3. ASSUME NEW v \in BOOLEAN, gpio_init(v) PROVE PinShape'
  BY <1>3, ShapeOfInit
<1>4. ASSUME on' \subseteq ChipBit, told' = told, mux' = mux,
             src' \subseteq {"irq", "risc0", "risc1", "pad", "other"}, calls' \in 0 .. MaxCalls
      PROVE  PinShape'
  BY <1>4 DEF PinShape, ToldRight, MuxRight
<1>5. ASSUME NEW k \in {"irq", "risc0", "risc1", "pad"}, NEW v \in BOOLEAN, gpio_irq_mask(k, v)
      PROVE  PinShape'
  <2>1. on' \subseteq ChipBit
    BY <1>5, ControlBits DEF gpio_irq_mask, With, PinShape
  <2> QED
    BY <1>4, <1>5, <2>1, OneMore DEF gpio_irq_mask, PinShape
<1>6. ASSUME NEW k \in {"irq", "risc0", "risc1", "pad", "other"},
             gpio_clr_irq_status(k) \/ Raise(k)
      PROVE  PinShape'
  BY <1>4, <1>6 DEF gpio_clr_irq_status, Raise, PinShape
<1>7. CASE UNCHANGED pinVars
  BY <1>4, <1>7 DEF pinVars, PinShape
<1> QED
  BY <1>2, <1>3, <1>5, <1>6, <1>7, ShapeOfShutdown, ShapeOfUsb, ShapeOfTimers DEF PinNext

LEMMA ShapeAtFirst == PinInit => PinShape
BY NoneRight, PinAssumption DEF PinInit, PinShape, NoneYet, MuxRight, ToldRight

(* The bits that the functions of gpio.c, gpio.h, timer.c and watchdog.h set are all in the
   registers of the chip's pins and timers, whatever the pin, and what they are told to
   promise is about pins of the chip. *)
THEOREM PinTypeCorrect == PinSpec => []PinTypeOK
BY ShapeAtFirst, ShapeOfStep, ShapeIsType, PTL DEF PinSpec

(***************************************************************************)
(* The flash's test is right.                                              *)
(***************************************************************************)
IsLong == mid = mid136085
LockStep == IF IsLong THEN 6 ELSE 5
UnlockStep == IF IsLong THEN 10 ELSE 8
LastStep == IF mid = other THEN 4 ELSE IF IsLong THEN 16 ELSE 10

LEMMA MidIs ==
    ASSUME mid \in Mid
    PROVE  /\ mid = other => mid.bits = {} /\ ~IsLong
           /\ mid # other => mid.set # {} /\ mid.set \subseteq mid.bits
           /\ mid.bits \subseteq Bit /\ mid.bits \cap OtherBit = {}
<1>1. mid136085 # other
  <2>1. mid136085.set # other.set
    BY DEF mid136085, other, Lock
  <2> QED
    BY <2>1
<1>2. mid # other => mid.set # {} /\ mid.set \subseteq mid.bits
  BY DEF Mid, mid1160c8, mid1360c8, mid114485, mid136085, other, Lock
<1>3. mid.bits \subseteq Bit /\ mid.bits \cap OtherBit = {}
  BY DEF Mid, mid1160c8, mid1360c8, mid114485, mid136085, other, Lock, Bit, OtherBit
<1> QED
  BY <1>1, <1>2, <1>3 DEF IsLong, other, Lock

Steps ==
    {Op("erase", "sector"), Op("program", "sector"), Op("wps", "sector"), Op("lock", "sector"),
     Op("unlock", "sector"), Op("erase", "security"), Op("program", "security"),
     Check("blank", "sector", 0, "erase_err"), Check("same", "sector", 1, "write_err"),
     Check("same", "sector", 1, "lock_err"), Check("blank", "sector", 1, "unlock_err"),
     Check("blank", "security", 0, "otp_erase_err"), Check("same", "security", 1, "otp_write_err")}

LEMMA Joined ==
    ASSUME NEW s \in Seq(Steps), NEW t \in Seq(Steps)
    PROVE  /\ s \o t \in Seq(Steps)
           /\ Len(s \o t) = Len(s) + Len(t)
           /\ \A j \in 1 .. Len(s) : (s \o t)[j] = s[j]
           /\ \A j \in Len(s) + 1 .. Len(s) + Len(t) : (s \o t)[j] = t[j - Len(s)]
OBVIOUS

LEMMA UserInit ==
    /\ user_init \in Seq(Steps) /\ Len(user_init) = 4
    /\ user_init[1] = Op("erase", "sector")
       /\ user_init[2] = Check("blank", "sector", 0, "erase_err")
    /\ user_init[3] = Op("program", "sector")
       /\ user_init[4] = Check("same", "sector", 1, "write_err")
BY DEF user_init, Steps

LEMMA OtpTest ==
    /\ flash_otp_test \in Seq(Steps) /\ Len(flash_otp_test) = 4
    /\ flash_otp_test[1] = Op("erase", "security")
    /\ flash_otp_test[2] = Check("blank", "security", 0, "otp_erase_err")
    /\ flash_otp_test[3] = Op("program", "security")
    /\ flash_otp_test[4] = Check("same", "security", 1, "otp_write_err")
BY DEF flash_otp_test, Steps

LEMMA MidTest ==
    /\ flash_mid_test \in Seq(Steps)
    /\ ~IsLong =>
         /\ Len(flash_mid_test) = 6
         /\ flash_mid_test[1] = Op("lock", "sector") /\ flash_mid_test[2] = Op("erase", "sector")
         /\ flash_mid_test[3] = Check("same", "sector", 1, "lock_err")
         /\ flash_mid_test[4] = Op("unlock", "sector") /\ flash_mid_test[5] = Op("erase", "sector")
         /\ flash_mid_test[6] = Check("blank", "sector", 1, "unlock_err")
    /\ IsLong =>
         /\ Len(flash_mid_test) = 8
         /\ flash_mid_test[1] = Op("wps", "sector")
         /\ flash_mid_test[2] = Op("lock", "sector") /\ flash_mid_test[3] = Op("erase", "sector")
         /\ flash_mid_test[4] = Check("same", "sector", 1, "lock_err")
         /\ flash_mid_test[5] = Op("wps", "sector")
         /\ flash_mid_test[6] = Op("unlock", "sector") /\ flash_mid_test[7] = Op("erase", "sector")
         /\ flash_mid_test[8] = Check("blank", "sector", 1, "unlock_err")
<1> DEFINE a == <<Op("lock", "sector"), Op("erase", "sector"), Check("same", "sector", 1, "lock_err")>>
           b == <<Op("unlock", "sector"), Op("erase", "sector"), Check("blank", "sector", 1, "unlock_err")>>
           w == WpsFirst
<1>1. flash_mid_test = (((w \o a) \o w) \o b)
  BY DEF flash_mid_test
<1>2. /\ Len(a) = 3 /\ Len(b) = 3
      /\ a[1] = Op("lock", "sector") /\ a[2] = Op("erase", "sector")
         /\ a[3] = Check("same", "sector", 1, "lock_err")
      /\ b[1] = Op("unlock", "sector") /\ b[2] = Op("erase", "sector")
      /\ b[3] = Check("blank", "sector", 1, "unlock_err")
  OBVIOUS
<1>3. a \in Seq(Steps) /\ b \in Seq(Steps)
  BY DEF Steps
<1>4. /\ w \in Seq(Steps) /\ Len(w) = IF IsLong THEN 1 ELSE 0
      /\ IsLong => w[1] = Op("wps", "sector")
  <2>1. Op("wps", "sector") \in Steps
    BY DEF Steps
  <2>2. CASE IsLong
    BY <2>1, <2>2 DEF WpsFirst, IsLong
  <2>3. CASE ~IsLong
    <3>1. w = << >>
      BY <2>3 DEF WpsFirst, IsLong
    <3> HIDE DEF w
    <3> QED
      BY <2>3, <3>1
  <2> QED
    BY <2>2, <2>3
<1> DEFINE wa == w \o a
           waw == wa \o w
<1> HIDE DEF a, b, w
<1>5. /\ wa \in Seq(Steps) /\ Len(wa) = Len(w) + 3
      /\ \A j \in 1 .. Len(w) : wa[j] = w[j]
      /\ \A j \in Len(w) + 1 .. Len(w) + 3 : wa[j] = a[j - Len(w)]
  <2>1. /\ wa \in Seq(Steps) /\ Len(wa) = Len(w) + Len(a)
        /\ \A j \in 1 .. Len(w) : wa[j] = w[j]
        /\ \A j \in Len(w) + 1 .. Len(w) + Len(a) : wa[j] = a[j - Len(w)]
    BY <1>3, <1>4, Joined
  <2>2. Len(a) = 3
    BY <1>2
  <2> QED
    BY <2>1, <2>2
<1> HIDE DEF wa
<1>6. /\ waw \in Seq(Steps) /\ Len(waw) = Len(wa) + Len(w)
      /\ \A j \in 1 .. Len(wa) : waw[j] = wa[j]
      /\ \A j \in Len(wa) + 1 .. Len(wa) + Len(w) : waw[j] = w[j - Len(wa)]
  BY <1>4, <1>5, Joined
<1> HIDE DEF waw
<1>7. /\ flash_mid_test \in Seq(Steps) /\ Len(flash_mid_test) = Len(waw) + 3
      /\ \A j \in 1 .. Len(waw) : flash_mid_test[j] = waw[j]
      /\ \A j \in Len(waw) + 1 .. Len(waw) + 3 : flash_mid_test[j] = b[j - Len(waw)]
  <2>1. flash_mid_test = waw \o b
    BY <1>1 DEF wa, waw
  <2>2. /\ waw \o b \in Seq(Steps) /\ Len(waw \o b) = Len(waw) + Len(b)
        /\ \A j \in 1 .. Len(waw) : (waw \o b)[j] = waw[j]
        /\ \A j \in Len(waw) + 1 .. Len(waw) + Len(b) : (waw \o b)[j] = b[j - Len(waw)]
    BY <1>3, <1>6, Joined
  <2>3. Len(b) = 3
    BY <1>2
  <2> QED
    BY <2>1, <2>2, <2>3
<1>8. CASE IsLong
  <2>1. Len(w) = 1 /\ Len(wa) = 4 /\ Len(waw) = 5 /\ Len(flash_mid_test) = 8
    BY <1>4, <1>5, <1>6, <1>7, <1>8
  <2>2. wa[1] = w[1] /\ wa[2] = a[1] /\ wa[3] = a[2] /\ wa[4] = a[3]
    BY <1>5, <2>1
  <2>3. waw[1] = wa[1] /\ waw[2] = wa[2] /\ waw[3] = wa[3] /\ waw[4] = wa[4] /\ waw[5] = w[1]
    BY <1>6, <2>1
  <2>4. \A j \in 1 .. 5 : flash_mid_test[j] = waw[j]
    BY <1>7, <2>1
  <2>5. flash_mid_test[6] = b[1] /\ flash_mid_test[7] = b[2] /\ flash_mid_test[8] = b[3]
    BY <1>7, <2>1
  <2> QED
    BY <1>2, <1>4, <1>7, <1>8, <2>1, <2>2, <2>3, <2>4, <2>5
<1>9. CASE ~IsLong
  <2>1. Len(w) = 0 /\ Len(wa) = 3 /\ Len(waw) = 3 /\ Len(flash_mid_test) = 6
    BY <1>4, <1>5, <1>6, <1>7, <1>9
  <2>2. wa[1] = a[1] /\ wa[2] = a[2] /\ wa[3] = a[3]
    BY <1>5, <2>1
  <2>3. waw[1] = wa[1] /\ waw[2] = wa[2] /\ waw[3] = wa[3]
    BY <1>6, <2>1
  <2>4. \A j \in 1 .. 3 : flash_mid_test[j] = waw[j]
    BY <1>7, <2>1
  <2>5. flash_mid_test[4] = b[1] /\ flash_mid_test[5] = b[2] /\ flash_mid_test[6] = b[3]
    BY <1>7, <2>1
  <2> QED
    BY <1>2, <1>7, <1>9, <2>1, <2>2, <2>3, <2>4, <2>5
<1> QED
  BY <1>8, <1>9

LEMMA TestIs ==
    ASSUME mid \in Mid
    PROVE  /\ Test \in Seq(Steps) /\ Len(Test) = LastStep
           /\ \A j \in 1 .. 4 : Test[j] = user_init[j]
           /\ mid # other => \A j \in 5 .. UnlockStep + 2 : Test[j] = flash_mid_test[j - 4]
           /\ IsLong => \A j \in 13 .. 16 : Test[j] = flash_otp_test[j - 12]
<1> DEFINE m == IF mid = other THEN <<>> ELSE flash_mid_test
           o == IF mid = mid136085 THEN flash_otp_test ELSE <<>>
           um == user_init \o m
<1>1. Test = um \o o
  BY DEF Test
<1>2. m \in Seq(Steps) /\ o \in Seq(Steps)
  BY MidTest, OtpTest
<1>3. /\ mid = other => Len(m) = 0 /\ Len(o) = 0
      /\ mid # other => m = flash_mid_test
      /\ IsLong => o = flash_otp_test
      /\ ~IsLong => Len(o) = 0
  BY MidIs DEF IsLong
<1> HIDE DEF m, o
<1>4. /\ um \in Seq(Steps) /\ Len(um) = 4 + Len(m)
      /\ \A j \in 1 .. 4 : um[j] = user_init[j]
      /\ \A j \in 5 .. 4 + Len(m) : um[j] = m[j - 4]
  <2>1. Len(user_init) = 4
    BY UserInit
  <2>2. user_init \in Seq(Steps)
    BY UserInit
  <2> DEFINE u == user_init
  <2> HIDE DEF u
  <2>3. /\ u \o m \in Seq(Steps) /\ Len(u \o m) = Len(u) + Len(m)
        /\ \A j \in 1 .. Len(u) : (u \o m)[j] = u[j]
        /\ \A j \in Len(u) + 1 .. Len(u) + Len(m) : (u \o m)[j] = m[j - Len(u)]
    BY <1>2, <2>2, Joined DEF u
  <2>4. Len(u) = 4 /\ u \o m = um /\ u = user_init
    BY <2>1 DEF u
  <2> HIDE DEF um
  <2> QED
    BY <2>3, <2>4
<1> HIDE DEF um
<1>5. /\ Test \in Seq(Steps) /\ Len(Test) = Len(um) + Len(o)
      /\ \A j \in 1 .. Len(um) : Test[j] = um[j]
      /\ \A j \in Len(um) + 1 .. Len(um) + Len(o) : Test[j] = o[j - Len(um)]
  BY <1>1, <1>2, <1>4, Joined
<1>6. CASE mid = other
  BY <1>3, <1>4, <1>5, <1>6, MidIs DEF LastStep
<1>7. CASE mid # other /\ ~IsLong
  <2>1. Len(m) = 6 /\ Len(um) = 10 /\ Len(o) = 0 /\ LastStep = 10 /\ UnlockStep + 2 = 10
    <3>1. Len(m) = 6
      BY <1>3, <1>7, MidTest
    <3> QED
      BY <1>3, <1>4, <1>7, <3>1 DEF LastStep, UnlockStep
  <2> QED
    BY <1>3, <1>4, <1>5, <1>7, <2>1
<1>8. CASE IsLong
  <2>1. mid # other
    BY <1>8, MidIs
  <2>2. Len(m) = 8 /\ Len(um) = 12 /\ Len(o) = 4 /\ LastStep = 16 /\ UnlockStep + 2 = 12
    <3>1. Len(m) = 8
      BY <1>3, <1>8, <2>1, MidTest
    <3>2. Len(o) = 4
      BY <1>3, <1>8, OtpTest
    <3> QED
      BY <1>4, <1>8, <2>1, <3>1, <3>2 DEF LastStep, UnlockStep
  <2> QED
    BY <1>3, <1>4, <1>5, <1>8, <2>1, <2>2
<1> QED
  BY <1>6, <1>7, <1>8

(* What an area may hold during the test. *)
Blank(area) == \A c \in Cell : area_cells[area][c] = "erased"
Half(area) == area_cells[area][1] = "first" /\ area_cells[area][2] = "erased"
Whole(area) == area_cells[area][1] = "first" /\ area_cells[area][2] = "second"

(* The sector is locked by the status register. *)
LockBits == status \cap mid.bits # {}

(* What the cells hold at each step of a test that began unlocked. *)
CellsAtStep ==
    /\ step = 2 \/ (step = 3 /\ programmed = 0) => Blank("sector")
    /\ step = 3 /\ programmed = 1 => Half("sector")
    /\ step \in 4 .. UnlockStep + 1 => Whole("sector")
    /\ step = UnlockStep + 2 => Blank("sector")
    /\ step = 14 \/ (step = 15 /\ programmed = 0) => Blank("security")
    /\ step = 15 /\ programmed = 1 => Half("security")
    /\ step = 16 => Whole("security")

(* The inductive invariant: each step finds what the steps before it left.  The block
   protection is on between the step that locks and the one that unlocks, and a fall of
   the supply in between leaves a locked sector that is not blank, on which user_init
   fails at its first check when it starts again. *)
FlashInv ==
    /\ FlashTypeOK
    /\ config # {} => IsLong /\ step <= 5 /\ ~LockBits
    /\ programmed = 1 => step \in {3, 15}
    /\ LockBits => area_cells["sector"][1] = "first"
    /\ cut_locked => LockBits /\ step <= 2 /\ err_status \in {"none", "erase_err"}
    /\ ~cut_locked =>
         /\ err_status = "none"
         /\ LockBits <=> (mid # other /\ step \in LockStep + 1 .. UnlockStep)
         /\ CellsAtStep

LEMMA NowIs ==
    ASSUME mid \in Mid, step \in 1 .. LastStep
    PROVE  /\ step = 1 => Now = Op("erase", "sector")
           /\ step = 2 => Now = Check("blank", "sector", 0, "erase_err")
           /\ step = 3 => Now = Op("program", "sector")
           /\ step = 4 => Now = Check("same", "sector", 1, "write_err")
           /\ IsLong /\ step \in {5, 9} => Now = Op("wps", "sector")
           /\ mid # other =>
                /\ step = LockStep => Now = Op("lock", "sector")
                /\ step = LockStep + 1 => Now = Op("erase", "sector")
                /\ step = LockStep + 2 => Now = Check("same", "sector", 1, "lock_err")
                /\ step = UnlockStep => Now = Op("unlock", "sector")
                /\ step = UnlockStep + 1 => Now = Op("erase", "sector")
                /\ step = UnlockStep + 2 => Now = Check("blank", "sector", 1, "unlock_err")
           /\ IsLong =>
                /\ step = 13 => Now = Op("erase", "security")
                /\ step = 14 => Now = Check("blank", "security", 0, "otp_erase_err")
                /\ step = 15 => Now = Op("program", "security")
                /\ step = 16 => Now = Check("same", "security", 1, "otp_write_err")
<1>1. step \in 1 .. 4 => Now = user_init[step]
  BY TestIs DEF Now
<1>2. mid # other /\ step \in 5 .. UnlockStep + 2 => Now = flash_mid_test[step - 4]
  BY TestIs DEF Now
<1>3. IsLong /\ step \in 13 .. 16 => Now = flash_otp_test[step - 12]
  BY TestIs DEF Now
<1>4. IsLong => mid # other
  BY MidIs
<1>5. CASE step \in 1 .. 4
  BY <1>1, <1>5, UserInit DEF LockStep, UnlockStep
<1>6. CASE mid # other /\ ~IsLong /\ step \in 5 .. 10
  <2>1. LockStep = 5 /\ UnlockStep = 8
    BY <1>6 DEF LockStep, UnlockStep
  <2>2. Now = flash_mid_test[step - 4] /\ step - 4 \in 1 .. 6
    BY <1>2, <1>6, <2>1
  <2> QED
    BY <1>6, <2>1, <2>2, MidTest
<1>7. CASE IsLong /\ step \in 5 .. 12
  <2>1. LockStep = 6 /\ UnlockStep = 10
    BY <1>7 DEF LockStep, UnlockStep
  <2>2. Now = flash_mid_test[step - 4] /\ step - 4 \in 1 .. 8
    BY <1>2, <1>4, <1>7, <2>1
  <2> QED
    BY <1>7, <2>1, <2>2, MidTest
<1>8. CASE IsLong /\ step \in 13 .. 16
  <2>1. LockStep = 6 /\ UnlockStep = 10
    BY <1>8 DEF LockStep, UnlockStep
  <2>2. Now = flash_otp_test[step - 12]
    BY <1>3, <1>8
  <2> QED
    BY <1>8, <2>1, <2>2, OtpTest
<1> QED
  BY <1>4, <1>5, <1>6, <1>7, <1>8 DEF LastStep

(* Which steps do what. *)
LEMMA DoesAt ==
    ASSUME mid \in Mid, step \in 1 .. LastStep
    PROVE  /\ Now.area \in Area
           /\ Now.area = "security" <=> (IsLong /\ step >= 13)
           /\ Now.op = "erase" <=>
                \/ step = 1
                \/ mid # other /\ step \in {LockStep + 1, UnlockStep + 1}
                \/ IsLong /\ step = 13
           /\ Now.op = "program" <=>
                \/ step = 3
                \/ IsLong /\ step = 15
           /\ Now.op = "blank" <=>
                \/ step = 2
                \/ mid # other /\ step = UnlockStep + 2
                \/ IsLong /\ step = 14
           /\ Now.op = "same" <=>
                \/ step = 4
                \/ mid # other /\ step = LockStep + 2
                \/ IsLong /\ step = 16
           /\ Now.op = "lock" <=> (mid # other /\ step = LockStep)
           /\ Now.op = "unlock" <=> (mid # other /\ step = UnlockStep)
           /\ Now.op = "wps" <=> (IsLong /\ step \in {5, 9})
           /\ Now.op = "same" => Now.from = 1
           /\ step = 2 => Now.from = 0 /\ Now.err = "erase_err"
           /\ Now.op = "blank" => Now.from \in {0, 1}
<1>1. IsLong => mid # other
  BY MidIs
<1>2. CASE step \in 1 .. 4
  BY <1>1, <1>2, NowIs DEF LockStep, UnlockStep, Op, Check, Area
<1>3. CASE mid # other /\ ~IsLong /\ step \in 5 .. 10
  BY <1>3, NowIs DEF LockStep, UnlockStep, Op, Check, Area
<1>4. CASE IsLong /\ step \in 5 .. 12
  BY <1>1, <1>4, NowIs DEF LockStep, UnlockStep, Op, Check, Area
<1>5. CASE IsLong /\ step \in 13 .. 16
  BY <1>1, <1>5, NowIs DEF LockStep, UnlockStep, Op, Check, Area
<1> QED
  BY <1>1, <1>2, <1>3, <1>4, <1>5 DEF LastStep

LEMMA OneCell ==
    ASSUME NEW cells \in [Cell -> FlashContent], NEW addr \in {1, 2}, NEW x
    PROVE  PageProgram(cells, addr, <<x>>) = [cells EXCEPT ![addr] = Programmed(cells[addr], x)]
<1> DEFINE data == <<x>>
           page == addr - (addr % PAGE_SIZE)
           To(i) == page + ((addr + i - 1) % PAGE_SIZE)
<1>1. Len(data) = 1 /\ data[1] = x /\ 1 .. Len(data) = {1}
  OBVIOUS
<1>2. To(1) = addr
  BY DEF PAGE_SIZE
<1>3. PageProgram(cells, addr, data) =
        [c \in Cell |-> IF \E i \in 1 .. Len(data) : To(i) = c
                        THEN Programmed(cells[c], data[CHOOSE i \in 1 .. Len(data) : To(i) = c])
                        ELSE cells[c]]
  BY DEF PageProgram
<1> HIDE DEF data, To
<1>4. \A c \in Cell : (\E i \in 1 .. Len(data) : To(i) = c) <=> c = addr
  BY <1>1, <1>2
<1>5. (CHOOSE i \in 1 .. Len(data) : To(i) = addr) = 1
  BY <1>1, <1>2
<1> DEFINE new == [c \in Cell |-> IF \E i \in 1 .. Len(data) : To(i) = c
                        THEN Programmed(cells[c], data[CHOOSE i \in 1 .. Len(data) : To(i) = c])
                        ELSE cells[c]]
           old == [cells EXCEPT ![addr] = Programmed(cells[addr], x)]
<1>6. addr \in Cell
  BY DEF Cell
<1>7. \A c \in Cell : new[c] = old[c]
  BY <1>1, <1>4, <1>5, <1>6
<1> QED
  BY <1>3, <1>7 DEF data

LEMMA StepsSame ==
    ASSUME mid' = mid
    PROVE  /\ IsLong' = IsLong /\ LockStep' = LockStep /\ UnlockStep' = UnlockStep
           /\ LastStep' = LastStep /\ Test' = Test
BY DEF IsLong, LockStep, UnlockStep, LastStep, Test, flash_mid_test, WpsFirst

LEMMA StepNumbers ==
    ASSUME mid \in Mid
    PROVE  /\ LastStep \in {4, 10, 16} /\ (mid # other => UnlockStep + 2 <= LastStep)
           /\ (LockStep = 5 /\ UnlockStep = 8 /\ ~IsLong) \/ (LockStep = 6 /\ UnlockStep = 10
              /\ IsLong)
           /\ mid = other => LastStep = 4 /\ ~IsLong
           /\ IsLong => LastStep = 16 /\ mid # other
           /\ mid # other /\ ~IsLong => LastStep = 10
BY MidIs DEF LastStep, LockStep, UnlockStep

LEMMA TypesAre ==
    ASSUME FlashTypeOK
    PROVE  /\ mid \in Mid /\ area_cells \in [Area -> [Cell -> FlashContent]]
           /\ status \subseteq Bit /\ config \subseteq {"WPS"}
           /\ step \in 1 .. LastStep + 1 /\ programmed \in {0, 1} /\ cut_locked \in BOOLEAN
<1>1. FLASH_BUFF_LEN - 1 = 1
  BY DEF FLASH_BUFF_LEN, Flash_Write_Buff
<1> QED
  BY <1>1, TestIs DEF FlashTypeOK

LEMMA TypesStep ==
    ASSUME mid \in Mid, mid' = mid, area_cells' \in [Area -> [Cell -> FlashContent]],
           status' \subseteq Bit, config' \subseteq {"WPS"},
           step' \in 1 .. LastStep + 1, programmed' \in {0, 1}, cut_locked' \in BOOLEAN
    PROVE  FlashTypeOK'
<1>1. FLASH_BUFF_LEN - 1 = 1
  BY DEF FLASH_BUFF_LEN, Flash_Write_Buff
<1>2. Test' = Test /\ Len(Test) = LastStep
  BY StepsSame, TestIs
<1>3. (0 .. FLASH_BUFF_LEN - 1) = {0, 1}
  BY <1>1
<1> QED
  BY <1>2, <1>3 DEF FlashTypeOK

LEMMA DoingIs ==
    ASSUME FlashInv, NEW ops, Doing(ops)
    PROVE  /\ step \in 1 .. LastStep /\ Now.op \in ops /\ err_status = "none"
           /\ Locked <=> LockBits
<1>1. mid \in Mid /\ step \in 1 .. LastStep + 1 /\ Len(Test) = LastStep
  BY TypesAre, TestIs DEF FlashInv
<1>2. step \in 1 .. LastStep /\ LastStep \in Int
  BY <1>1, StepNumbers DEF Doing, Done
<1>3. Locked <=> LockBits
  BY DEF FlashInv, Locked, LockBits
<1> QED
  BY <1>2, <1>3 DEF Doing

LEMMA EraseStep ==
    ASSUME FlashInv, flash_erase
    PROVE  FlashInv'
<1> DEFINE L == LockBits
           gone == [c \in Cell |-> "erased"]
<1>1. /\ Doing({"erase"}) /\ step' = step + 1
      /\ UNCHANGED <<mid, status, config, programmed, err_status, cut_locked>>
      /\ area_cells' = IF Ignored THEN area_cells
                       ELSE [area_cells EXCEPT ![Now.area] = gone]
  BY DEF flash_erase
<1>2. /\ mid \in Mid /\ area_cells \in [Area -> [Cell -> FlashContent]] /\ status \subseteq Bit
      /\ config \subseteq {"WPS"} /\ programmed \in {0, 1} /\ cut_locked \in BOOLEAN
  BY TypesAre DEF FlashInv
<1>3. step \in 1 .. LastStep /\ Now.op = "erase" /\ err_status = "none" /\ (Locked <=> L)
  BY <1>1, DoingIs
<1>4. /\ Now.area \in Area /\ (Now.area = "security" <=> (IsLong /\ step >= 13))
      /\ \/ step = 1
         \/ mid # other /\ step \in {LockStep + 1, UnlockStep + 1}
         \/ IsLong /\ step = 13
  BY <1>2, <1>3, DoesAt
<1>5. LockBits' = L
  BY <1>1 DEF LockBits
<1>6. gone \in [Cell -> FlashContent]
  BY DEF FlashContent
<1>7. Area = {"sector", "security"} /\ 1 \in Cell
  BY DEF Area, Cell
<1>8. area_cells' \in [Area -> [Cell -> FlashContent]]
  BY <1>1, <1>2, <1>4, <1>6
<1>9. FlashTypeOK'
  BY <1>1, <1>2, <1>3, <1>8, StepNumbers, TypesStep
<1>10. IsLong' = IsLong /\ LockStep' = LockStep /\ UnlockStep' = UnlockStep
  BY <1>1, StepsSame
<1>11. /\ config # {} => IsLong /\ step <= 5 /\ ~L
       /\ programmed = 0
       /\ L => area_cells["sector"][1] = "first"
       /\ cut_locked => L /\ step <= 2 /\ err_status \in {"none", "erase_err"}
       /\ ~cut_locked => (L <=> (mid # other /\ step \in LockStep + 1 .. UnlockStep))
       /\ ~cut_locked => CellsAtStep
  <2>1. step \notin {3, 15}
    BY <1>2, <1>4, StepNumbers
  <2> QED
    BY <1>2, <2>1 DEF FlashInv
<1>12. (Ignored <=> Now.area = "sector" /\ L)
  BY <1>3 DEF Ignored
<1> HIDE DEF L
<1>13. config' # {} => IsLong' /\ step' <= 5 /\ ~LockBits'
  BY <1>1, <1>2, <1>3, <1>4, <1>5, <1>10, <1>11, StepNumbers
<1>14. LockBits' => area_cells'["sector"][1] = "first"
  BY <1>1, <1>2, <1>4, <1>5, <1>7, <1>11, <1>12, StepNumbers
<1>15. cut_locked' => LockBits' /\ step' <= 2 /\ err_status' \in {"none", "erase_err"}
  BY <1>1, <1>2, <1>3, <1>4, <1>5, <1>11, StepNumbers
<1>16. ASSUME ~cut_locked'
       PROVE  /\ err_status' = "none"
              /\ LockBits' <=> (mid' # other /\ step' \in LockStep' + 1 .. UnlockStep')
              /\ CellsAtStep'
  <2>1. LockBits' <=> (mid' # other /\ step' \in LockStep' + 1 .. UnlockStep')
    BY <1>1, <1>2, <1>3, <1>4, <1>5, <1>10, <1>11, <1>16, StepNumbers
  <2>2. CASE L
    <3>0. ~cut_locked /\ mid # other /\ step \in LockStep + 1 .. UnlockStep
      BY <1>1, <1>11, <1>16, <2>2
    <3>1a. step = LockStep + 1 /\ step \in 4 .. UnlockStep + 1 /\ step < 13
      BY <1>2, <1>4, <3>0, StepNumbers
    <3>1b. Now.area = "sector"
      BY <1>4, <1>7, <3>1a
    <3>1. step = LockStep + 1 /\ area_cells' = area_cells /\ Whole("sector")
      BY <1>1, <1>11, <1>12, <2>2, <3>0, <3>1a, <3>1b DEF CellsAtStep
    <3>2. Whole("sector")'
      BY <3>1 DEF Whole
    <3> QED
      BY <1>1, <1>2, <1>3, <1>10, <1>11, <2>1, <3>1, <3>2, StepNumbers DEF CellsAtStep
  <2>3. CASE ~L
    <3>1. area_cells'[Now.area] = gone
      BY <1>1, <1>2, <1>4, <1>12, <2>3
    <3>2. /\ Now.area = "sector" => Blank("sector")'
          /\ Now.area = "security" => Blank("security")'
      BY <3>1 DEF Blank
    <3>3. /\ step = 1 \/ (mid # other /\ step = UnlockStep + 1) => Blank("sector")'
          /\ step = 13 => Blank("security")'
      BY <1>2, <1>4, <1>7, <3>2, StepNumbers
    <3>4. step # LockStep + 1
      BY <1>2, <1>4, <1>11, <1>16, <2>3, StepNumbers
    <3> QED
      BY <1>1, <1>2, <1>3, <1>4, <1>10, <1>11, <2>1, <3>3, <3>4, StepNumbers DEF CellsAtStep
  <2> QED
    BY <2>2, <2>3
<1> QED
  BY <1>1, <1>9, <1>11, <1>13, <1>14, <1>15, <1>16 DEF FlashInv

(* What a step of the test may rely on. *)
LEMMA AtStep ==
    ASSUME FlashInv, NEW ops, Doing(ops)
    PROVE  /\ mid \in Mid /\ area_cells \in [Area -> [Cell -> FlashContent]] /\ status \subseteq Bit
           /\ config \subseteq {"WPS"} /\ programmed \in {0, 1} /\ cut_locked \in BOOLEAN
           /\ step \in 1 .. LastStep /\ Now.op \in ops /\ Now.area \in Area
           /\ (Now.area = "security" <=> (IsLong /\ step >= 13))
           /\ Ignored <=> (Now.area = "sector" /\ LockBits)
           /\ config # {} => IsLong /\ step <= 5 /\ ~LockBits
           /\ programmed = 1 => step \in {3, 15}
           /\ LockBits => area_cells["sector"][1] = "first"
           /\ cut_locked => LockBits /\ step <= 2
           /\ ~cut_locked => (LockBits <=> (mid # other /\ step \in LockStep + 1 .. UnlockStep))
           /\ ~cut_locked => CellsAtStep
           /\ err_status = "none"
<1>1. /\ mid \in Mid /\ area_cells \in [Area -> [Cell -> FlashContent]] /\ status \subseteq Bit
      /\ config \subseteq {"WPS"} /\ programmed \in {0, 1} /\ cut_locked \in BOOLEAN
  BY TypesAre DEF FlashInv
<1>2. step \in 1 .. LastStep /\ Now.op \in ops /\ err_status = "none" /\ (Locked <=> LockBits)
  BY DoingIs
<1>3. Now.area \in Area /\ (Now.area = "security" <=> (IsLong /\ step >= 13))
  BY <1>1, <1>2, DoesAt
<1>4. Ignored <=> (Now.area = "sector" /\ LockBits)
  BY <1>2 DEF Ignored
<1> QED
  BY <1>1, <1>2, <1>3, <1>4 DEF FlashInv

(* A step of the test that leaves the power on. *)
LEMMA StepKeeps ==
    ASSUME FlashInv, NEW ops, Doing(ops), mid' = mid, cut_locked' = cut_locked,
           area_cells' \in [Area -> [Cell -> FlashContent]],
           status' \subseteq Bit, config' \subseteq config,
           step' \in step .. step + 1, programmed' \in {0, 1}, programmed' = 1 => step' \in {3, 15},
           config' # {} => step' <= 5 /\ ~LockBits',
           LockBits' => area_cells'["sector"][1] = "first",
           cut_locked => LockBits' /\ step' <= 2 /\ err_status' \in {"none", "erase_err"},
           ~cut_locked =>
             /\ err_status' = "none"
             /\ LockBits' <=> (mid # other /\ step' \in LockStep + 1 .. UnlockStep)
             /\ CellsAtStep'
    PROVE  FlashInv'
<1>1. /\ mid \in Mid /\ config \subseteq {"WPS"} /\ cut_locked \in BOOLEAN /\ step \in 1 .. LastStep
      /\ config # {} => IsLong
  BY AtStep
<1>2. IsLong' = IsLong /\ LockStep' = LockStep /\ UnlockStep' = UnlockStep
  BY StepsSame
<1>3. step' \in 1 .. LastStep + 1
  BY <1>1, StepNumbers
<1>4. FlashTypeOK'
  BY <1>1, <1>3, TypesStep
<1> QED
  BY <1>1, <1>2, <1>4 DEF FlashInv

LEMMA OnePiece ==
    ASSUME NEW S, NEW s \in Seq(S), NEW i \in 1 .. Len(s)
    PROVE  SubSeq(s, i, i) = <<s[i]>>
<1> DEFINE t == SubSeq(s, i, i)
<1>1. t \in Seq(S) /\ Len(t) = 1 /\ t[1] = s[i]
  OBVIOUS
<1> HIDE DEF t
<1>2. t = <<t[1]>>
  BY <1>1
<1> QED
  BY <1>1, <1>2 DEF t

LEMMA ProgramStep ==
    ASSUME FlashInv, flash_page_program
    PROVE  FlashInv'
<1> DEFINE L == LockBits
           addr == 1 + programmed
           len == FLASH_BUFF_LEN - programmed
           nw == Piece(addr, len)
           data == SubSeq(Flash_Write_Buff, programmed + 1, programmed + nw)
           area == Now.area
           x == IF programmed = 0 THEN "first" ELSE "second"
           cells == area_cells[area]
           new == [cells EXCEPT ![addr] = Programmed(cells[addr], x)]
<1>1. /\ Doing({"program"})
      /\ UNCHANGED <<mid, status, config, err_status, cut_locked>>
      /\ area_cells' = IF Ignored THEN area_cells ELSE [area_cells EXCEPT ![area] = PageProgram(cells, addr, data)]
      /\ programmed' = IF len > nw THEN programmed + nw ELSE 0
      /\ step' = IF len > nw THEN step ELSE step + 1
  BY DEF flash_page_program
<1>2. /\ mid \in Mid /\ area_cells \in [Area -> [Cell -> FlashContent]] /\ programmed \in {0, 1}
      /\ step \in 1 .. LastStep /\ Now.op = "program" /\ area \in Area
      /\ (area = "security" <=> (IsLong /\ step >= 13))
      /\ config # {} => IsLong /\ step <= 5 /\ ~L
      /\ programmed = 1 => step \in {3, 15}
      /\ cut_locked => L /\ step <= 2
      /\ ~cut_locked => (L <=> (mid # other /\ step \in LockStep + 1 .. UnlockStep))
      /\ ~cut_locked => CellsAtStep
      /\ Ignored <=> (area = "sector" /\ L)
      /\ err_status = "none"
      /\ config \subseteq {"WPS"} /\ status \subseteq Bit
  BY <1>1, AtStep
<1>3. step = 3 \/ (IsLong /\ step = 15)
  BY <1>2, DoesAt
<1>4. ~cut_locked /\ ~L /\ ~Ignored
  <2>1. ~cut_locked
    BY <1>2, <1>3
  <2>2. ~L
    BY <1>2, <1>3, <2>1, StepNumbers
  <2> QED
    BY <1>2, <2>1, <2>2
<1>5. Area = {"sector", "security"} /\ area = IF step = 3 THEN "sector" ELSE "security"
  BY <1>2, <1>3 DEF Area
<1>6. /\ programmed = 0 => len = 2 /\ nw = 1 /\ data = <<"first">> /\ addr = 1
      /\ programmed = 1 => len = 1 /\ nw = 1 /\ data = <<"second">> /\ addr = 2
  <2>1. /\ programmed = 0 => len = 2 /\ addr = 1
        /\ programmed = 1 => len = 1 /\ addr = 2
    BY DEF FLASH_BUFF_LEN, Flash_Write_Buff
  <2>2. (programmed = 0 => nw = 1) /\ (programmed = 1 => nw = 1)
    <3> HIDE DEF len, addr
    <3> QED
      BY <2>1 DEF Piece, PAGE_SIZE
  <2>3. SubSeq(Flash_Write_Buff, 1, 1) = <<"first">>
        /\ SubSeq(Flash_Write_Buff, 2, 2) = <<"second">>
    <3> DEFINE b == Flash_Write_Buff
    <3>1. b \in Seq({"first", "second"}) /\ Len(b) = 2 /\ b[1] = "first" /\ b[2] = "second"
      BY DEF Flash_Write_Buff
    <3> HIDE DEF b
    <3>2. SubSeq(b, 1, 1) = <<b[1]>> /\ SubSeq(b, 2, 2) = <<b[2]>>
      BY <3>1, OnePiece
    <3> QED
      BY <3>1, <3>2 DEF b
  <2>4. /\ programmed = 0 => programmed + 1 = 1 /\ programmed + nw = 1
        /\ programmed = 1 => programmed + 1 = 2 /\ programmed + nw = 2
    <3> HIDE DEF nw
    <3> QED
      BY <2>2
  <2>5. (programmed = 0 => data = <<"first">>) /\ (programmed = 1 => data = <<"second">>)
    BY <2>3, <2>4
  <2> QED
    BY <2>1, <2>2, <2>5
<1>7. data = <<x>> /\ addr \in {1, 2}
  BY <1>2, <1>6
<1>8. cells \in [Cell -> FlashContent]
  BY <1>2
<1>9. PageProgram(cells, addr, data) = new
  <2> HIDE DEF cells, addr, data, x
  <2> QED
    BY <1>7, <1>8, OneCell
<1>10. /\ programmed = 0 => programmed' = 1 /\ step' = step
       /\ programmed = 1 => programmed' = 0 /\ step' = step + 1
  BY <1>1, <1>6
<1>11. area_cells' = [area_cells EXCEPT ![area] = new]
  BY <1>1, <1>4, <1>9
<1>12. new \in [Cell -> FlashContent]
  <2>1. Programmed(cells[addr], x) \in FlashContent
    BY <1>7, <1>8 DEF Programmed, FlashContent
  <2> HIDE DEF cells, addr, x
  <2> QED
    BY <1>8, <2>1
<1>13. area_cells' \in [Area -> [Cell -> FlashContent]]
  <2> HIDE DEF new, area
  <2> QED
    BY <1>2, <1>11, <1>12
<1>14. /\ programmed = 0 => cells[1] = "erased" /\ cells[2] = "erased"
       /\ programmed = 1 => cells[1] = "first" /\ cells[2] = "erased"
  <2>1. CellsAtStep /\ 1 \in Cell /\ 2 \in Cell
    BY <1>2, <1>4 DEF Cell
  <2> QED
    BY <1>3, <1>5, <2>1 DEF CellsAtStep, Blank, Half
<1>15. /\ programmed = 0 => new[1] = "first" /\ new[2] = "erased"
       /\ programmed = 1 => new[1] = "first" /\ new[2] = "second"
  <2>1. 1 \in Cell /\ 2 \in Cell
    BY DEF Cell
  <2> QED
    BY <1>6, <1>8, <1>14, <2>1 DEF Programmed
<1>16. LockBits' = L
  BY <1>1 DEF LockBits
<1>17. area_cells'[area] = new
  <2> HIDE DEF new, area
  <2> QED
    BY <1>2, <1>11
<1>18. /\ step = 3 /\ programmed = 0 => Half("sector")'
       /\ step = 3 /\ programmed = 1 => Whole("sector")'
       /\ step = 15 /\ programmed = 0 => Half("security")'
       /\ step = 15 /\ programmed = 1 => Whole("security")'
  <2> HIDE DEF new, area
  <2> QED
    BY <1>5, <1>15, <1>17 DEF Half, Whole
<1>19. IsLong' = IsLong /\ LockStep' = LockStep /\ UnlockStep' = UnlockStep
  BY <1>1, StepsSame
<1> HIDE DEF L, addr, len, nw, data, area, x, cells, new
<1>20. LockBits' <=> (mid # other /\ step' \in LockStep + 1 .. UnlockStep)
  BY <1>2, <1>3, <1>4, <1>10, <1>16, StepNumbers
<1>21. CellsAtStep'
  BY <1>2, <1>3, <1>10, <1>18, <1>19, StepNumbers DEF CellsAtStep
<1>22. programmed' = 1 => step' \in {3, 15}
  BY <1>2, <1>3, <1>10
<1>23. step' \in step .. step + 1 /\ programmed' \in {0, 1} /\ (config' # {} => step' <= 5
       /\ ~LockBits')
  BY <1>1, <1>2, <1>3, <1>4, <1>10, <1>16
<1> QED
  BY <1>1, <1>2, <1>4, <1>13, <1>16, <1>20, <1>21, <1>22, <1>23, StepKeeps

LEMMA CheckStep ==
    ASSUME FlashInv, flash_check
    PROVE  FlashInv'
<1> DEFINE L == LockBits
           Expected(i) == IF Now.op = "blank" THEN "erased" ELSE Flash_Write_Buff[i]
           cell(i) == area_cells[Now.area][Now.from + i - 1]
           right == \A i \in 1 .. FLASH_BUFF_LEN : cell(i) = Expected(i)
<1>1. /\ Doing({"blank", "same"})
      /\ UNCHANGED <<mid, area_cells, status, config, programmed, cut_locked>>
      /\ IF right THEN step' = step + 1 /\ err_status' = err_status
                  ELSE err_status' = Now.err /\ step' = step
  BY DEF flash_check
<1>2. /\ mid \in Mid /\ area_cells \in [Area -> [Cell -> FlashContent]] /\ programmed \in {0, 1}
      /\ step \in 1 .. LastStep /\ Now.op \in {"blank", "same"}
      /\ (Now.area = "security" <=> (IsLong /\ step >= 13)) /\ Now.area \in Area
      /\ config # {} => IsLong /\ step <= 5 /\ ~L
      /\ programmed = 1 => step \in {3, 15}
      /\ L => area_cells["sector"][1] = "first"
      /\ cut_locked => L /\ step <= 2
      /\ ~cut_locked => (L <=> (mid # other /\ step \in LockStep + 1 .. UnlockStep))
      /\ ~cut_locked => CellsAtStep
      /\ err_status = "none"
      /\ config \subseteq {"WPS"} /\ status \subseteq Bit
  BY <1>1, AtStep
<1>3. LockBits' = L
  BY <1>1 DEF LockBits
<1>4. IsLong' = IsLong /\ LockStep' = LockStep /\ UnlockStep' = UnlockStep
  BY <1>1, StepsSame
<1>5. /\ step \in {2, 4} \/ (mid # other /\ step \in {LockStep + 2, UnlockStep + 2})
         \/ (IsLong /\ step \in {14, 16})
      /\ step = 2 => Now.op = "blank" /\ Now.from = 0 /\ Now.err = "erase_err"
      /\ Now.op = "blank" <=> \/ step = 2
                              \/ mid # other /\ step = UnlockStep + 2
                              \/ IsLong /\ step = 14
      /\ Now.op = "blank" => Now.from \in {0, 1}
      /\ Now.op = "same" => Now.from = 1
  BY <1>2, DoesAt
<1>6. FLASH_BUFF_LEN = 2 /\ Flash_Write_Buff[1] = "first" /\ Flash_Write_Buff[2] = "second"
  BY DEF FLASH_BUFF_LEN, Flash_Write_Buff
<1>7. CASE ~cut_locked
  <2>1. Now.op = "blank" => Blank(Now.area)
    <3>1. Now.op = "blank" => IF step = 14 THEN Now.area = "security" ELSE Now.area = "sector"
      BY <1>2, <1>5, StepNumbers DEF Area
    <3>2. Now.op = "blank" => IF step = 14 THEN Blank("security") ELSE Blank("sector")
      BY <1>2, <1>5, <1>7, StepNumbers DEF CellsAtStep
    <3> QED
      BY <3>1, <3>2
  <2>2. Now.op = "same" => Whole(Now.area)
    <3>1. Now.op = "same" => step = 16 \/ step = 4 \/ (mid # other /\ step = LockStep + 2)
      BY <1>2, <1>5, StepNumbers
    <3>2. Now.op = "same" => IF step = 16 THEN Now.area = "security" ELSE Now.area = "sector"
      BY <1>2, <3>1, StepNumbers DEF Area
    <3>3. Now.op = "same" => IF step = 16 THEN Whole("security") ELSE Whole("sector")
      BY <1>2, <1>7, <3>1, StepNumbers DEF CellsAtStep
    <3> QED
      BY <3>2, <3>3
  <2>3. right
    <3>1. CASE Now.op = "blank"
      <4>1. \A i \in 1 .. 2 : Now.from + i - 1 \in Cell
        BY <1>5, <3>1 DEF Cell
      <4> QED
        BY <1>6, <2>1, <3>1, <4>1 DEF Blank
    <3>2. CASE Now.op = "same"
      <4>1. cell(1) = "first" /\ cell(2) = "second"
        BY <1>5, <2>2, <3>2 DEF Whole
      <4>2. Expected(1) = "first" /\ Expected(2) = "second"
        BY <1>6, <3>2
      <4> HIDE DEF cell, Expected
      <4>3. \A i \in 1 .. 2 : cell(i) = Expected(i)
        BY <4>1, <4>2
      <4> QED
        BY <1>6, <4>3
    <3> QED
      BY <1>2, <3>1, <3>2
  <2> HIDE DEF right, L
  <2>4. step' = step + 1 /\ err_status' = "none"
    BY <1>1, <1>2, <2>3
  <2>5. LockBits' <=> (mid # other /\ step' \in LockStep + 1 .. UnlockStep)
    BY <1>2, <1>3, <1>5, <1>7, <2>4, StepNumbers
  <2>6. CellsAtStep'
    <3>1. Blank("sector")' = Blank("sector") /\ Blank("security")' = Blank("security")
          /\ Whole("sector")' = Whole("sector") /\ Whole("security")' = Whole("security")
      BY <1>1 DEF Blank, Whole
    <3>2. programmed' = 0
      BY <1>1, <1>2, <1>5, StepNumbers
    <3> QED
      BY <1>2, <1>4, <1>5, <1>7, <2>4, <3>1, <3>2, StepNumbers DEF CellsAtStep
  <2>7. /\ config' # {} => step' <= 5 /\ ~LockBits'
        /\ programmed' = 1 => step' \in {3, 15}
    BY <1>1, <1>2, <1>3, <1>5, <2>4, StepNumbers
  <2> QED
    BY <1>1, <1>2, <1>3, <1>7, <2>4, <2>5, <2>6, <2>7, StepKeeps DEF L
<1>8. CASE cut_locked
  <2>1. step = 2 /\ Now.op = "blank" /\ Now.from = 0 /\ Now.err = "erase_err" /\ L
    BY <1>2, <1>5, <1>8, StepNumbers
  <2>2. Now.area = "sector"
    BY <1>2, <2>1 DEF Area
  <2>3. ~right
    <3>1. cell(2) = "first" /\ Expected(2) = "erased"
      BY <1>2, <2>1, <2>2
    <3> HIDE DEF cell, Expected
    <3> QED
      BY <1>6, <3>1
  <2> HIDE DEF right, L
  <2>4. step' = step /\ err_status' = "erase_err"
    BY <1>1, <2>1, <2>3
  <2>5. /\ config' # {} => step' <= 5 /\ ~LockBits'
        /\ programmed' = 1 => step' \in {3, 15}
    BY <1>1, <1>2, <1>3, <1>5, <2>4, StepNumbers
  <2> QED
    BY <1>1, <1>2, <1>3, <1>8, <2>1, <2>4, <2>5, StepKeeps DEF L
<1> QED
  BY <1>7, <1>8

LEMMA CellsSame ==
    ASSUME area_cells' = area_cells
    PROVE  /\ Blank("sector")' = Blank("sector") /\ Blank("security")' = Blank("security")
           /\ Whole("sector")' = Whole("sector") /\ Whole("security")' = Whole("security")
           /\ Half("sector")' = Half("sector") /\ Half("security")' = Half("security")
BY DEF Blank, Whole, Half

LEMMA LockKeeps ==
    ASSUME FlashInv, flash_lock
    PROVE  FlashInv'
<1>1. /\ Doing({"lock"}) /\ step' = step + 1
      /\ status' = mid.set \cup (status \ mid.bits)
      /\ UNCHANGED <<mid, area_cells, config, programmed, err_status, cut_locked>>
  BY DEF flash_lock, flash_write_status
<1>2. /\ mid \in Mid /\ area_cells \in [Area -> [Cell -> FlashContent]] /\ programmed \in {0, 1}
      /\ step \in 1 .. LastStep /\ Now.op = "lock"
      /\ config # {} => IsLong /\ step <= 5
      /\ programmed = 1 => step \in {3, 15}
      /\ cut_locked => step <= 2
      /\ ~cut_locked => CellsAtStep
      /\ err_status = "none"
      /\ config \subseteq {"WPS"} /\ status \subseteq Bit
  BY <1>1, AtStep
<1>3. mid # other /\ step = LockStep
  BY <1>2, DoesAt
<1>4. ~cut_locked /\ config = {} /\ Whole("sector")
  BY <1>2, <1>3, StepNumbers DEF CellsAtStep
<1>5. mid.set # {} /\ mid.set \subseteq mid.bits /\ mid.bits \subseteq Bit
  BY <1>2, <1>3, MidIs
<1>6. LockBits' /\ status' \subseteq Bit
  BY <1>1, <1>2, <1>5 DEF LockBits
<1>7. IsLong' = IsLong /\ LockStep' = LockStep /\ UnlockStep' = UnlockStep
  BY <1>1, StepsSame
<1>8. CellsAtStep'
  BY <1>1, <1>2, <1>3, <1>4, <1>7, CellsSame, StepNumbers DEF CellsAtStep
<1>9. LockBits' <=> (mid # other /\ step' \in LockStep + 1 .. UnlockStep)
  BY <1>1, <1>2, <1>3, <1>6, StepNumbers
<1>10. /\ area_cells'["sector"][1] = "first" /\ step' \in step .. step + 1
       /\ programmed' = 0
  BY <1>1, <1>2, <1>3, <1>4, StepNumbers DEF Whole
<1> QED
  BY <1>1, <1>2, <1>4, <1>6, <1>8, <1>9, <1>10, StepKeeps

LEMMA UnlockKeeps ==
    ASSUME FlashInv, flash_unlock
    PROVE  FlashInv'
<1>1. /\ Doing({"unlock"}) /\ step' = step + 1
      /\ status' = status \ mid.bits
      /\ UNCHANGED <<mid, area_cells, config, programmed, err_status, cut_locked>>
  BY DEF flash_unlock, flash_write_status
<1>2. /\ mid \in Mid /\ area_cells \in [Area -> [Cell -> FlashContent]] /\ programmed \in {0, 1}
      /\ step \in 1 .. LastStep /\ Now.op = "unlock"
      /\ config # {} => IsLong /\ step <= 5
      /\ programmed = 1 => step \in {3, 15}
      /\ cut_locked => step <= 2
      /\ ~cut_locked => CellsAtStep
      /\ err_status = "none"
      /\ config \subseteq {"WPS"} /\ status \subseteq Bit
  BY <1>1, AtStep
<1>3. mid # other /\ step = UnlockStep
  BY <1>2, DoesAt
<1>4. ~cut_locked /\ config = {} /\ Whole("sector")
  BY <1>2, <1>3, StepNumbers DEF CellsAtStep
<1>5. ~LockBits' /\ status' \subseteq Bit
  BY <1>1, <1>2 DEF LockBits
<1>6. IsLong' = IsLong /\ LockStep' = LockStep /\ UnlockStep' = UnlockStep
  BY <1>1, StepsSame
<1>7. CellsAtStep'
  BY <1>1, <1>2, <1>3, <1>4, <1>6, CellsSame, StepNumbers DEF CellsAtStep
<1>8. LockBits' <=> (mid # other /\ step' \in LockStep + 1 .. UnlockStep)
  BY <1>1, <1>2, <1>3, <1>5, StepNumbers
<1>9. step' \in step .. step + 1 /\ programmed' = 0
  BY <1>1, <1>2, <1>3, StepNumbers
<1> QED
  BY <1>1, <1>2, <1>4, <1>5, <1>7, <1>8, <1>9, StepKeeps

LEMMA WpsKeeps ==
    ASSUME FlashInv, flash_write_config
    PROVE  FlashInv'
<1>1. /\ Doing({"wps"}) /\ step' = step + 1 /\ config' = config \ {"WPS"}
      /\ UNCHANGED <<mid, area_cells, status, programmed, err_status, cut_locked>>
  BY DEF flash_write_config
<1>2. /\ mid \in Mid /\ area_cells \in [Area -> [Cell -> FlashContent]] /\ programmed \in {0, 1}
      /\ step \in 1 .. LastStep /\ Now.op = "wps"
      /\ programmed = 1 => step \in {3, 15}
      /\ LockBits => area_cells["sector"][1] = "first"
      /\ cut_locked => step <= 2
      /\ ~cut_locked => (LockBits <=> (mid # other /\ step \in LockStep + 1 .. UnlockStep))
      /\ ~cut_locked => CellsAtStep
      /\ err_status = "none"
      /\ config \subseteq {"WPS"} /\ status \subseteq Bit
  BY <1>1, AtStep
<1>3. IsLong /\ step \in {5, 9}
  BY <1>2, DoesAt
<1>4. ~cut_locked /\ config' = {} /\ Whole("sector") /\ programmed = 0
  BY <1>1, <1>2, <1>3, StepNumbers DEF CellsAtStep
<1>5. LockBits' = LockBits
  BY <1>1 DEF LockBits
<1>6. IsLong' = IsLong /\ LockStep' = LockStep /\ UnlockStep' = UnlockStep
  BY <1>1, StepsSame
<1>7. CellsAtStep'
  BY <1>1, <1>2, <1>3, <1>4, <1>6, CellsSame, StepNumbers DEF CellsAtStep
<1>8. LockBits' <=> (mid # other /\ step' \in LockStep + 1 .. UnlockStep)
  BY <1>1, <1>2, <1>3, <1>4, <1>5, StepNumbers
<1>9. /\ step' \in step .. step + 1 /\ config' \subseteq config /\ programmed' = 0
      /\ LockBits' => area_cells'["sector"][1] = "first"
  BY <1>1, <1>2, <1>3, <1>4, <1>5
<1>10. /\ mid' = mid /\ cut_locked' = cut_locked /\ err_status' = "none"
       /\ area_cells' \in [Area -> [Cell -> FlashContent]] /\ status' \subseteq Bit
       /\ ~cut_locked /\ config' = {}
  BY <1>1, <1>2, <1>4
<1> QED
  BY <1>1, <1>7, <1>8, <1>9, <1>10, StepKeeps

(* The power fails, and the test begins again: if the sector is locked, then with
   what it had programmed. *)
LEMMA PowerKeeps ==
    ASSUME FlashInv, PowerFails
    PROVE  FlashInv'
<1> DEFINE L == LockBits
           mixed == [c \in Cell |-> "mixed"]
<1>1. /\ area_cells' \in {area_cells} \cup
           (IF Doing({"erase", "program"}) /\ ~Ignored
            THEN {[area_cells EXCEPT ![Now.area] = mixed]} ELSE {})
      /\ step' = 1 /\ programmed' = 0 /\ err_status' = "none"
      /\ cut_locked' = (cut_locked \/ Locked)
      /\ UNCHANGED <<mid, status, config>>
  BY DEF PowerFails
<1>2. /\ mid \in Mid /\ area_cells \in [Area -> [Cell -> FlashContent]] /\ status \subseteq Bit
      /\ config \subseteq {"WPS"} /\ cut_locked \in BOOLEAN /\ step \in 1 .. LastStep + 1
  BY TypesAre DEF FlashInv
<1>3. /\ config # {} => IsLong /\ ~L
      /\ L => area_cells["sector"][1] = "first"
      /\ cut_locked => L /\ step <= 2
      /\ ~cut_locked => (L <=> (mid # other /\ step \in LockStep + 1 .. UnlockStep))
  BY DEF FlashInv
<1>4. LockBits' = L
  BY <1>1 DEF LockBits
<1>5. Locked <=> L
  BY <1>3 DEF Locked, LockBits
<1>6. IsLong' = IsLong /\ LockStep' = LockStep /\ UnlockStep' = UnlockStep
  BY <1>1, StepsSame
<1>7. mixed \in [Cell -> FlashContent]
  BY DEF FlashContent
<1>8. ASSUME Doing({"erase", "program"}), ~Ignored,
             area_cells' = [area_cells EXCEPT ![Now.area] = mixed]
      PROVE  ~L /\ area_cells' \in [Area -> [Cell -> FlashContent]]
  <2>1. /\ Now.area \in Area /\ (Now.area = "security" <=> (IsLong /\ step >= 13))
        /\ Ignored <=> (Now.area = "sector" /\ L)
    BY <1>8, AtStep
  <2>2. Now.area \in {"sector", "security"}
    BY <2>1 DEF Area
  <2>3. L => step <= 10
    BY <1>2, <1>3, StepNumbers
  <2>4. ~L
    BY <1>2, <1>8, <2>1, <2>2, <2>3, StepNumbers
  <2> HIDE DEF mixed, L
  <2>5. area_cells' \in [Area -> [Cell -> FlashContent]]
    BY <1>2, <1>7, <1>8, <2>1
  <2> QED
    BY <2>4, <2>5
<1> HIDE DEF L, mixed
<1>9. /\ area_cells' \in [Area -> [Cell -> FlashContent]]
      /\ L => area_cells' = area_cells
  BY <1>1, <1>2, <1>8
<1>10. FlashTypeOK'
  <2>1. 1 \in 1 .. LastStep + 1
    BY <1>2, StepNumbers
  <2> QED
    BY <1>1, <1>2, <1>9, <2>1, TypesStep
<1>11. cut_locked' <=> L
  BY <1>1, <1>2, <1>3, <1>5
<1>12. CellsAtStep'
  BY <1>1, <1>2, <1>6, StepNumbers DEF CellsAtStep
<1>13. ~cut_locked' => (LockBits' <=> (mid' # other /\ step' \in LockStep' + 1 .. UnlockStep'))
  BY <1>1, <1>2, <1>4, <1>6, <1>11, StepNumbers
<1> QED
  BY <1>1, <1>3, <1>4, <1>6, <1>9, <1>10, <1>11, <1>12, <1>13 DEF FlashInv

LEMMA FlashInvInit == FlashInit => FlashInv
<1> SUFFICES ASSUME FlashInit PROVE FlashInv
  OBVIOUS
<1>1. /\ mid \in Mid
      /\ area_cells \in [Area -> {[c \in Cell |-> x] : x \in {"old", "erased"}}]
      /\ status \in SUBSET OtherBit
      /\ config \in {{}} \cup (IF mid = mid136085 THEN {{"WPS"}} ELSE {})
      /\ step = 1 /\ programmed = 0
      /\ err_status = "none" /\ cut_locked = FALSE
  BY DEF FlashInit
<1>2. ~LockBits /\ status \subseteq Bit
  BY <1>1, MidIs DEF LockBits, Bit
<1>3. area_cells \in [Area -> [Cell -> FlashContent]]
  <2>1. {[c \in Cell |-> x] : x \in {"old", "erased"}} \subseteq [Cell -> FlashContent]
    BY DEF FlashContent
  <2> QED
    BY <1>1, <2>1
<1>4. config \subseteq {"WPS"} /\ (config # {} => IsLong)
  BY <1>1 DEF IsLong
<1>5. Len(Test) = LastStep /\ 1 \in 1 .. LastStep + 1
  BY <1>1, TestIs, StepNumbers
<1>6. FlashTypeOK
  <2>1. FLASH_BUFF_LEN - 1 = 1
    BY DEF FLASH_BUFF_LEN, Flash_Write_Buff
  <2>2. programmed \in 0 .. FLASH_BUFF_LEN - 1 /\ cut_locked \in BOOLEAN
    <3>1. 0 .. FLASH_BUFF_LEN - 1 = {0, 1}
      BY <2>1
    <3> QED
      BY <1>1, <3>1
  <2> QED
    BY <1>1, <1>2, <1>3, <1>4, <1>5, <2>2 DEF FlashTypeOK
<1>7. CellsAtStep /\ (LockBits <=> (mid # other /\ step \in LockStep + 1 .. UnlockStep))
  BY <1>1, <1>2, StepNumbers DEF CellsAtStep
<1> QED
  BY <1>1, <1>2, <1>4, <1>6, <1>7 DEF FlashInv

LEMMA FlashInvStep == FlashInv /\ [FlashNext]_flashVars => FlashInv'
<1> SUFFICES ASSUME FlashInv, [FlashNext]_flashVars PROVE FlashInv'
  OBVIOUS
<1>1. CASE UNCHANGED flashVars
  <2>1. /\ UNCHANGED <<mid, area_cells, status, config, step, programmed, err_status, cut_locked>>
    BY <1>1 DEF flashVars
  <2>2. Test' = Test /\ IsLong' = IsLong /\ LockStep' = LockStep /\ UnlockStep' = UnlockStep
    BY <2>1, StepsSame
  <2>3. FlashTypeOK' = FlashTypeOK /\ LockBits' = LockBits
    BY <2>1, <2>2 DEF FlashTypeOK, LockBits
  <2>4. CellsAtStep' = CellsAtStep
    BY <2>1, <2>2, CellsSame DEF CellsAtStep
  <2> QED
    BY <2>1, <2>2, <2>3, <2>4 DEF FlashInv
<1>2. CASE Rests
  BY <1>1, <1>2 DEF Rests
<1> QED
  BY <1>1, <1>2, EraseStep, ProgramStep, CheckStep, LockKeeps, UnlockKeeps, WpsKeeps, PowerKeeps
     DEF FlashNext

LEMMA FlashInvIsRight == FlashInv => TestIsRight
<1> SUFFICES ASSUME FlashInv PROVE TestIsRight
  OBVIOUS
<1>1. mid \in Mid /\ step \in 1 .. LastStep + 1 /\ Len(Test) = LastStep
  BY TypesAre, TestIs DEF FlashInv
<1>2. Done <=> step > LastStep
  BY <1>1 DEF Done
<1>3. Locked => LockBits
  BY DEF Locked, LockBits
<1>4. /\ cut_locked => step <= 2 /\ err_status \in {"none", "erase_err"}
      /\ ~cut_locked => err_status = "none"
      /\ ~cut_locked => (LockBits <=> (mid # other /\ step \in LockStep + 1 .. UnlockStep))
  BY DEF FlashInv
<1>5. cut_locked => ~Done
  BY <1>1, <1>2, <1>4, StepNumbers
<1>6. Done => ~Locked
  BY <1>1, <1>2, <1>3, <1>4, <1>5, StepNumbers
<1> QED
  BY <1>4, <1>5, <1>6 DEF TestIsRight

(* The inductive invariant of the flash's test: every area holds what the steps done
   so far make of it. *)
THEOREM FlashInvHolds == FlashSpec => []FlashInv
BY FlashInvInit, FlashInvStep, PTL DEF FlashSpec

(* The variables of the flash and of its test are of their types. *)
THEOREM FlashTypeCorrect == FlashSpec => []FlashTypeOK
<1>1. FlashInv => FlashTypeOK
  BY DEF FlashInv
<1> QED
  BY <1>1, FlashInvHolds, PTL

(* The test of vendor/flash_operation, with the functions of each chip, finds an error only
   on a sector that a fall of the supply left locked, and then it does so at every start;
   a test that ends leaves the chip unlocked. *)
THEOREM TestStaysRight == FlashSpec => []TestIsRight
BY FlashInvHolds, FlashInvIsRight, PTL

(***************************************************************************)
(* The radio demonstrations: why they go on.                               *)
(***************************************************************************)
(* The mode that a demonstration uses. *)
ModeOf(d) ==
    IF d.sends # RadioIdle THEN d.sends.mode
    ELSE IF d.start # RadioIdle THEN d.start.mode ELSE "PTX"

(* The interrupts with which the radio ends each of its modes. *)
EndIrqs(mode) ==
    IF mode \in {"TX", "STX", "SRX2TX"} THEN {"TX"}
    ELSE IF mode = "SRX" THEN {"RX", "FIRST_TIMEOUT"}
    ELSE IF mode = "STX2RX" THEN {"RX", "RX_TIMEOUT"}
    ELSE IF mode = "PTX" THEN {"TX_DS", "RETRY_HIT"} ELSE {}

Ends == EndIrqs(ModeOf(demo))

RadioMode == {"TX", "STX", "RX", "SRX", "SRX2TX", "STX2RX", "PTX", "PRX"}

(* What the radio may be doing in a demonstration. *)
RadiosOf(d) == {RadioIdle} \cup [mode : {ModeOf(d)}, phase : {1, 2}, timed : BOOLEAN]

Sends == demo.sends # RadioIdle

(* Whoever sends and waits has no other interrupt than that of the end. *)
SenderWaits ==
    /\ Sends =>
        /\ main_pc \in {"top", "start", "spin"} /\ rf_irq \subseteq {"TX"}
        /\ requested => rf_irq = {"TX"} /\ demo # gen_fsk_stx_dpl_packet
        /\ handling => irq_src = {"TX"} /\ demo # gen_fsk_stx_dpl_packet
    /\ ~Sends => main_pc \in {"loop", "start", "round"}
    /\ main_pc = "start" => command # RadioIdle
    /\ main_pc = "spin" /\ radio = RadioIdle =>
        \/ "TX" \in rf_irq /\ (requested \/ demo = gen_fsk_stx_dpl_packet)
        \/ demo # gen_fsk_stx_dpl_packet /\ "tx_done_flag" \in flags

(* A loop that listens once, and starts again for whichever end comes. *)
Listens == ~Sends /\ ~demo.rounds /\ ModeOf(demo) = "SRX"

Woken == flags \cap DOMAIN demo.on

(* There is one end of it at a time: with the radio, as an interrupt, or as a flag. *)
OneEnd ==
    Listens =>
        /\ radio # RadioIdle => /\ rf_irq = {} /\ ~requested /\ ~handling
                                /\ main_pc = "loop" /\ Woken = {}
        /\ rf_irq # {} => main_pc = "loop" /\ Woken = {}
        /\ requested \/ handling => rf_irq # {}
        /\ handling => irq_src = rf_irq
        /\ main_pc = "start" => Woken = {}
        /\ rf_irq \subseteq Ends
        /\ \A i, j \in rf_irq : i = j
        /\ \A f, g \in Woken : f = g

(* What keeps a loop going whose radio has stopped: the end of it is pending and asks for
   the handler, a flag is raised that starts it again, or it is one of the exceptions. *)
Restarts ==
    \/ Ends \cap rf_irq # {} /\ (requested \/ demo \in TwoOperations)
    \/ \E f \in Woken : demo.on[f] # RadioIdle
    \/ demo \in {tpsll_srx, tpsll_stx2rx} /\ ~crc_ok
    \/ demo = tpll_ptx /\ (~written \/ unseen \cap {"TX_DS", "RETRY_HIT"} # {})

LoopGoesOn ==
    /\ main_pc = "loop" /\ ~demo.rounds /\ radio = RadioIdle => Restarts
    /\ handling => requested

(* A radio that has stopped has its end pending, or the handler was told of it and has
   switched the amplifier off, or it is one of the exceptions. *)
Amplifier ==
    demo.pa =>
        /\ command.mode \in {"IDLE", ModeOf(demo)}
        /\ radio # RadioIdle \/ rf_irq # {} \/ requested => command.mode = ModeOf(demo)
        /\ radio = RadioIdle =>
            \/ Ends \cap rf_irq # {} \/ ~crc_ok \/ unseen # {}
            \/ /\ rf_irq = {} /\ ~requested
               /\ pa = "off" \/ (command.mode = "SRX2TX" /\ {"RX", "TX"} \subseteq irq_src)

(* The inductive invariant: nothing is lost between the radio, its handler and the loop. *)
DemoInv ==
    /\ DemoTypeOK
    /\ radio \in RadiosOf(demo) /\ command \in RadiosOf(demo)
    /\ SenderWaits /\ OneEnd /\ LoopGoesOn /\ Amplifier

(* The parts of a demonstration are of their kinds. *)
Fields(d) ==
    /\ ModeOf(d) \in RadioMode
    /\ d.start \in RadiosOf(d) /\ d.sends \in RadiosOf(d)
    /\ \A f \in DOMAIN d.on : d.on[f] \in RadiosOf(d)
    /\ DOMAIN d.raises \subseteq RfIrq /\ \A i \in DOMAIN d.raises : d.raises[i] \in Flag
    /\ d.all \in BOOLEAN /\ d.if_ok \in BOOLEAN /\ d.rounds \in BOOLEAN /\ d.pa \in BOOLEAN

(* Who sends and waits, waits for an interrupt that comes. *)
SendsAs(d) ==
    d.sends # RadioIdle =>
        /\ ModeOf(d) \in {"TX", "STX"} /\ ~d.rounds
        /\ \/ d = gen_fsk_stx_dpl_packet /\ DOMAIN d.raises = {}
           \/ "TX" \in DOMAIN d.raises /\ d.raises["TX"] = "tx_done_flag"

(* Whoever loops is told of every end of what the radio does, and starts it again. *)
LoopsAs(d) ==
    d.sends = RadioIdle =>
        /\ d.start = RadioIdle => d = tpll_ptx
        /\ d.rounds => d.start # RadioIdle
        /\ ~d.rounds =>
            /\ \A i \in EndIrqs(ModeOf(d)) :
                 /\ i \in DOMAIN d.raises /\ d.raises[i] \in DOMAIN d.on
                 /\ d.on[d.raises[i]] # RadioIdle
            /\ d.if_ok /\ "RX" \in EndIrqs(ModeOf(d)) => d \in {tpsll_srx, tpsll_stx2rx}
            /\ EndIrqs(ModeOf(d)) # {} =>
                 \/ d = tpll_ptx
                 \/ d \in TwoOperations /\ ~d.all /\ ModeOf(d) # "SRX"
                 \/ /\ ModeOf(d) = "SRX" /\ ~d.all
                    /\ DOMAIN d.raises = EndIrqs(ModeOf(d))
                    /\ \A f \in DOMAIN d.on : d.on[f] # RadioIdle

(* The amplifier is told of every end. *)
AmplifiedAs(d) ==
    d.pa =>
        /\ d.all /\ EndIrqs(ModeOf(d)) \subseteq DOMAIN d.raises
        /\ ModeOf(d) \in {"STX", "SRX", "SRX2TX", "STX2RX"}

Made(d) == Fields(d) /\ SendsAs(d) /\ LoopsAs(d) /\ AmplifiedAs(d)

LEMMA RadioIs ==
    /\ \A m \in RadioMode : Do(m, Timed) # RadioIdle /\ Do(m, Forever) # RadioIdle
    /\ \A m \in RadioMode : /\ Do(m, Timed) \in [mode : {m}, phase : {1, 2}, timed : BOOLEAN]
                            /\ Do(m, Forever) \in [mode : {m}, phase : {1, 2}, timed : BOOLEAN]
    /\ \A m \in RadioMode : Do(m, Timed).mode = m /\ Do(m, Forever).mode = m
BY DEF Do, RadioIdle, RadioMode, Timed, Forever

(* Each of the demonstrations is made so. *)
LEMMA gen_fsk_tx_Made == Made(gen_fsk_tx)
<1> DEFINE d == gen_fsk_tx
<1>1. /\ d.start = RadioIdle /\ d.sends = Do("TX", Forever)
      /\ DOMAIN d.on = {}
      /\ DOMAIN d.raises = {"TX"}
      /\ d.raises["TX"] = "tx_done_flag"
      /\ d.if_ok = FALSE /\ d.all = TRUE
  BY DEF gen_fsk_tx, Sender, Receiver, Nil
<1>2. d.rounds = FALSE /\ d.pa = FALSE
  BY DEF gen_fsk_tx, Sender, Receiver, Nil
<1> HIDE DEF d
<1>3. ModeOf(d) = "TX"
  BY <1>1, RadioIs DEF ModeOf, RadioMode
<1>4. Fields(d)
  <2>1. d.start \in RadiosOf(d) /\ d.sends \in RadiosOf(d)
    BY <1>1, <1>3, RadioIs DEF RadiosOf, RadioMode
  <2>2. \A f \in DOMAIN d.on : d.on[f] \in RadiosOf(d)
    BY <1>1, <1>3, RadioIs DEF RadiosOf, RadioMode
  <2>3. DOMAIN d.raises \subseteq RfIrq /\ \A i \in DOMAIN d.raises : d.raises[i] \in Flag
    BY <1>1 DEF RfIrq, Flag
  <2>4. d.all \in BOOLEAN /\ d.if_ok \in BOOLEAN /\ d.rounds \in BOOLEAN /\ d.pa \in BOOLEAN
    BY <1>1, <1>2
  <2>5. ModeOf(d) \in RadioMode
    BY <1>3 DEF RadioMode
  <2> QED
    BY <2>1, <2>2, <2>3, <2>4, <2>5 DEF Fields
<1>5. d.sends # RadioIdle
  BY <1>1, RadioIs DEF RadioMode
<1>6. SendsAs(d)
  BY <1>1, <1>2, <1>3, <1>5 DEF SendsAs
<1>7. LoopsAs(d)
  BY <1>1, <1>2, <1>3, <1>5, RadioIs DEF LoopsAs, EndIrqs, RadioMode
<1>8. AmplifiedAs(d)
  BY <1>1, <1>2, <1>3 DEF AmplifiedAs, EndIrqs
<1> QED
  BY <1>4, <1>6, <1>7, <1>8 DEF Made, d

LEMMA gen_fsk_stx_Made == Made(gen_fsk_stx)
<1> DEFINE d == gen_fsk_stx
<1>1. /\ d.start = RadioIdle /\ d.sends = Do("STX", Forever)
      /\ DOMAIN d.on = {}
      /\ DOMAIN d.raises = {"TX"}
      /\ d.raises["TX"] = "tx_done_flag"
      /\ d.if_ok = FALSE /\ d.all = TRUE
  BY DEF gen_fsk_stx, Sender, Receiver, Nil
<1>2. d.rounds = FALSE /\ d.pa = FALSE
  BY DEF gen_fsk_stx, Sender, Receiver, Nil
<1> HIDE DEF d
<1>3. ModeOf(d) = "STX"
  BY <1>1, RadioIs DEF ModeOf, RadioMode
<1>4. Fields(d)
  <2>1. d.start \in RadiosOf(d) /\ d.sends \in RadiosOf(d)
    BY <1>1, <1>3, RadioIs DEF RadiosOf, RadioMode
  <2>2. \A f \in DOMAIN d.on : d.on[f] \in RadiosOf(d)
    BY <1>1, <1>3, RadioIs DEF RadiosOf, RadioMode
  <2>3. DOMAIN d.raises \subseteq RfIrq /\ \A i \in DOMAIN d.raises : d.raises[i] \in Flag
    BY <1>1 DEF RfIrq, Flag
  <2>4. d.all \in BOOLEAN /\ d.if_ok \in BOOLEAN /\ d.rounds \in BOOLEAN /\ d.pa \in BOOLEAN
    BY <1>1, <1>2
  <2>5. ModeOf(d) \in RadioMode
    BY <1>3 DEF RadioMode
  <2> QED
    BY <2>1, <2>2, <2>3, <2>4, <2>5 DEF Fields
<1>5. d.sends # RadioIdle
  BY <1>1, RadioIs DEF RadioMode
<1>6. SendsAs(d)
  BY <1>1, <1>2, <1>3, <1>5 DEF SendsAs
<1>7. LoopsAs(d)
  BY <1>1, <1>2, <1>3, <1>5, RadioIs DEF LoopsAs, EndIrqs, RadioMode
<1>8. AmplifiedAs(d)
  BY <1>1, <1>2, <1>3 DEF AmplifiedAs, EndIrqs
<1> QED
  BY <1>4, <1>6, <1>7, <1>8 DEF Made, d

LEMMA tpsll_stx_Made == Made(tpsll_stx)
<1> DEFINE d == tpsll_stx
<1>1. /\ d.start = Do("STX", Forever) /\ d.sends = Do("STX", Forever)
      /\ DOMAIN d.on = {}
      /\ DOMAIN d.raises = {"TX"}
      /\ d.raises["TX"] = "tx_done_flag"
      /\ d.if_ok = FALSE /\ d.all = FALSE
  BY DEF tpsll_stx, Sender, Receiver, Nil
<1>2. d.rounds = FALSE /\ d.pa = FALSE
  BY DEF tpsll_stx, Sender, Receiver, Nil
<1> HIDE DEF d
<1>3. ModeOf(d) = "STX"
  BY <1>1, RadioIs DEF ModeOf, RadioMode
<1>4. Fields(d)
  <2>1. d.start \in RadiosOf(d) /\ d.sends \in RadiosOf(d)
    BY <1>1, <1>3, RadioIs DEF RadiosOf, RadioMode
  <2>2. \A f \in DOMAIN d.on : d.on[f] \in RadiosOf(d)
    BY <1>1, <1>3, RadioIs DEF RadiosOf, RadioMode
  <2>3. DOMAIN d.raises \subseteq RfIrq /\ \A i \in DOMAIN d.raises : d.raises[i] \in Flag
    BY <1>1 DEF RfIrq, Flag
  <2>4. d.all \in BOOLEAN /\ d.if_ok \in BOOLEAN /\ d.rounds \in BOOLEAN /\ d.pa \in BOOLEAN
    BY <1>1, <1>2
  <2>5. ModeOf(d) \in RadioMode
    BY <1>3 DEF RadioMode
  <2> QED
    BY <2>1, <2>2, <2>3, <2>4, <2>5 DEF Fields
<1>5. d.sends # RadioIdle
  BY <1>1, RadioIs DEF RadioMode
<1>6. SendsAs(d)
  BY <1>1, <1>2, <1>3, <1>5 DEF SendsAs
<1>7. LoopsAs(d)
  BY <1>1, <1>2, <1>3, <1>5, RadioIs DEF LoopsAs, EndIrqs, RadioMode
<1>8. AmplifiedAs(d)
  BY <1>1, <1>2, <1>3 DEF AmplifiedAs, EndIrqs
<1> QED
  BY <1>4, <1>6, <1>7, <1>8 DEF Made, d

LEMMA gen_fsk_stx_dpl_packet_Made == Made(gen_fsk_stx_dpl_packet)
<1> DEFINE d == gen_fsk_stx_dpl_packet
<1>1. /\ d.start = RadioIdle /\ d.sends = Do("STX", Forever)
      /\ DOMAIN d.on = {}
      /\ DOMAIN d.raises = {}
      /\ d.if_ok = FALSE /\ d.all = FALSE
  BY DEF gen_fsk_stx_dpl_packet, Sender, Receiver, Nil
<1>2. d.rounds = FALSE /\ d.pa = FALSE
  BY DEF gen_fsk_stx_dpl_packet, Sender, Receiver, Nil
<1> HIDE DEF d
<1>3. ModeOf(d) = "STX"
  BY <1>1, RadioIs DEF ModeOf, RadioMode
<1>4. Fields(d)
  <2>1. d.start \in RadiosOf(d) /\ d.sends \in RadiosOf(d)
    BY <1>1, <1>3, RadioIs DEF RadiosOf, RadioMode
  <2>2. \A f \in DOMAIN d.on : d.on[f] \in RadiosOf(d)
    BY <1>1, <1>3, RadioIs DEF RadiosOf, RadioMode
  <2>3. DOMAIN d.raises \subseteq RfIrq /\ \A i \in DOMAIN d.raises : d.raises[i] \in Flag
    BY <1>1 DEF RfIrq, Flag
  <2>4. d.all \in BOOLEAN /\ d.if_ok \in BOOLEAN /\ d.rounds \in BOOLEAN /\ d.pa \in BOOLEAN
    BY <1>1, <1>2
  <2>5. ModeOf(d) \in RadioMode
    BY <1>3 DEF RadioMode
  <2> QED
    BY <2>1, <2>2, <2>3, <2>4, <2>5 DEF Fields
<1>5. d.sends # RadioIdle
  BY <1>1, RadioIs DEF RadioMode
<1>6. SendsAs(d)
  BY <1>1, <1>2, <1>3, <1>5 DEF SendsAs, d
<1>7. LoopsAs(d)
  BY <1>1, <1>2, <1>3, <1>5, RadioIs DEF LoopsAs, EndIrqs, RadioMode
<1>8. AmplifiedAs(d)
  BY <1>1, <1>2, <1>3 DEF AmplifiedAs, EndIrqs
<1> QED
  BY <1>4, <1>6, <1>7, <1>8 DEF Made, d

LEMMA func_stx_test_Made == Made(func_stx_test)
<1> DEFINE d == func_stx_test
<1>1. /\ d.start = RadioIdle /\ d.sends = Do("STX", Forever)
      /\ DOMAIN d.on = {}
      /\ DOMAIN d.raises = {"RX", "TX", "RX_TIMEOUT", "FIRST_TIMEOUT"}
      /\ d.raises["RX"] = "rx_flag"
      /\ d.raises["TX"] = "tx_done_flag"
      /\ d.raises["RX_TIMEOUT"] = "rx_timeout_flag"
      /\ d.raises["FIRST_TIMEOUT"] = "rx_first_timeout"
      /\ d.if_ok = TRUE /\ d.all = TRUE
  BY DEF func_stx_test, Amplified, Sender, Receiver, Nil
<1>2. d.rounds = FALSE /\ d.pa = TRUE
  <2>1. d.pa = TRUE
    BY DEF func_stx_test, Amplified, Sender, Receiver, Nil
  <2>2. d.rounds = (Sender("STX", TRUE).sends = RadioIdle)
    BY DEF func_stx_test, Amplified, Sender, Receiver
  <2>3. Sender("STX", TRUE).sends = Do("STX", Forever)
    BY DEF Sender, Receiver
  <2> HIDE DEF d
  <2>4. Do("STX", Forever) # RadioIdle
    BY RadioIs DEF RadioMode
  <2> QED
    BY <2>1, <2>2, <2>3, <2>4
<1> HIDE DEF d
<1>3. ModeOf(d) = "STX"
  BY <1>1, RadioIs DEF ModeOf, RadioMode
<1>4. Fields(d)
  <2>1. d.start \in RadiosOf(d) /\ d.sends \in RadiosOf(d)
    BY <1>1, <1>3, RadioIs DEF RadiosOf, RadioMode
  <2>2. \A f \in DOMAIN d.on : d.on[f] \in RadiosOf(d)
    BY <1>1, <1>3, RadioIs DEF RadiosOf, RadioMode
  <2>3. DOMAIN d.raises \subseteq RfIrq /\ \A i \in DOMAIN d.raises : d.raises[i] \in Flag
    BY <1>1 DEF RfIrq, Flag
  <2>4. d.all \in BOOLEAN /\ d.if_ok \in BOOLEAN /\ d.rounds \in BOOLEAN /\ d.pa \in BOOLEAN
    BY <1>1, <1>2
  <2>5. ModeOf(d) \in RadioMode
    BY <1>3 DEF RadioMode
  <2> QED
    BY <2>1, <2>2, <2>3, <2>4, <2>5 DEF Fields
<1>5. d.sends # RadioIdle
  BY <1>1, RadioIs DEF RadioMode
<1>6. SendsAs(d)
  BY <1>1, <1>2, <1>3, <1>5 DEF SendsAs
<1>7. LoopsAs(d)
  BY <1>1, <1>2, <1>3, <1>5, RadioIs DEF LoopsAs, EndIrqs, RadioMode
<1>8. AmplifiedAs(d)
  BY <1>1, <1>2, <1>3 DEF AmplifiedAs, EndIrqs
<1> QED
  BY <1>4, <1>6, <1>7, <1>8 DEF Made, d

LEMMA gen_fsk_rx_Made == Made(gen_fsk_rx)
<1> DEFINE d == gen_fsk_rx
<1>1. /\ d.start = Do("RX", Forever) /\ d.sends = RadioIdle
      /\ DOMAIN d.on = {"rx_flag"}
      /\ d.on["rx_flag"] = RadioIdle
      /\ DOMAIN d.raises = {"RX"}
      /\ d.raises["RX"] = "rx_flag"
      /\ d.if_ok = TRUE /\ d.all = TRUE
  BY DEF gen_fsk_rx, Receiver
<1>2. d.rounds = FALSE /\ d.pa = FALSE
  BY DEF gen_fsk_rx, Receiver
<1> HIDE DEF d
<1>3. ModeOf(d) = "RX"
  BY <1>1, RadioIs DEF ModeOf, RadioMode
<1>4. Fields(d)
  <2>1. d.start \in RadiosOf(d) /\ d.sends \in RadiosOf(d)
    BY <1>1, <1>3, RadioIs DEF RadiosOf, RadioMode
  <2>2. \A f \in DOMAIN d.on : d.on[f] \in RadiosOf(d)
    BY <1>1, <1>3, RadioIs DEF RadiosOf, RadioMode
  <2>3. DOMAIN d.raises \subseteq RfIrq /\ \A i \in DOMAIN d.raises : d.raises[i] \in Flag
    BY <1>1 DEF RfIrq, Flag
  <2>4. d.all \in BOOLEAN /\ d.if_ok \in BOOLEAN /\ d.rounds \in BOOLEAN /\ d.pa \in BOOLEAN
    BY <1>1, <1>2
  <2>5. ModeOf(d) \in RadioMode
    BY <1>3 DEF RadioMode
  <2> QED
    BY <2>1, <2>2, <2>3, <2>4, <2>5 DEF Fields
<1>6. SendsAs(d)
  BY <1>1, <1>2, <1>3 DEF SendsAs
<1>7. LoopsAs(d)
  BY <1>1, <1>2, <1>3, RadioIs DEF LoopsAs, EndIrqs, RadioMode
<1>8. AmplifiedAs(d)
  BY <1>1, <1>2, <1>3 DEF AmplifiedAs, EndIrqs
<1> QED
  BY <1>4, <1>6, <1>7, <1>8 DEF Made, d

LEMMA gen_fsk_srx_Made == Made(gen_fsk_srx)
<1> DEFINE d == gen_fsk_srx
<1>1. /\ d.start = Do("SRX", Forever) /\ d.sends = RadioIdle
      /\ DOMAIN d.on = {"rx_flag", "rx_first_timeout"}
      /\ d.on["rx_flag"] = Do("SRX", Timed)
      /\ d.on["rx_first_timeout"] = Do("SRX", Forever)
      /\ DOMAIN d.raises = {"RX", "FIRST_TIMEOUT"}
      /\ d.raises["RX"] = "rx_flag"
      /\ d.raises["FIRST_TIMEOUT"] = "rx_first_timeout"
      /\ d.if_ok = FALSE /\ d.all = FALSE
  BY DEF gen_fsk_srx, Receiver
<1>2. d.rounds = FALSE /\ d.pa = FALSE
  BY DEF gen_fsk_srx, Receiver
<1> HIDE DEF d
<1>3. ModeOf(d) = "SRX"
  BY <1>1, RadioIs DEF ModeOf, RadioMode
<1>4. Fields(d)
  <2>1. d.start \in RadiosOf(d) /\ d.sends \in RadiosOf(d)
    BY <1>1, <1>3, RadioIs DEF RadiosOf, RadioMode
  <2>2. \A f \in DOMAIN d.on : d.on[f] \in RadiosOf(d)
    BY <1>1, <1>3, RadioIs DEF RadiosOf, RadioMode
  <2>3. DOMAIN d.raises \subseteq RfIrq /\ \A i \in DOMAIN d.raises : d.raises[i] \in Flag
    BY <1>1 DEF RfIrq, Flag
  <2>4. d.all \in BOOLEAN /\ d.if_ok \in BOOLEAN /\ d.rounds \in BOOLEAN /\ d.pa \in BOOLEAN
    BY <1>1, <1>2
  <2>5. ModeOf(d) \in RadioMode
    BY <1>3 DEF RadioMode
  <2> QED
    BY <2>1, <2>2, <2>3, <2>4, <2>5 DEF Fields
<1>6. SendsAs(d)
  BY <1>1, <1>2, <1>3 DEF SendsAs
<1>7. LoopsAs(d)
  BY <1>1, <1>2, <1>3, RadioIs DEF LoopsAs, EndIrqs, RadioMode
<1>8. AmplifiedAs(d)
  BY <1>1, <1>2, <1>3 DEF AmplifiedAs, EndIrqs
<1> QED
  BY <1>4, <1>6, <1>7, <1>8 DEF Made, d

LEMMA gen_fsk_srx2tx_Made == Made(gen_fsk_srx2tx)
<1> DEFINE d == gen_fsk_srx2tx
<1>1. /\ d.start = Do("SRX2TX", Forever) /\ d.sends = RadioIdle
      /\ DOMAIN d.on = {"rx_flag", "tx_done_flag"}
      /\ d.on["rx_flag"] = RadioIdle
      /\ d.on["tx_done_flag"] = Do("SRX2TX", Forever)
      /\ DOMAIN d.raises = {"RX", "TX"}
      /\ d.raises["RX"] = "rx_flag"
      /\ d.raises["TX"] = "tx_done_flag"
      /\ d.if_ok = FALSE /\ d.all = FALSE
  BY DEF gen_fsk_srx2tx, Receiver
<1>2. d.rounds = FALSE /\ d.pa = FALSE
  BY DEF gen_fsk_srx2tx, Receiver
<1> HIDE DEF d
<1>3. ModeOf(d) = "SRX2TX"
  BY <1>1, RadioIs DEF ModeOf, RadioMode
<1>4. Fields(d)
  <2>1. d.start \in RadiosOf(d) /\ d.sends \in RadiosOf(d)
    BY <1>1, <1>3, RadioIs DEF RadiosOf, RadioMode
  <2>2. \A f \in DOMAIN d.on : d.on[f] \in RadiosOf(d)
    BY <1>1, <1>3, RadioIs DEF RadiosOf, RadioMode
  <2>3. DOMAIN d.raises \subseteq RfIrq /\ \A i \in DOMAIN d.raises : d.raises[i] \in Flag
    BY <1>1 DEF RfIrq, Flag
  <2>4. d.all \in BOOLEAN /\ d.if_ok \in BOOLEAN /\ d.rounds \in BOOLEAN /\ d.pa \in BOOLEAN
    BY <1>1, <1>2
  <2>5. ModeOf(d) \in RadioMode
    BY <1>3 DEF RadioMode
  <2> QED
    BY <2>1, <2>2, <2>3, <2>4, <2>5 DEF Fields
<1>6. SendsAs(d)
  BY <1>1, <1>2, <1>3 DEF SendsAs
<1>7. LoopsAs(d)
  BY <1>1, <1>2, <1>3, RadioIs DEF LoopsAs, EndIrqs, RadioMode, TwoOperations, d
<1>8. AmplifiedAs(d)
  BY <1>1, <1>2, <1>3 DEF AmplifiedAs, EndIrqs
<1> QED
  BY <1>4, <1>6, <1>7, <1>8 DEF Made, d

LEMMA gen_fsk_stx2rx_Made == Made(gen_fsk_stx2rx)
<1> DEFINE d == gen_fsk_stx2rx
<1>1. /\ d.start = Do("STX2RX", Timed) /\ d.sends = RadioIdle
      /\ DOMAIN d.on = {"tx_done_flag", "rx_timeout_flag", "rx_flag"}
      /\ d.on["tx_done_flag"] = RadioIdle
      /\ d.on["rx_timeout_flag"] = Do("STX2RX", Timed)
      /\ d.on["rx_flag"] = Do("STX2RX", Timed)
      /\ DOMAIN d.raises = {"RX", "RX_TIMEOUT", "TX"}
      /\ d.raises["RX"] = "rx_flag"
      /\ d.raises["RX_TIMEOUT"] = "rx_timeout_flag"
      /\ d.raises["TX"] = "tx_done_flag"
      /\ d.if_ok = FALSE /\ d.all = FALSE
  BY DEF gen_fsk_stx2rx, Receiver
<1>2. d.rounds = FALSE /\ d.pa = FALSE
  BY DEF gen_fsk_stx2rx, Receiver
<1> HIDE DEF d
<1>3. ModeOf(d) = "STX2RX"
  BY <1>1, RadioIs DEF ModeOf, RadioMode
<1>4. Fields(d)
  <2>1. d.start \in RadiosOf(d) /\ d.sends \in RadiosOf(d)
    BY <1>1, <1>3, RadioIs DEF RadiosOf, RadioMode
  <2>2. \A f \in DOMAIN d.on : d.on[f] \in RadiosOf(d)
    BY <1>1, <1>3, RadioIs DEF RadiosOf, RadioMode
  <2>3. DOMAIN d.raises \subseteq RfIrq /\ \A i \in DOMAIN d.raises : d.raises[i] \in Flag
    BY <1>1 DEF RfIrq, Flag
  <2>4. d.all \in BOOLEAN /\ d.if_ok \in BOOLEAN /\ d.rounds \in BOOLEAN /\ d.pa \in BOOLEAN
    BY <1>1, <1>2
  <2>5. ModeOf(d) \in RadioMode
    BY <1>3 DEF RadioMode
  <2> QED
    BY <2>1, <2>2, <2>3, <2>4, <2>5 DEF Fields
<1>6. SendsAs(d)
  BY <1>1, <1>2, <1>3 DEF SendsAs
<1>7. LoopsAs(d)
  BY <1>1, <1>2, <1>3, RadioIs DEF LoopsAs, EndIrqs, RadioMode, TwoOperations, d
<1>8. AmplifiedAs(d)
  BY <1>1, <1>2, <1>3 DEF AmplifiedAs, EndIrqs
<1> QED
  BY <1>4, <1>6, <1>7, <1>8 DEF Made, d

LEMMA tpsll_srx_Made == Made(tpsll_srx)
<1> DEFINE d == tpsll_srx
<1>1. /\ d.start = Do("SRX", Forever) /\ d.sends = RadioIdle
      /\ DOMAIN d.on = {"rx_flag", "rx_first_timeout"}
      /\ d.on["rx_flag"] = Do("SRX", Timed)
      /\ d.on["rx_first_timeout"] = Do("SRX", Timed)
      /\ DOMAIN d.raises = {"RX", "FIRST_TIMEOUT"}
      /\ d.raises["RX"] = "rx_flag"
      /\ d.raises["FIRST_TIMEOUT"] = "rx_first_timeout"
      /\ d.if_ok = TRUE /\ d.all = FALSE
  BY DEF tpsll_srx, Receiver
<1>2. d.rounds = FALSE /\ d.pa = FALSE
  BY DEF tpsll_srx, Receiver
<1> HIDE DEF d
<1>3. ModeOf(d) = "SRX"
  BY <1>1, RadioIs DEF ModeOf, RadioMode
<1>4. Fields(d)
  <2>1. d.start \in RadiosOf(d) /\ d.sends \in RadiosOf(d)
    BY <1>1, <1>3, RadioIs DEF RadiosOf, RadioMode
  <2>2. \A f \in DOMAIN d.on : d.on[f] \in RadiosOf(d)
    BY <1>1, <1>3, RadioIs DEF RadiosOf, RadioMode
  <2>3. DOMAIN d.raises \subseteq RfIrq /\ \A i \in DOMAIN d.raises : d.raises[i] \in Flag
    BY <1>1 DEF RfIrq, Flag
  <2>4. d.all \in BOOLEAN /\ d.if_ok \in BOOLEAN /\ d.rounds \in BOOLEAN /\ d.pa \in BOOLEAN
    BY <1>1, <1>2
  <2>5. ModeOf(d) \in RadioMode
    BY <1>3 DEF RadioMode
  <2> QED
    BY <2>1, <2>2, <2>3, <2>4, <2>5 DEF Fields
<1>6. SendsAs(d)
  BY <1>1, <1>2, <1>3 DEF SendsAs
<1>7. LoopsAs(d)
  BY <1>1, <1>2, <1>3, RadioIs DEF LoopsAs, EndIrqs, RadioMode, d
<1>8. AmplifiedAs(d)
  BY <1>1, <1>2, <1>3 DEF AmplifiedAs, EndIrqs
<1> QED
  BY <1>4, <1>6, <1>7, <1>8 DEF Made, d

LEMMA tpsll_srx2tx_Made == Made(tpsll_srx2tx)
<1> DEFINE d == tpsll_srx2tx
<1>1. /\ d.start = Do("SRX2TX", Forever) /\ d.sends = RadioIdle
      /\ DOMAIN d.on = {"rx_flag", "tx_done_flag"}
      /\ d.on["rx_flag"] = RadioIdle
      /\ d.on["tx_done_flag"] = Do("SRX2TX", Forever)
      /\ DOMAIN d.raises = {"RX", "FIRST_TIMEOUT", "TX"}
      /\ d.raises["RX"] = "rx_flag"
      /\ d.raises["FIRST_TIMEOUT"] = "rx_first_timeout"
      /\ d.raises["TX"] = "tx_done_flag"
      /\ d.if_ok = TRUE /\ d.all = FALSE
  BY DEF tpsll_srx2tx, Receiver
<1>2. d.rounds = FALSE /\ d.pa = FALSE
  BY DEF tpsll_srx2tx, Receiver
<1> HIDE DEF d
<1>3. ModeOf(d) = "SRX2TX"
  BY <1>1, RadioIs DEF ModeOf, RadioMode
<1>4. Fields(d)
  <2>1. d.start \in RadiosOf(d) /\ d.sends \in RadiosOf(d)
    BY <1>1, <1>3, RadioIs DEF RadiosOf, RadioMode
  <2>2. \A f \in DOMAIN d.on : d.on[f] \in RadiosOf(d)
    BY <1>1, <1>3, RadioIs DEF RadiosOf, RadioMode
  <2>3. DOMAIN d.raises \subseteq RfIrq /\ \A i \in DOMAIN d.raises : d.raises[i] \in Flag
    BY <1>1 DEF RfIrq, Flag
  <2>4. d.all \in BOOLEAN /\ d.if_ok \in BOOLEAN /\ d.rounds \in BOOLEAN /\ d.pa \in BOOLEAN
    BY <1>1, <1>2
  <2>5. ModeOf(d) \in RadioMode
    BY <1>3 DEF RadioMode
  <2> QED
    BY <2>1, <2>2, <2>3, <2>4, <2>5 DEF Fields
<1>6. SendsAs(d)
  BY <1>1, <1>2, <1>3 DEF SendsAs
<1>7. LoopsAs(d)
  BY <1>1, <1>2, <1>3, RadioIs DEF LoopsAs, EndIrqs, RadioMode, TwoOperations, d
<1>8. AmplifiedAs(d)
  BY <1>1, <1>2, <1>3 DEF AmplifiedAs, EndIrqs
<1> QED
  BY <1>4, <1>6, <1>7, <1>8 DEF Made, d

LEMMA tpsll_stx2rx_Made == Made(tpsll_stx2rx)
<1> DEFINE d == tpsll_stx2rx
<1>1. /\ d.start = Do("STX2RX", Timed) /\ d.sends = RadioIdle
      /\ DOMAIN d.on = {"rx_timeout_flag", "rx_flag"}
      /\ d.on["rx_timeout_flag"] = Do("STX2RX", Timed)
      /\ d.on["rx_flag"] = Do("STX2RX", Timed)
      /\ DOMAIN d.raises = {"RX", "RX_TIMEOUT", "TX"}
      /\ d.raises["RX"] = "rx_flag"
      /\ d.raises["RX_TIMEOUT"] = "rx_timeout_flag"
      /\ d.raises["TX"] = "tx_done_flag"
      /\ d.if_ok = TRUE /\ d.all = FALSE
  BY DEF tpsll_stx2rx, Receiver
<1>2. d.rounds = FALSE /\ d.pa = FALSE
  BY DEF tpsll_stx2rx, Receiver
<1> HIDE DEF d
<1>3. ModeOf(d) = "STX2RX"
  BY <1>1, RadioIs DEF ModeOf, RadioMode
<1>4. Fields(d)
  <2>1. d.start \in RadiosOf(d) /\ d.sends \in RadiosOf(d)
    BY <1>1, <1>3, RadioIs DEF RadiosOf, RadioMode
  <2>2. \A f \in DOMAIN d.on : d.on[f] \in RadiosOf(d)
    BY <1>1, <1>3, RadioIs DEF RadiosOf, RadioMode
  <2>3. DOMAIN d.raises \subseteq RfIrq /\ \A i \in DOMAIN d.raises : d.raises[i] \in Flag
    BY <1>1 DEF RfIrq, Flag
  <2>4. d.all \in BOOLEAN /\ d.if_ok \in BOOLEAN /\ d.rounds \in BOOLEAN /\ d.pa \in BOOLEAN
    BY <1>1, <1>2
  <2>5. ModeOf(d) \in RadioMode
    BY <1>3 DEF RadioMode
  <2> QED
    BY <2>1, <2>2, <2>3, <2>4, <2>5 DEF Fields
<1>6. SendsAs(d)
  BY <1>1, <1>2, <1>3 DEF SendsAs
<1>7. LoopsAs(d)
  BY <1>1, <1>2, <1>3, RadioIs DEF LoopsAs, EndIrqs, RadioMode, TwoOperations, d
<1>8. AmplifiedAs(d)
  BY <1>1, <1>2, <1>3 DEF AmplifiedAs, EndIrqs
<1> QED
  BY <1>4, <1>6, <1>7, <1>8 DEF Made, d

LEMMA tpll_ptx_Made == Made(tpll_ptx)
<1> DEFINE d == tpll_ptx
<1>1. /\ d.start = RadioIdle /\ d.sends = RadioIdle
      /\ DOMAIN d.on = {"ds_flag", "maxretry_flag"}
      /\ d.on["ds_flag"] = Do("PTX", Timed)
      /\ d.on["maxretry_flag"] = Do("PTX", Timed)
      /\ DOMAIN d.raises = {"TX", "TX_DS", "RETRY_HIT", "RX_DR"}
      /\ d.raises["TX"] = "none"
      /\ d.raises["TX_DS"] = "ds_flag"
      /\ d.raises["RETRY_HIT"] = "maxretry_flag"
      /\ d.raises["RX_DR"] = "rx_dr_flag"
      /\ d.if_ok = FALSE /\ d.all = TRUE
  BY DEF tpll_ptx, Receiver
<1>2. d.rounds = FALSE /\ d.pa = FALSE
  BY DEF tpll_ptx, Receiver
<1> HIDE DEF d
<1>3. ModeOf(d) = "PTX"
  BY <1>1, RadioIs DEF ModeOf, RadioMode
<1>4. Fields(d)
  <2>1. d.start \in RadiosOf(d) /\ d.sends \in RadiosOf(d)
    BY <1>1, <1>3, RadioIs DEF RadiosOf, RadioMode
  <2>2. \A f \in DOMAIN d.on : d.on[f] \in RadiosOf(d)
    BY <1>1, <1>3, RadioIs DEF RadiosOf, RadioMode
  <2>3. DOMAIN d.raises \subseteq RfIrq /\ \A i \in DOMAIN d.raises : d.raises[i] \in Flag
    BY <1>1 DEF RfIrq, Flag
  <2>4. d.all \in BOOLEAN /\ d.if_ok \in BOOLEAN /\ d.rounds \in BOOLEAN /\ d.pa \in BOOLEAN
    BY <1>1, <1>2
  <2>5. ModeOf(d) \in RadioMode
    BY <1>3 DEF RadioMode
  <2> QED
    BY <2>1, <2>2, <2>3, <2>4, <2>5 DEF Fields
<1>6. SendsAs(d)
  BY <1>1, <1>2, <1>3 DEF SendsAs
<1>7. LoopsAs(d)
  BY <1>1, <1>2, <1>3, RadioIs DEF LoopsAs, EndIrqs, RadioMode, d
<1>8. AmplifiedAs(d)
  BY <1>1, <1>2, <1>3 DEF AmplifiedAs, EndIrqs
<1> QED
  BY <1>4, <1>6, <1>7, <1>8 DEF Made, d

LEMMA tpll_prx_Made == Made(tpll_prx)
<1> DEFINE d == tpll_prx
<1>1. /\ d.start = Do("PRX", Forever) /\ d.sends = RadioIdle
      /\ DOMAIN d.on = {"rx_dr_flag"}
      /\ d.on["rx_dr_flag"] = RadioIdle
      /\ DOMAIN d.raises = {"TX", "TX_DS", "RX_DR"}
      /\ d.raises["TX"] = "none"
      /\ d.raises["TX_DS"] = "ds_flag"
      /\ d.raises["RX_DR"] = "rx_dr_flag"
      /\ d.if_ok = FALSE /\ d.all = TRUE
  BY DEF tpll_prx, Receiver
<1>2. d.rounds = FALSE /\ d.pa = FALSE
  BY DEF tpll_prx, Receiver
<1> HIDE DEF d
<1>3. ModeOf(d) = "PRX"
  BY <1>1, RadioIs DEF ModeOf, RadioMode
<1>4. Fields(d)
  <2>1. d.start \in RadiosOf(d) /\ d.sends \in RadiosOf(d)
    BY <1>1, <1>3, RadioIs DEF RadiosOf, RadioMode
  <2>2. \A f \in DOMAIN d.on : d.on[f] \in RadiosOf(d)
    BY <1>1, <1>3, RadioIs DEF RadiosOf, RadioMode
  <2>3. DOMAIN d.raises \subseteq RfIrq /\ \A i \in DOMAIN d.raises : d.raises[i] \in Flag
    BY <1>1 DEF RfIrq, Flag
  <2>4. d.all \in BOOLEAN /\ d.if_ok \in BOOLEAN /\ d.rounds \in BOOLEAN /\ d.pa \in BOOLEAN
    BY <1>1, <1>2
  <2>5. ModeOf(d) \in RadioMode
    BY <1>3 DEF RadioMode
  <2> QED
    BY <2>1, <2>2, <2>3, <2>4, <2>5 DEF Fields
<1>6. SendsAs(d)
  BY <1>1, <1>2, <1>3 DEF SendsAs
<1>7. LoopsAs(d)
  BY <1>1, <1>2, <1>3, RadioIs DEF LoopsAs, EndIrqs, RadioMode
<1>8. AmplifiedAs(d)
  BY <1>1, <1>2, <1>3 DEF AmplifiedAs, EndIrqs
<1> QED
  BY <1>4, <1>6, <1>7, <1>8 DEF Made, d

LEMMA func_srx_test_Made == Made(func_srx_test)
<1> DEFINE d == func_srx_test
<1>1. /\ d.start = Do("SRX", Forever) /\ d.sends = RadioIdle
      /\ DOMAIN d.on = {"rx_flag", "rx_first_timeout"}
      /\ d.on["rx_flag"] = Do("SRX", Timed)
      /\ d.on["rx_first_timeout"] = Do("SRX", Forever)
      /\ DOMAIN d.raises = {"RX", "TX", "RX_TIMEOUT", "FIRST_TIMEOUT"}
      /\ d.raises["RX"] = "rx_flag"
      /\ d.raises["TX"] = "tx_done_flag"
      /\ d.raises["RX_TIMEOUT"] = "rx_timeout_flag"
      /\ d.raises["FIRST_TIMEOUT"] = "rx_first_timeout"
      /\ d.if_ok = TRUE /\ d.all = TRUE
  BY DEF func_srx_test, Amplified, gen_fsk_srx, Receiver
<1>2. d.rounds = TRUE /\ d.pa = TRUE
  <2>1. d.pa = TRUE
    BY DEF func_srx_test, Amplified, gen_fsk_srx, Receiver
  <2>2. d.rounds = (gen_fsk_srx.sends = RadioIdle)
    BY DEF func_srx_test, Amplified, gen_fsk_srx, Receiver
  <2>3. gen_fsk_srx.sends = RadioIdle
    BY DEF gen_fsk_srx, Receiver
  <2> HIDE DEF d
  <2> QED
    BY <2>1, <2>2, <2>3
<1> HIDE DEF d
<1>3. ModeOf(d) = "SRX"
  BY <1>1, RadioIs DEF ModeOf, RadioMode
<1>4. Fields(d)
  <2>1. d.start \in RadiosOf(d) /\ d.sends \in RadiosOf(d)
    BY <1>1, <1>3, RadioIs DEF RadiosOf, RadioMode
  <2>2. \A f \in DOMAIN d.on : d.on[f] \in RadiosOf(d)
    BY <1>1, <1>3, RadioIs DEF RadiosOf, RadioMode
  <2>3. DOMAIN d.raises \subseteq RfIrq /\ \A i \in DOMAIN d.raises : d.raises[i] \in Flag
    BY <1>1 DEF RfIrq, Flag
  <2>4. d.all \in BOOLEAN /\ d.if_ok \in BOOLEAN /\ d.rounds \in BOOLEAN /\ d.pa \in BOOLEAN
    BY <1>1, <1>2
  <2>5. ModeOf(d) \in RadioMode
    BY <1>3 DEF RadioMode
  <2> QED
    BY <2>1, <2>2, <2>3, <2>4, <2>5 DEF Fields
<1>6. SendsAs(d)
  BY <1>1, <1>2, <1>3 DEF SendsAs
<1>7. LoopsAs(d)
  BY <1>1, <1>2, <1>3, RadioIs DEF LoopsAs, EndIrqs, RadioMode
<1>8. AmplifiedAs(d)
  BY <1>1, <1>2, <1>3 DEF AmplifiedAs, EndIrqs
<1> QED
  BY <1>4, <1>6, <1>7, <1>8 DEF Made, d

LEMMA func_srx2tx_test_Made == Made(func_srx2tx_test)
<1> DEFINE d == func_srx2tx_test
<1>1. /\ d.start = Do("SRX2TX", Forever) /\ d.sends = RadioIdle
      /\ DOMAIN d.on = {"rx_flag", "tx_done_flag"}
      /\ d.on["rx_flag"] = RadioIdle
      /\ d.on["tx_done_flag"] = Do("SRX2TX", Forever)
      /\ DOMAIN d.raises = {"RX", "TX", "RX_TIMEOUT", "FIRST_TIMEOUT"}
      /\ d.raises["RX"] = "rx_flag"
      /\ d.raises["TX"] = "tx_done_flag"
      /\ d.raises["RX_TIMEOUT"] = "rx_timeout_flag"
      /\ d.raises["FIRST_TIMEOUT"] = "rx_first_timeout"
      /\ d.if_ok = TRUE /\ d.all = TRUE
  BY DEF func_srx2tx_test, Amplified, gen_fsk_srx2tx, Receiver
<1>2. d.rounds = TRUE /\ d.pa = TRUE
  <2>1. d.pa = TRUE
    BY DEF func_srx2tx_test, Amplified, gen_fsk_srx2tx, Receiver
  <2>2. d.rounds = (gen_fsk_srx2tx.sends = RadioIdle)
    BY DEF func_srx2tx_test, Amplified, gen_fsk_srx2tx, Receiver
  <2>3. gen_fsk_srx2tx.sends = RadioIdle
    BY DEF gen_fsk_srx2tx, Receiver
  <2> HIDE DEF d
  <2> QED
    BY <2>1, <2>2, <2>3
<1> HIDE DEF d
<1>3. ModeOf(d) = "SRX2TX"
  BY <1>1, RadioIs DEF ModeOf, RadioMode
<1>4. Fields(d)
  <2>1. d.start \in RadiosOf(d) /\ d.sends \in RadiosOf(d)
    BY <1>1, <1>3, RadioIs DEF RadiosOf, RadioMode
  <2>2. \A f \in DOMAIN d.on : d.on[f] \in RadiosOf(d)
    BY <1>1, <1>3, RadioIs DEF RadiosOf, RadioMode
  <2>3. DOMAIN d.raises \subseteq RfIrq /\ \A i \in DOMAIN d.raises : d.raises[i] \in Flag
    BY <1>1 DEF RfIrq, Flag
  <2>4. d.all \in BOOLEAN /\ d.if_ok \in BOOLEAN /\ d.rounds \in BOOLEAN /\ d.pa \in BOOLEAN
    BY <1>1, <1>2
  <2>5. ModeOf(d) \in RadioMode
    BY <1>3 DEF RadioMode
  <2> QED
    BY <2>1, <2>2, <2>3, <2>4, <2>5 DEF Fields
<1>6. SendsAs(d)
  BY <1>1, <1>2, <1>3 DEF SendsAs
<1>7. LoopsAs(d)
  BY <1>1, <1>2, <1>3, RadioIs DEF LoopsAs, EndIrqs, RadioMode
<1>8. AmplifiedAs(d)
  BY <1>1, <1>2, <1>3 DEF AmplifiedAs, EndIrqs
<1> QED
  BY <1>4, <1>6, <1>7, <1>8 DEF Made, d

LEMMA func_stx2rx_test_Made == Made(func_stx2rx_test)
<1> DEFINE d == func_stx2rx_test
<1>1. /\ d.start = Do("STX2RX", Timed) /\ d.sends = RadioIdle
      /\ DOMAIN d.on = {"rx_timeout_flag", "rx_flag"}
      /\ d.on["rx_timeout_flag"] = Do("STX2RX", Timed)
      /\ d.on["rx_flag"] = Do("STX2RX", Timed)
      /\ DOMAIN d.raises = {"RX", "TX", "RX_TIMEOUT", "FIRST_TIMEOUT"}
      /\ d.raises["RX"] = "rx_flag"
      /\ d.raises["TX"] = "tx_done_flag"
      /\ d.raises["RX_TIMEOUT"] = "rx_timeout_flag"
      /\ d.raises["FIRST_TIMEOUT"] = "rx_first_timeout"
      /\ d.if_ok = TRUE /\ d.all = TRUE
  BY DEF func_stx2rx_test, Amplified, tpsll_stx2rx, gen_fsk_stx2rx, Receiver
<1>2. d.rounds = TRUE /\ d.pa = TRUE
  <2>1. d.pa = TRUE
    BY DEF func_stx2rx_test, Amplified, tpsll_stx2rx, gen_fsk_stx2rx, Receiver
  <2>2. d.rounds = ([gen_fsk_stx2rx EXCEPT !.on = tpsll_stx2rx.on].sends = RadioIdle)
    BY DEF func_stx2rx_test, Amplified, gen_fsk_stx2rx, Receiver
  <2>3. [gen_fsk_stx2rx EXCEPT !.on = tpsll_stx2rx.on].sends = RadioIdle
    BY DEF gen_fsk_stx2rx, Receiver
  <2> HIDE DEF d
  <2> QED
    BY <2>1, <2>2, <2>3
<1> HIDE DEF d
<1>3. ModeOf(d) = "STX2RX"
  BY <1>1, RadioIs DEF ModeOf, RadioMode
<1>4. Fields(d)
  <2>1. d.start \in RadiosOf(d) /\ d.sends \in RadiosOf(d)
    BY <1>1, <1>3, RadioIs DEF RadiosOf, RadioMode
  <2>2. \A f \in DOMAIN d.on : d.on[f] \in RadiosOf(d)
    BY <1>1, <1>3, RadioIs DEF RadiosOf, RadioMode
  <2>3. DOMAIN d.raises \subseteq RfIrq /\ \A i \in DOMAIN d.raises : d.raises[i] \in Flag
    BY <1>1 DEF RfIrq, Flag
  <2>4. d.all \in BOOLEAN /\ d.if_ok \in BOOLEAN /\ d.rounds \in BOOLEAN /\ d.pa \in BOOLEAN
    BY <1>1, <1>2
  <2>5. ModeOf(d) \in RadioMode
    BY <1>3 DEF RadioMode
  <2> QED
    BY <2>1, <2>2, <2>3, <2>4, <2>5 DEF Fields
<1>6. SendsAs(d)
  BY <1>1, <1>2, <1>3 DEF SendsAs
<1>7. LoopsAs(d)
  BY <1>1, <1>2, <1>3, RadioIs DEF LoopsAs, EndIrqs, RadioMode
<1>8. AmplifiedAs(d)
  BY <1>1, <1>2, <1>3 DEF AmplifiedAs, EndIrqs
<1> QED
  BY <1>4, <1>6, <1>7, <1>8 DEF Made, d

LEMMA AllMade == \A d \in Demo : Made(d)
BY gen_fsk_tx_Made, gen_fsk_stx_Made, tpsll_stx_Made, gen_fsk_stx_dpl_packet_Made,
   func_stx_test_Made, gen_fsk_rx_Made, gen_fsk_srx_Made, gen_fsk_srx2tx_Made,
   gen_fsk_stx2rx_Made, tpsll_srx_Made, tpsll_srx2tx_Made, tpsll_stx2rx_Made, tpll_ptx_Made,
   tpll_prx_Made, func_srx_test_Made, func_srx2tx_test_Made, func_stx2rx_test_Made DEF Demo

LEMMA RadioWorks ==
    ASSUME NEW d \in Demo, NEW r \in RadiosOf(d)
    PROVE  /\ r = RadioIdle \/ r.mode = ModeOf(d)
           /\ r.phase \in 0 .. 2 /\ r.timed \in BOOLEAN
           /\ r = RadioIdle => r.mode = "IDLE"
           /\ r # RadioIdle => /\ r.phase \in {1, 2}
                               /\ [r EXCEPT !.phase = 2] \in RadiosOf(d)
                               /\ [r EXCEPT !.phase = 2] # RadioIdle
<1>1. CASE r = RadioIdle
  BY <1>1 DEF RadioIdle
<1>2. ASSUME r # RadioIdle
      PROVE  /\ r.mode = ModeOf(d) /\ r.phase \in {1, 2} /\ r.timed \in BOOLEAN
             /\ [r EXCEPT !.phase = 2] \in RadiosOf(d)
             /\ [r EXCEPT !.phase = 2] # RadioIdle
  <2>1. r \in [mode : {ModeOf(d)}, phase : {1, 2}, timed : BOOLEAN]
    BY <1>2 DEF RadiosOf
  <2>2. [r EXCEPT !.phase = 2] \in [mode : {ModeOf(d)}, phase : {1, 2}, timed : BOOLEAN]
    BY <2>1
  <2>3. [r EXCEPT !.phase = 2].phase = 2 /\ RadioIdle.phase = 0
    BY <2>1 DEF RadioIdle
  <2> QED
    BY <2>1, <2>2, <2>3 DEF RadiosOf
<1> QED
  BY <1>1, <1>2

(* What the radio does next: it goes on, or ends with an interrupt of an end. *)
LEMMA AheadIs ==
    ASSUME NEW d \in Demo, NEW r \in RadiosOf(d), NEW ahead \in Ahead(r)
    PROVE  /\ r # RadioIdle
           /\ ahead[2] \in RadiosOf(d) /\ ahead[1] \subseteq RfIrq
           /\ ahead[2] = RadioIdle => ahead[1] \cap EndIrqs(ModeOf(d)) # {}
           /\ ModeOf(d) \in {"TX", "STX"} => ahead[1] = {"TX"}
           /\ ModeOf(d) = "SRX" => /\ ahead[2] = RadioIdle
                                   /\ ahead[1] = {"RX"} \/ ahead[1] = {"FIRST_TIMEOUT"}
<1>1. r # RadioIdle
  BY DEF Ahead, RadioIdle
<1>2. /\ r.mode = ModeOf(d) /\ r.phase \in {1, 2} /\ r.timed \in BOOLEAN
      /\ [r EXCEPT !.phase = 2] \in RadiosOf(d) /\ [r EXCEPT !.phase = 2] # RadioIdle
  BY <1>1, RadioWorks
<1>3. ModeOf(d) \in RadioMode
  BY AllMade DEF Made, Fields
<1>4. RadioIdle \in RadiosOf(d)
  BY DEF RadiosOf
<1> DEFINE m == ModeOf(d)
           then == [r EXCEPT !.phase = 2]
<1> HIDE DEF m, then
<1>5. r.mode = m /\ then \in RadiosOf(d) /\ then # RadioIdle /\ m \in RadioMode
  BY <1>2, <1>3 DEF m, then
<1> DEFINE Good == /\ ahead[2] \in RadiosOf(d) /\ ahead[1] \subseteq RfIrq
                   /\ ahead[2] = RadioIdle => ahead[1] \cap EndIrqs(m) # {}
                   /\ m \in {"TX", "STX"} => ahead[1] = {"TX"}
                   /\ m = "SRX" => /\ ahead[2] = RadioIdle
                                   /\ ahead[1] = {"RX"} \/ ahead[1] = {"FIRST_TIMEOUT"}
<1>6. ASSUME m \in {"TX", "STX"} PROVE Good
  BY <1>4, <1>5, <1>6 DEF Ahead, EndIrqs, RfIrq
<1>7. ASSUME m = "RX" PROVE Good
  BY <1>1, <1>5, <1>7 DEF Ahead, EndIrqs, RfIrq
<1>8. ASSUME m = "SRX" PROVE Good
  <2>1. ahead \in {<<{"RX"}, RadioIdle>>, <<{"FIRST_TIMEOUT"}, RadioIdle>>}
    BY <1>5, <1>8 DEF Ahead
  <2> QED
    BY <1>4, <1>8, <2>1 DEF EndIrqs, RfIrq
<1>9. ASSUME m = "SRX2TX" PROVE Good
  <2>1. ahead \in {<<{"RX"}, then>>, <<{"TX"}, RadioIdle>>}
    BY <1>5, <1>9 DEF Ahead, then
  <2> QED
    BY <1>4, <1>5, <1>9, <2>1 DEF EndIrqs, RfIrq
<1>10. ASSUME m = "STX2RX" PROVE Good
  <2>1. ahead \in {<<{"TX"}, then>>, <<{"RX"}, RadioIdle>>, <<{"RX_TIMEOUT"}, RadioIdle>>}
    BY <1>5, <1>10 DEF Ahead, then
  <2> QED
    BY <1>4, <1>5, <1>10, <2>1 DEF EndIrqs, RfIrq
<1>11. ASSUME m = "PTX" PROVE Good
  <2>1. ahead \in {<<{"TX"}, then>>, <<{"TX_DS"}, RadioIdle>>,
                  <<{"TX_DS", "RX_DR"}, RadioIdle>>, <<{"RETRY_HIT"}, RadioIdle>>}
    BY <1>5, <1>11 DEF Ahead, then
  <2> QED
    BY <1>4, <1>5, <1>11, <2>1 DEF EndIrqs, RfIrq
<1>12. ASSUME m = "PRX" PROVE Good
  <2>1. ahead \in {<<{"RX_DR"}, r>>, <<{"TX"}, r>>, <<{"TX_DS"}, r>>}
    BY <1>5, <1>12 DEF Ahead
  <2> QED
    BY <1>1, <1>12, <2>1 DEF RfIrq
<1>13. Good
  BY <1>5, <1>6, <1>7, <1>8, <1>9, <1>10, <1>11, <1>12 DEF RadioMode
<1> QED
  BY <1>1, <1>13 DEF m

(* What the steps below need of the demonstration that is built. *)
LEMMA DemoIs ==
    ASSUME demo \in Demo
    PROVE  Fields(demo) /\ SendsAs(demo) /\ LoopsAs(demo) /\ AmplifiedAs(demo)
BY AllMade DEF Made

LEMMA ListensAs ==
    ASSUME demo \in Demo, Listens
    PROVE  /\ demo # tpll_ptx /\ ~demo.all /\ DOMAIN demo.raises = Ends
           /\ \A f \in DOMAIN demo.on : demo.on[f] # RadioIdle
<1>1. demo.sends = RadioIdle /\ ~demo.rounds /\ ModeOf(demo) = "SRX"
  BY DEF Listens, Sends
<1>2. ModeOf(tpll_ptx) = "PTX"
  BY DEF tpll_ptx, Receiver, ModeOf
<1>3. Ends # {}
  BY <1>1 DEF Ends, EndIrqs
<1> QED
  BY <1>1, <1>2, <1>3, DemoIs DEF LoopsAs, Ends

LEMMA DemoInvInit == DemoInit => DemoInv
<1> SUFFICES ASSUME DemoInit
             PROVE  DemoInv
  OBVIOUS
<1>1. /\ demo \in Demo /\ Made(demo)
      /\ rf_irq = {} /\ irq_src = {} /\ unseen = {} /\ handling = FALSE /\ requested = FALSE
      /\ crc_ok = TRUE /\ written = TRUE /\ pa = "off" /\ command = radio
      /\ radio = (IF demo.rounds THEN RadioIdle ELSE demo.start)
      /\ main_pc = IF demo.sends # RadioIdle THEN "top" ELSE IF demo.rounds THEN "round" ELSE "loop"
  BY AllMade DEF DemoInit
<1>2. Fields(demo) /\ SendsAs(demo) /\ LoopsAs(demo) /\ AmplifiedAs(demo)
  BY <1>1 DEF Made
<1>3. radio \in RadiosOf(demo)
  BY <1>1, <1>2 DEF Fields, RadiosOf
<1>4. DemoTypeOK
  <2>1. flags \subseteq Flag
    BY DEF DemoInit, Flag
  <2>2. radio.phase \in 0 .. 2 /\ radio.timed \in BOOLEAN
    BY <1>1, <1>3, RadioWorks
  <2> QED
    BY <1>1, <2>1, <2>2 DEF DemoTypeOK
<1>5. SenderWaits
  BY <1>1 DEF SenderWaits, Sends
<1>6. LoopGoesOn
  <2> SUFFICES ASSUME main_pc = "loop", ~demo.rounds, radio = RadioIdle
               PROVE  Restarts
    BY <1>1 DEF LoopGoesOn
  <2>1. demo.sends = RadioIdle /\ demo = tpll_ptx
    BY <1>1, <1>2 DEF LoopsAs
  <2>2. flags = {"ds_flag"}
    BY <2>1 DEF DemoInit
  <2>3. "ds_flag" \in DOMAIN tpll_ptx.on /\ tpll_ptx.on["ds_flag"] = Do("PTX", Timed)
    BY DEF tpll_ptx, Receiver
  <2>4. Do("PTX", Timed) # RadioIdle
    BY RadioIs DEF RadioMode
  <2> QED
    BY <2>1, <2>2, <2>3, <2>4 DEF Restarts, Woken
<1>7. Amplifier
  <2>1. radio = RadioIdle \/ command.mode = ModeOf(demo)
    BY <1>1, <1>3, RadioWorks
  <2>2. radio = RadioIdle => command.mode = "IDLE"
    BY <1>1, <1>3, RadioWorks
  <2> QED
    BY <1>1, <2>1, <2>2 DEF Amplifier
<1>8. OneEnd
  <2> SUFFICES ASSUME Listens
               PROVE  OneEnd
    BY DEF OneEnd
  <2>1. demo # tpll_ptx
    BY <1>1, ListensAs
  <2>2. flags = {}
    BY <2>1 DEF DemoInit
  <2>3. main_pc = "loop"
    BY <1>1 DEF Listens, Sends
  <2> QED
    BY <1>1, <2>2, <2>3 DEF OneEnd, Woken
<1> QED
  BY <1>1, <1>3, <1>4, <1>5, <1>6, <1>7, <1>8 DEF DemoInv

LEMMA RadioGoesOnKeeps == DemoInv /\ RadioGoesOn => DemoInv'
<1> SUFFICES ASSUME DemoInv, RadioGoesOn
             PROVE  DemoInv'
  OBVIOUS
<1>1. PICK ahead \in Ahead(radio) :
        /\ rf_irq' = rf_irq \cup ahead[1]
        /\ requested' = (requested \/ ahead[1] \cap DOMAIN demo.raises # {})
        /\ radio' = ahead[2]
        /\ IF "RX" \in ahead[1] THEN crc_ok' \in BOOLEAN ELSE UNCHANGED crc_ok
  BY DEF RadioGoesOn
<1>2. /\ demo' = demo /\ irq_src' = irq_src /\ handling' = handling /\ flags' = flags
      /\ main_pc' = main_pc /\ command' = command /\ pa' = pa /\ unseen' = unseen /\ written' = written
  BY DEF RadioGoesOn
<1>3. demo \in Demo /\ radio \in RadiosOf(demo) /\ command \in RadiosOf(demo)
  BY DEF DemoInv, DemoTypeOK
<1>4. /\ radio # RadioIdle
      /\ ahead[2] \in RadiosOf(demo) /\ ahead[1] \subseteq RfIrq
      /\ ahead[2] = RadioIdle => ahead[1] \cap Ends # {}
      /\ ModeOf(demo) \in {"TX", "STX"} => ahead[1] = {"TX"}
      /\ ModeOf(demo) = "SRX" => /\ ahead[2] = RadioIdle
                                 /\ ahead[1] = {"RX"} \/ ahead[1] = {"FIRST_TIMEOUT"}
  BY <1>3, AheadIs DEF Ends
<1>5. radio' \in RadiosOf(demo)' /\ command' \in RadiosOf(demo)' /\ Ends' = Ends
  BY <1>1, <1>2, <1>3, <1>4 DEF RadiosOf, ModeOf, Ends
<1>6. crc_ok' \in BOOLEAN /\ requested' \in BOOLEAN
  BY <1>1 DEF DemoInv, DemoTypeOK
<1>7. DemoTypeOK'
  <2>1. radio'.phase \in 0 .. 2 /\ radio'.timed \in BOOLEAN
    BY <1>1, <1>3, <1>4, RadioWorks
  <2>2. rf_irq' \subseteq RfIrq
    BY <1>1, <1>4 DEF DemoInv, DemoTypeOK
  <2> QED
    BY <1>2, <1>6, <2>1, <2>2 DEF DemoInv, DemoTypeOK
<1>8. SenderWaits'
  <2>1. Sends' = Sends /\ (main_pc' = "spin" => Sends)
    BY <1>2 DEF Sends, DemoInv, SenderWaits
  <2>2. ~Sends => SenderWaits'
    BY <1>2, <2>1 DEF DemoInv, SenderWaits
  <2>3. ASSUME Sends
        PROVE  /\ main_pc' \in {"top", "start", "spin"} /\ rf_irq' = {"TX"}
               /\ requested' \/ demo = gen_fsk_stx_dpl_packet
               /\ requested' => demo # gen_fsk_stx_dpl_packet
    <3>1. ahead[1] = {"TX"} /\ SendsAs(demo)
      BY <1>3, <1>4, <2>3, DemoIs DEF SendsAs, Sends
    <3>2. CASE demo = gen_fsk_stx_dpl_packet
      <4>1. DOMAIN demo.raises = {}
        BY <3>2 DEF gen_fsk_stx_dpl_packet, Sender, Receiver, Nil
      <4> QED
        BY <1>1, <1>2, <2>3, <3>1, <3>2, <4>1 DEF DemoInv, SenderWaits
    <3>3. CASE demo # gen_fsk_stx_dpl_packet
      <4>1. "TX" \in DOMAIN demo.raises
        BY <2>3, <3>1, <3>3 DEF SendsAs, Sends
      <4> QED
        BY <1>1, <1>2, <2>3, <3>1, <3>3, <4>1 DEF DemoInv, SenderWaits
    <3> QED
      BY <3>2, <3>3
  <2> QED
    BY <1>2, <2>1, <2>2, <2>3 DEF DemoInv, SenderWaits
<1>9. radio' = RadioIdle => Ends' \cap rf_irq' # {}
  BY <1>1, <1>4, <1>5
<1>10. OneEnd'
  <2> SUFFICES ASSUME Listens
               PROVE  OneEnd'
    BY <1>2 DEF OneEnd, Listens, Sends, ModeOf
  <2>1. /\ rf_irq = {} /\ ~requested /\ ~handling /\ main_pc = "loop" /\ Woken = {}
        /\ Woken' = Woken
    BY <1>2, <1>4 DEF DemoInv, OneEnd, Woken
  <2>2. radio' = RadioIdle /\ (rf_irq' = {"RX"} \/ rf_irq' = {"FIRST_TIMEOUT"})
    BY <1>1, <1>4, <2>1 DEF Listens
  <2>3. Ends = {"RX", "FIRST_TIMEOUT"}
    BY DEF Listens, Ends, EndIrqs
  <2> QED
    BY <1>2, <1>5, <2>1, <2>2, <2>3 DEF OneEnd
<1>11. LoopGoesOn'
  <2>1. ASSUME main_pc' = "loop", ~demo'.rounds, radio' = RadioIdle
        PROVE  Restarts'
    <3>1. Ends \subseteq DOMAIN demo.raises
      <4>1. demo.sends = RadioIdle /\ LoopsAs(demo)
        BY <1>2, <1>3, <2>1, DemoIs DEF DemoInv, SenderWaits, Sends
      <4> QED
        BY <1>2, <2>1, <4>1 DEF LoopsAs, Ends
    <3>2. requested'
      BY <1>1, <1>4, <2>1, <3>1
    <3> QED
      BY <1>9, <2>1, <3>2 DEF Restarts
  <2> QED
    BY <1>1, <1>2, <2>1 DEF DemoInv, LoopGoesOn
<1>12. Amplifier'
  BY <1>2, <1>4, <1>9 DEF DemoInv, Amplifier, ModeOf
<1> QED
  BY <1>5, <1>7, <1>8, <1>10, <1>11, <1>12 DEF DemoInv

LEMMA IrqReadKeeps == DemoInv /\ IrqRead => DemoInv'
<1> SUFFICES ASSUME DemoInv, IrqRead
             PROVE  DemoInv'
  OBVIOUS
<1>1. /\ ~handling /\ requested /\ handling' = TRUE /\ irq_src' = rf_irq
      /\ demo' = demo /\ radio' = radio /\ rf_irq' = rf_irq /\ flags' = flags
      /\ main_pc' = main_pc /\ command' = command /\ crc_ok' = crc_ok /\ pa' = pa
      /\ unseen' = unseen /\ requested' = requested /\ written' = written
  BY DEF IrqRead
<1>2. demo \in Demo /\ Ends' = Ends /\ Woken' = Woken
  BY <1>1 DEF DemoInv, DemoTypeOK, Ends, ModeOf, Woken
<1>3. DemoTypeOK' /\ radio' \in RadiosOf(demo)' /\ command' \in RadiosOf(demo)'
  BY <1>1 DEF DemoInv, DemoTypeOK, RadiosOf, ModeOf
<1>4. SenderWaits'
  <2>1. Sends' = Sends
    BY <1>1 DEF Sends
  <2>2. Sends => irq_src' = {"TX"} /\ demo # gen_fsk_stx_dpl_packet
    BY <1>1 DEF DemoInv, SenderWaits
  <2> QED
    BY <1>1, <2>1, <2>2 DEF DemoInv, SenderWaits
<1>5. OneEnd'
  <2>1. Listens' = Listens
    BY <1>1 DEF Listens, Sends, ModeOf
  <2> QED
    BY <1>1, <1>2, <2>1 DEF DemoInv, OneEnd
<1>6. LoopGoesOn'
  BY <1>1, <1>2 DEF DemoInv, LoopGoesOn, Restarts
<1>7. Amplifier'
  BY <1>1, <1>2 DEF DemoInv, Amplifier, ModeOf
<1> QED
  BY <1>3, <1>4, <1>5, <1>6, <1>7 DEF DemoInv

(* An interrupt of an end that is pending is, after the handler, still pending,
   or its flag is raised, or it is one of the exceptions. *)
LEMMA HandlerTells ==
    ASSUME DemoInv, IrqHandle, ~Sends, ~demo.rounds, NEW i \in Ends \cap rf_irq
    PROVE  Restarts'
<1>1. /\ handling /\ flags' = flags \cup {demo.raises[j] : j \in Taken \cap DOMAIN demo.raises}
      /\ demo.all => unseen' = unseen \cup CameUp
      /\ ~demo.all => rf_irq' = rf_irq \ (irq_src \cap DOMAIN demo.raises)
      /\ demo' = demo /\ crc_ok' = crc_ok
  BY DEF IrqHandle
<1>2. /\ i \in DOMAIN demo.raises /\ demo.raises[i] \in DOMAIN demo.on
      /\ demo.on[demo.raises[i]] # RadioIdle
      /\ demo.if_ok /\ i = "RX" => demo \in {tpsll_srx, tpsll_stx2rx}
      /\ \/ demo = tpll_ptx
         \/ demo \in TwoOperations /\ ~demo.all
         \/ ModeOf(demo) = "SRX"
  <2>1. LoopsAs(demo) /\ demo.sends = RadioIdle
    BY DemoIs DEF DemoInv, DemoTypeOK, Sends
  <2> QED
    BY <2>1 DEF LoopsAs, Ends
<1>3. Ends' = Ends
  BY <1>1 DEF Ends, ModeOf
<1>4. CASE i \in Taken
  BY <1>1, <1>2, <1>4 DEF Restarts, Woken
<1>5. CASE i \in irq_src /\ i \notin Taken
  <2>1. demo.if_ok /\ ~crc_ok /\ i = "RX"
    BY <1>5 DEF Taken
  <2> QED
    BY <1>1, <1>2, <2>1 DEF Restarts
<1>6. CASE i \notin irq_src /\ demo = tpll_ptx
  <2>1. tpll_ptx.sends = RadioIdle /\ tpll_ptx.start = RadioIdle /\ tpll_ptx.all
    BY DEF tpll_ptx, Receiver
  <2>2. Ends = {"TX_DS", "RETRY_HIT"}
    BY <1>6, <2>1 DEF Ends, EndIrqs, ModeOf
  <2>3. i \in unseen'
    BY <1>1, <1>2, <1>6, <2>1 DEF CameUp, Pending
  <2> QED
    BY <1>1, <1>6, <2>2, <2>3 DEF Restarts
<1>7. CASE i \notin irq_src /\ demo \in TwoOperations /\ ~demo.all
  BY <1>1, <1>3, <1>7 DEF Restarts
<1>8. CASE i \notin irq_src /\ ModeOf(demo) = "SRX"
  BY <1>1, <1>8 DEF DemoInv, OneEnd, Listens
<1> QED
  BY <1>2, <1>4, <1>5, <1>6, <1>7, <1>8

(* The handler switches the amplifier off for an interrupt of an end that it takes. *)
LEMMA HandlerTurnsOff ==
    ASSUME NEW i \in Ends \cap Taken, command.mode = ModeOf(demo),
           ModeOf(demo) \in {"STX", "SRX", "SRX2TX", "STX2RX"}
    PROVE  PaHandled = "off" \/ (command.mode = "SRX2TX" /\ {"RX", "TX"} \subseteq Taken)
<1> DEFINE m == command.mode
<1>1. m \in {"STX", "SRX", "SRX2TX", "STX2RX"}
  OBVIOUS
<1>2. i \in EndIrqs(m)
  BY DEF Ends
<1> HIDE DEF m
<1> DEFINE tx == IF "TX" \in Taken THEN rf_pa_handler("TX", pa) ELSE pa
           rx == IF "RX" \in Taken THEN rf_pa_handler("RX", tx) ELSE tx
           first == IF "FIRST_TIMEOUT" \in Taken THEN rf_pa_handler("FIRST_TIMEOUT", rx) ELSE rx
           end == IF "RX_TIMEOUT" \in Taken THEN rf_pa_handler("RX_TIMEOUT", first) ELSE first
<1>3. PaHandled = end
  BY DEF PaHandled
<1>4. /\ m = "STX" => /\ \A p : rf_pa_handler("TX", p) = "off"
                      /\ \A p : rf_pa_handler("RX", p) = p
                      /\ \A p : rf_pa_handler("FIRST_TIMEOUT", p) = p
                      /\ \A p : rf_pa_handler("RX_TIMEOUT", p) = p
      /\ m = "SRX2TX" => /\ \A p : rf_pa_handler("TX", p) = "off"
                         /\ \A p : rf_pa_handler("FIRST_TIMEOUT", p) = p
                         /\ \A p : rf_pa_handler("RX_TIMEOUT", p) = p
      /\ m = "SRX" => /\ \A p : rf_pa_handler("RX", p) = "off"
                      /\ \A p : rf_pa_handler("FIRST_TIMEOUT", p) = "off"
                      /\ \A p : rf_pa_handler("RX_TIMEOUT", p) = p
      /\ m = "STX2RX" => /\ \A p : rf_pa_handler("RX", p) = "off"
                         /\ \A p : rf_pa_handler("FIRST_TIMEOUT", p) = p
                         /\ \A p : rf_pa_handler("RX_TIMEOUT", p) = "off"
  BY DEF rf_pa_handler, m
<1>5. ASSUME m = "STX" PROVE end = "off"
  <2>1. "TX" \in Taken
    BY <1>2, <1>5 DEF EndIrqs
  <2> QED
    BY <1>4, <1>5, <2>1
<1>6. ASSUME m = "SRX2TX" PROVE end = "off" \/ {"RX", "TX"} \subseteq Taken
  <2>1. "TX" \in Taken
    BY <1>2, <1>6 DEF EndIrqs
  <2>2. tx = "off"
    BY <1>4, <1>6, <2>1
  <2> QED
    BY <1>4, <1>6, <2>1, <2>2
<1>7. ASSUME m = "SRX" PROVE end = "off"
  <2>1. "RX" \in Taken \/ "FIRST_TIMEOUT" \in Taken
    BY <1>2, <1>7 DEF EndIrqs
  <2>2. first = "off"
    BY <1>4, <1>7, <2>1
  <2> QED
    BY <1>4, <1>7, <2>2
<1>8. ASSUME m = "STX2RX" PROVE end = "off"
  <2>1. "RX" \in Taken \/ "RX_TIMEOUT" \in Taken
    BY <1>2, <1>8 DEF EndIrqs
  <2> QED
    BY <1>4, <1>8, <2>1
<1> HIDE DEF end
<1> QED
  BY <1>1, <1>3, <1>5, <1>6, <1>7, <1>8 DEF m

LEMMA IrqHandleKeeps == DemoInv /\ IrqHandle => DemoInv'
<1> SUFFICES ASSUME DemoInv, IrqHandle
             PROVE  DemoInv'
  OBVIOUS
<1>1. /\ handling /\ handling' = FALSE
      /\ flags' = flags \cup {demo.raises[j] : j \in Taken \cap DOMAIN demo.raises}
      /\ pa' = (IF demo.pa THEN PaHandled ELSE pa)
      /\ demo.all => rf_irq' \subseteq CameUp /\ unseen' = unseen \cup CameUp
      /\ ~demo.all => /\ rf_irq' = rf_irq \ (irq_src \cap DOMAIN demo.raises)
                      /\ unseen' = unseen
      /\ requested' \in {FALSE, CameUp # {}} /\ written' = written
      /\ demo' = demo /\ radio' = radio /\ irq_src' = irq_src /\ main_pc' = main_pc
      /\ command' = command /\ crc_ok' = crc_ok
  BY DEF IrqHandle
<1>2. /\ demo \in Demo /\ Fields(demo) /\ SendsAs(demo) /\ LoopsAs(demo) /\ AmplifiedAs(demo)
      /\ Sends' = Sends /\ Ends' = Ends
  BY <1>1, DemoIs DEF DemoInv, DemoTypeOK, Sends, Ends, ModeOf
<1>3. Taken \subseteq irq_src /\ Taken = (IF demo.if_ok /\ ~crc_ok THEN irq_src \ {"RX"} ELSE irq_src)
  BY DEF Taken
<1>4. DemoTypeOK' /\ radio' \in RadiosOf(demo)' /\ command' \in RadiosOf(demo)'
  <2>1. flags' \subseteq Flag
    BY <1>1, <1>2 DEF DemoInv, DemoTypeOK, Fields
  <2>2. rf_irq' \subseteq RfIrq /\ unseen' \subseteq RfIrq
    BY <1>1 DEF DemoInv, DemoTypeOK, CameUp, Pending
  <2>3. PaHandled \in {"off", "tx_on", "rx_on"}
    <3>1. \A f, p : p \in {"off", "tx_on", "rx_on"} => rf_pa_handler(f, p) \in {"off", "tx_on", "rx_on"}
      BY DEF rf_pa_handler
    <3>2. pa \in {"off", "tx_on", "rx_on"}
      BY DEF DemoInv, DemoTypeOK
    <3> QED
      BY <3>1, <3>2 DEF PaHandled
  <2>4. pa' \in {"off", "tx_on", "rx_on"}
    BY <1>1, <2>3 DEF DemoInv, DemoTypeOK
  <2> QED
    BY <1>1, <2>1, <2>2, <2>4 DEF DemoInv, DemoTypeOK, RadiosOf, ModeOf
<1>5. SenderWaits'
  <2>1. rf_irq' \subseteq rf_irq
    BY <1>1 DEF CameUp, Pending
  <2>4. Sends => ~requested'
    BY <1>1 DEF CameUp, Pending, DemoInv, SenderWaits
  <2>2. ASSUME Sends
        PROVE  "tx_done_flag" \in flags' /\ demo # gen_fsk_stx_dpl_packet
    <3>1. irq_src = {"TX"} /\ demo # gen_fsk_stx_dpl_packet
      BY <1>1, <2>2 DEF DemoInv, SenderWaits
    <3>2. "TX" \in DOMAIN demo.raises /\ demo.raises["TX"] = "tx_done_flag"
      BY <1>2, <2>2, <3>1 DEF SendsAs, Sends
    <3>3. "TX" \in Taken
      BY <1>3, <3>1
    <3> QED
      BY <1>1, <3>1, <3>2, <3>3
  <2>3. main_pc = "spin" => Sends
    BY DEF DemoInv, SenderWaits
  <2> QED
    BY <1>1, <1>2, <2>1, <2>2, <2>3, <2>4 DEF DemoInv, SenderWaits
<1>6. LoopGoesOn'
  <2> SUFFICES ASSUME main_pc = "loop", ~demo.rounds, radio = RadioIdle
               PROVE  Restarts'
    BY <1>1 DEF LoopGoesOn
  <2>1. Restarts /\ ~Sends
    BY DEF DemoInv, LoopGoesOn, SenderWaits
  <2>2. CASE Ends \cap rf_irq # {}
    BY <2>1, <2>2, HandlerTells
  <2>3. CASE \E f \in Woken : demo.on[f] # RadioIdle
    BY <1>1, <2>3 DEF Restarts, Woken
  <2>4. CASE \/ demo \in {tpsll_srx, tpsll_stx2rx} /\ ~crc_ok
             \/ demo = tpll_ptx /\ (~written \/ unseen \cap {"TX_DS", "RETRY_HIT"} # {})
    BY <1>1, <2>4 DEF Restarts
  <2> QED
    BY <2>1, <2>2, <2>3, <2>4 DEF Restarts
<1>7. Amplifier'
  <2> SUFFICES ASSUME demo.pa
               PROVE  Amplifier'
    BY <1>1 DEF Amplifier
  <2>1. /\ command.mode = ModeOf(demo) /\ ModeOf(demo)' = ModeOf(demo)
        /\ demo.all /\ Ends \subseteq DOMAIN demo.raises
        /\ ModeOf(demo) \in {"STX", "SRX", "SRX2TX", "STX2RX"}
    BY <1>1, <1>2 DEF DemoInv, Amplifier, LoopGoesOn, AmplifiedAs, ModeOf, Ends
  <2>2. rf_irq' \subseteq CameUp /\ unseen' = unseen \cup CameUp /\ pa' = PaHandled
    BY <1>1, <2>1
  <2>3. ASSUME radio = RadioIdle, crc_ok, unseen' = {}
        PROVE  /\ rf_irq' = {} /\ ~requested'
               /\ pa' = "off" \/ (command.mode = "SRX2TX" /\ {"RX", "TX"} \subseteq irq_src)
    <3>1. Ends \cap rf_irq # {}
      BY <1>1, <2>2, <2>3 DEF DemoInv, Amplifier, LoopGoesOn
    <3>2. PICK i \in Ends : i \in rf_irq
      BY <3>1
    <3>3. i \in irq_src
      BY <2>1, <2>2, <2>3, <3>2 DEF CameUp, Pending
    <3>4. Taken = irq_src
      BY <1>3, <2>3
    <3> QED
      BY <1>1, <2>1, <2>2, <2>3, <3>2, <3>3, <3>4, HandlerTurnsOff
  <2> QED
    BY <1>1, <2>1, <2>2, <2>3 DEF Amplifier
<1>8. OneEnd'
  <2> SUFFICES ASSUME Listens
               PROVE  OneEnd'
    BY <1>1 DEF OneEnd, Listens, Sends, ModeOf
  <2>1. /\ rf_irq # {} /\ irq_src = rf_irq /\ rf_irq \subseteq Ends
        /\ radio = RadioIdle /\ main_pc = "loop" /\ Woken = {}
        /\ \A i, j \in rf_irq : i = j
    BY <1>1 DEF DemoInv, OneEnd
  <2>2. ~demo.all /\ DOMAIN demo.raises = Ends
    BY <1>2, ListensAs
  <2>3. rf_irq' = {} /\ ~requested'
    BY <1>1, <2>1, <2>2 DEF CameUp, Pending
  <2>4. \A f, g \in Woken' : f = g
    BY <1>1, <1>3, <2>1 DEF Woken
  <2> QED
    BY <1>1, <1>2, <2>1, <2>3, <2>4 DEF OneEnd
<1> QED
  BY <1>4, <1>5, <1>6, <1>7, <1>8 DEF DemoInv

LEMMA LoopFlagKeeps == DemoInv /\ LoopFlag => DemoInv'
<1> SUFFICES ASSUME DemoInv, LoopFlag
             PROVE  DemoInv'
  OBVIOUS
<1>1. PICK f \in flags \cap DOMAIN demo.on :
        /\ flags' = flags \ (IF demo = tpll_ptx THEN DOMAIN demo.on ELSE {f})
        /\ written' \in (IF demo = tpll_ptx THEN BOOLEAN ELSE {TRUE})
        /\ IF written' /\ demo.on[f] # RadioIdle
           THEN main_pc' = "start" /\ command' = demo.on[f]
           ELSE UNCHANGED <<main_pc, command>>
  BY DEF LoopFlag
<1>2. /\ main_pc = "loop" /\ ~handling /\ requested' = requested /\ demo' = demo /\ radio' = radio /\ rf_irq' = rf_irq
      /\ irq_src' = irq_src /\ handling' = handling /\ crc_ok' = crc_ok /\ pa' = pa
      /\ unseen' = unseen
  BY DEF LoopFlag
<1>3. demo \in Demo /\ Fields(demo) /\ Sends' = Sends /\ Ends' = Ends /\ ~Sends
  BY <1>2, DemoIs DEF DemoInv, DemoTypeOK, Sends, Ends, ModeOf, SenderWaits
<1>4. \/ /\ demo.on[f] = RadioIdle \/ (demo = tpll_ptx /\ ~written')
         /\ main_pc' = "loop" /\ command' = command
      \/ demo.on[f] # RadioIdle /\ main_pc' = "start" /\ command' = demo.on[f]
  BY <1>1, <1>2
<1>5. command' \in RadiosOf(demo) /\ (main_pc' = "start" => command'.mode = ModeOf(demo))
  BY <1>2, <1>3, <1>4, RadioWorks DEF DemoInv, Fields
<1>6. DemoTypeOK' /\ radio' \in RadiosOf(demo)' /\ command' \in RadiosOf(demo)'
  BY <1>1, <1>2, <1>4, <1>5 DEF DemoInv, DemoTypeOK, RadiosOf, ModeOf
<1>7. SenderWaits'
  BY <1>2, <1>3, <1>4 DEF DemoInv, SenderWaits
<1>8. LoopGoesOn'
  <2> SUFFICES ASSUME main_pc' = "loop", ~demo.rounds, radio = RadioIdle
               PROVE  Restarts'
    BY <1>2 DEF LoopGoesOn
  <2>1. Restarts /\ (demo.on[f] = RadioIdle \/ (demo = tpll_ptx /\ ~written'))
    BY <1>2, <1>4 DEF DemoInv, LoopGoesOn
  <2>4. CASE demo = tpll_ptx /\ ~written'
    BY <1>2, <2>4 DEF Restarts
  <2>5. CASE demo.on[f] = RadioIdle
    <3>1. demo # tpll_ptx
      <4>1. DOMAIN tpll_ptx.on = {"ds_flag", "maxretry_flag"}
        BY DEF tpll_ptx, Receiver
      <4>2. /\ tpll_ptx.on["ds_flag"] = Do("PTX", Timed)
            /\ tpll_ptx.on["maxretry_flag"] = Do("PTX", Timed)
        BY DEF tpll_ptx, Receiver
      <4>3. Do("PTX", Timed) # RadioIdle
        BY RadioIs DEF RadioMode
      <4>4. \A g \in DOMAIN tpll_ptx.on : tpll_ptx.on[g] # RadioIdle
        BY <4>1, <4>2, <4>3
      <4> QED
        BY <1>1, <2>5, <4>4
    <3>2. flags' = flags \ {f}
      BY <1>1, <3>1
    <3> QED
      BY <1>2, <1>3, <2>1, <2>5, <3>1, <3>2 DEF Restarts, Woken
  <2> QED
    BY <2>1, <2>4, <2>5
<1>9. Amplifier'
  <2>1. main_pc' = "start" \/ command' = command
    BY <1>4
  <2> QED
    BY <1>2, <1>3, <1>5, <2>1 DEF DemoInv, Amplifier, ModeOf
<1>10. OneEnd'
  <2> SUFFICES ASSUME Listens
               PROVE  OneEnd'
    BY <1>2 DEF OneEnd, Listens, Sends, ModeOf
  <2>1. f \in Woken /\ rf_irq = {} /\ radio = RadioIdle /\ \A g, h \in Woken : g = h
    BY <1>1 DEF DemoInv, OneEnd, Woken
  <2>2. demo # tpll_ptx /\ demo.on[f] # RadioIdle
    BY <1>1, <1>3, ListensAs
  <2>3. Woken' = {}
    BY <1>1, <1>2, <2>1, <2>2 DEF Woken
  <2> QED
    BY <1>1, <1>2, <1>3, <1>4, <2>1, <2>2, <2>3 DEF DemoInv, OneEnd
<1> QED
  BY <1>6, <1>7, <1>8, <1>9, <1>10 DEF DemoInv

(* What Round and SendClear have in common: they prepare a start. *)
LEMMA PreparedKeeps ==
    ASSUME DemoInv, main_pc' = "start", command' # RadioIdle, command' \in RadiosOf(demo),
           flags' \subseteq flags, ~handling,
           Listens => rf_irq = {} /\ radio = RadioIdle /\ Woken' = {},
           UNCHANGED <<demo, radio, rf_irq, requested, irq_src, handling, crc_ok, written, pa,
                       unseen>>
    PROVE  DemoInv'
<1>1. demo \in Demo /\ Sends' = Sends /\ Ends' = Ends /\ command'.mode = ModeOf(demo)
  BY RadioWorks DEF DemoInv, DemoTypeOK, Sends, Ends, ModeOf
<1>2. DemoTypeOK' /\ radio' \in RadiosOf(demo)' /\ command' \in RadiosOf(demo)'
  BY DEF DemoInv, DemoTypeOK, RadiosOf, ModeOf
<1>3. SenderWaits'
  BY <1>1 DEF DemoInv, SenderWaits
<1>4. LoopGoesOn'
  BY DEF LoopGoesOn
<1>5. Amplifier'
  BY <1>1 DEF DemoInv, Amplifier, ModeOf
<1>6. OneEnd'
  BY <1>1 DEF DemoInv, OneEnd, Listens, Sends, ModeOf
<1> QED
  BY <1>2, <1>3, <1>4, <1>5, <1>6 DEF DemoInv

LEMMA RoundKeeps == DemoInv /\ Round => DemoInv'
<1> SUFFICES ASSUME DemoInv, Round
             PROVE  DemoInv'
  OBVIOUS
<1>1. demo \in Demo /\ Fields(demo) /\ SendsAs(demo) /\ LoopsAs(demo) /\ demo.rounds
  BY DemoIs DEF DemoInv, DemoTypeOK, Round
<1>2. demo.start # RadioIdle /\ demo.start \in RadiosOf(demo)
  BY <1>1 DEF Fields, SendsAs, LoopsAs
<1> QED
  BY <1>1, <1>2, PreparedKeeps DEF Round, Listens

LEMMA SendClearKeeps == DemoInv /\ SendClear => DemoInv'
<1> SUFFICES ASSUME DemoInv, SendClear
             PROVE  DemoInv'
  OBVIOUS
<1>1. demo \in Demo /\ Fields(demo)
  BY DemoIs DEF DemoInv, DemoTypeOK
<1>2. demo.sends # RadioIdle /\ demo.sends \in RadiosOf(demo)
  BY <1>1 DEF Fields, DemoInv, SenderWaits, Sends, SendClear
<1>3. ~Listens
  BY <1>2 DEF Listens, Sends
<1> QED
  BY <1>2, <1>3, PreparedKeeps DEF SendClear

LEMMA RadioStartKeeps == DemoInv /\ RadioStart => DemoInv'
<1> SUFFICES ASSUME DemoInv, RadioStart
             PROVE  DemoInv'
  OBVIOUS
<1>1. /\ main_pc = "start" /\ radio' = command /\ unseen' = {}
      /\ main_pc' = (IF demo.sends = RadioIdle THEN "loop" ELSE "spin")
      /\ pa' = (IF ~demo.pa THEN pa
                ELSE IF command.mode \in {"STX", "STX2RX"} THEN "tx_on" ELSE "rx_on")
      /\ demo' = demo /\ rf_irq' = rf_irq /\ irq_src' = irq_src /\ handling' = handling
      /\ flags' = flags /\ command' = command /\ crc_ok' = crc_ok
      /\ ~handling /\ requested' = requested /\ written' = written
  BY DEF RadioStart
<1>2. demo \in Demo /\ Sends' = Sends /\ Ends' = Ends
  BY <1>1 DEF DemoInv, DemoTypeOK, Sends, Ends, ModeOf
<1>3. command # RadioIdle /\ command \in RadiosOf(demo) /\ command.mode = ModeOf(demo)
  BY <1>1, <1>2, RadioWorks DEF DemoInv, SenderWaits
<1>4. radio' # RadioIdle /\ radio' \in RadiosOf(demo)' /\ command' \in RadiosOf(demo)'
  BY <1>1, <1>3 DEF RadiosOf, ModeOf
<1>5. DemoTypeOK'
  <2>1. radio'.phase \in 0 .. 2 /\ radio'.timed \in BOOLEAN
    BY <1>1, <1>2, <1>3, RadioWorks
  <2> QED
    BY <1>1, <2>1 DEF DemoInv, DemoTypeOK
<1>6. SenderWaits'
  BY <1>1, <1>2, <1>4 DEF DemoInv, SenderWaits, Sends
<1>7. LoopGoesOn'
  BY <1>1, <1>4 DEF LoopGoesOn
<1>8. Amplifier'
  BY <1>1, <1>3, <1>4 DEF Amplifier, ModeOf
<1>9. OneEnd'
  <2> SUFFICES ASSUME Listens
               PROVE  OneEnd'
    BY <1>1 DEF OneEnd, Listens, Sends, ModeOf
  <2>1. rf_irq = {} /\ ~requested /\ Woken = {} /\ demo.sends = RadioIdle
    BY <1>1 DEF DemoInv, OneEnd, Listens, Sends
  <2>2. Woken' = Woken
    BY <1>1 DEF Woken
  <2> QED
    BY <1>1, <2>1, <2>2 DEF OneEnd
<1> QED
  BY <1>4, <1>5, <1>6, <1>7, <1>8, <1>9 DEF DemoInv

LEMMA SendDoneKeeps == DemoInv /\ SendDone => DemoInv'
<1> SUFFICES ASSUME DemoInv, SendDone
             PROVE  DemoInv'
  OBVIOUS
<1>1. /\ ~handling /\ requested' = requested /\ written' = written
      /\ main_pc = "spin" /\ main_pc' = "top"
      /\ rf_irq' = (IF demo = gen_fsk_stx_dpl_packet THEN rf_irq \ {"TX"} ELSE rf_irq)
      /\ demo' = demo /\ radio' = radio /\ irq_src' = irq_src /\ handling' = handling
      /\ flags' = flags /\ command' = command /\ crc_ok' = crc_ok /\ pa' = pa /\ unseen' = unseen
  BY DEF SendDone
<1>2. Sends' = Sends /\ Ends' = Ends /\ Sends
  BY <1>1 DEF DemoInv, SenderWaits, Sends, Ends, ModeOf
<1>3. DemoTypeOK' /\ radio' \in RadiosOf(demo)' /\ command' \in RadiosOf(demo)'
  BY <1>1 DEF DemoInv, DemoTypeOK, RadiosOf, ModeOf
<1>4. SenderWaits'
  BY <1>1, <1>2 DEF DemoInv, SenderWaits
<1>5. LoopGoesOn'
  BY <1>1 DEF LoopGoesOn
<1>6. demo.pa => demo # gen_fsk_stx_dpl_packet
  <2>1. gen_fsk_stx_dpl_packet.pa = FALSE
    BY DEF gen_fsk_stx_dpl_packet, Sender, Receiver
  <2> QED
    BY <2>1
<1>7. Amplifier'
  BY <1>1, <1>2, <1>6 DEF DemoInv, Amplifier, ModeOf
<1>8. OneEnd'
  BY <1>2 DEF OneEnd, Listens
<1> QED
  BY <1>3, <1>4, <1>5, <1>7, <1>8 DEF DemoInv

LEMMA DemoInvStep == DemoInv /\ [DemoNext]_demoVars => DemoInv'
<1> SUFFICES ASSUME DemoInv, [DemoNext]_demoVars
             PROVE  DemoInv'
  OBVIOUS
<1>1. CASE UNCHANGED demoVars
  BY <1>1 DEF DemoInv, DemoTypeOK, SenderWaits, OneEnd, Listens, Woken,
        LoopGoesOn, Amplifier, Restarts, Sends, Ends,
        RadiosOf, ModeOf, demoVars
<1>2. CASE DemoNext
  BY <1>1, <1>2, RadioGoesOnKeeps, IrqReadKeeps, IrqHandleKeeps, LoopFlagKeeps, RoundKeeps,
     SendClearKeeps, RadioStartKeeps, SendDoneKeeps DEF DemoNext, Poll
<1> QED
  BY <1>1, <1>2

LEMMA DemoInvTells == DemoInv => DemoGoesOn /\ PaOffAtRest
<1> SUFFICES ASSUME DemoInv
             PROVE  DemoGoesOn /\ PaOffAtRest
  OBVIOUS
<1>1. demo \in Demo /\ Fields(demo) /\ SendsAs(demo) /\ LoopsAs(demo) /\ AmplifiedAs(demo)
  BY DemoIs DEF DemoInv, DemoTypeOK
<1>2. DemoGoesOn
  <2> SUFFICES ASSUME AtRest
               PROVE  \/ demo \in {tpsll_srx, tpsll_stx2rx} /\ ~crc_ok
                      \/ demo = tpll_ptx /\ ~written
                      \/ demo = tpll_ptx /\ unseen \cap {"TX_DS", "RETRY_HIT"} # {}
                      \/ demo \in TwoOperations /\ Pending # {}
    BY DEF DemoGoesOn
  <2>1. CASE main_pc = "loop" /\ flags \cap DOMAIN demo.on = {} /\ ~demo.rounds
    <3>1. Restarts /\ ~Sends
      BY <2>1 DEF AtRest, DemoInv, LoopGoesOn, SenderWaits
    <3>2. Ends \subseteq DOMAIN demo.raises
      BY <1>1, <2>1, <3>1 DEF LoopsAs, Sends, Ends
    <3>3. Ends \cap rf_irq # {} => Pending # {}
      BY <3>2 DEF Pending
    <3> QED
      BY <2>1, <3>1, <3>3 DEF Restarts, AtRest, Woken
  <2>2. CASE main_pc = "spin" /\ ~SendIsDone
    BY <2>2 DEF AtRest, DemoInv, SenderWaits, SendIsDone
  <2> QED
    BY <2>1, <2>2 DEF AtRest
<1>3. PaOffAtRest
  <2> SUFFICES ASSUME demo.pa, radio = RadioIdle, Pending = {}, crc_ok, unseen = {},
                      ~(command.mode = "SRX2TX" /\ {"RX", "TX"} \subseteq irq_src)
               PROVE  pa = "off"
    BY DEF PaOffAtRest
  <2>1. Ends \cap rf_irq = {}
    BY <1>1 DEF AmplifiedAs, Ends, Pending
  <2> QED
    BY <2>1 DEF DemoInv, Amplifier
<1> QED
  BY <1>2, <1>3

(* The inductive invariant of the demonstrations. *)
THEOREM DemoInvHolds == DemoSpec => []DemoInv
<1>1. DemoInit => DemoInv
  BY DemoInvInit
<1>2. DemoInv /\ [DemoNext]_demoVars => DemoInv'
  BY DemoInvStep
<1> QED
  BY <1>1, <1>2, PTL DEF DemoSpec

(* The variables of the demonstrations are of their types. *)
THEOREM DemoTypeCorrect == DemoSpec => []DemoTypeOK
<1>1. DemoInv => DemoTypeOK
  BY DEF DemoInv
<1> QED
  BY <1>1, DemoInvHolds, PTL

(* Every demonstration of src/vendor goes on, whatever is received and however the radio
   and the handler interleave, but for the four cases that DemoGoesOn names. *)
THEOREM DemosGoOn == DemoSpec => []DemoGoesOn
<1>1. DemoInv => DemoGoesOn
  BY DemoInvTells
<1> QED
  BY <1>1, DemoInvHolds, PTL

(* rf_pa.c leaves the amplifier off when the radio rests, but for the exceptions that
   PaOffAtRest names. *)
THEOREM PaStaysOff == DemoSpec => []PaOffAtRest
<1>1. DemoInv => PaOffAtRest
  BY DemoInvTells
<1> QED
  BY <1>1, DemoInvHolds, PTL
=============================================================================
