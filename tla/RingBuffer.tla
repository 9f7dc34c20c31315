----------------------------- MODULE RingBuffer -----------------------------
(***************************************************************************)
(* The ring buffer of src/common/ringbuffer.h: one thread inserts and one  *)
(* removes, the main program and an interrupt handler or the reverse.      *)
(* Only the count is accessed with the interrupts disabled; the pointers   *)
(* and the bytes are not, and every step of one thread may come between    *)
(* two steps of the other.                                                 *)
(*                                                                         *)
(* A thread first asks how many bytes it may insert or remove, as the      *)
(* comments say, and then does so as often, or less.                       *)
(***************************************************************************)
EXTENDS Integers, Sequences

CONSTANTS
    Byte,
    size  \* of the buffer

VARIABLES
    mem, in, out, sount, \* the ringbuffer_t; pointers are indices
    room,      \* how many bytes may be inserted yet
    inserting, \* where ringbuffer_insert is
    left,      \* how many bytes may be removed yet
    removing,  \* where ringbuffer_remove is
    Data       \* the byte that it read

ringVars == <<mem, in, out, sount, room, inserting, left, removing, Data>>

ASSUME SizeAssumption == size \in Nat \ {0} /\ Byte # {}

Place == 0 .. size - 1

(* A pointer that reaches buffer->end goes back to buffer->start. *)
After(p) == IF p + 1 = size THEN 0 ELSE p + 1

(* ringbuffer_init; the array may hold anything. *)
RingInit ==
    /\ mem \in [Place -> Byte]
    /\ in = 0 /\ out = 0 /\ sount = 0
    /\ room = 0 /\ inserting = "no"
    /\ left = 0 /\ removing = "no"
    /\ Data \in Byte
-----------------------------------------------------------------------------
(* ringbuffer_get_free_count, or ringbuffer_is_full for one byte. *)
ringbuffer_get_free_count ==
    /\ inserting = "no"
    /\ room' \in 0 .. size - sount
    /\ UNCHANGED <<mem, in, out, sount, inserting, left, removing, Data>>

(* Mutant: nobody asks whether the buffer is full. *)
InsertUnasked(b) ==
    /\ inserting = "no"
    /\ mem' = [mem EXCEPT ![in] = b]
    /\ room' = IF room > 0 THEN room - 1 ELSE 0
    /\ inserting' = "stored"
    /\ UNCHANGED <<in, out, sount, left, removing, Data>>

InsertStore(b) ==
    /\ inserting = "no" /\ room > 0
    /\ mem' = [mem EXCEPT ![in] = b]
    /\ room' = room - 1
    /\ inserting' = "stored"
    /\ UNCHANGED <<in, out, sount, left, removing, Data>>

InsertAdvance ==
    /\ inserting = "stored"
    /\ in' = After(in)
    /\ inserting' = "advanced"
    /\ UNCHANGED <<mem, out, sount, room, left, removing, Data>>

InsertCount ==
    /\ inserting = "advanced"
    /\ sount' = sount + 1
    /\ inserting' = "no"
    /\ UNCHANGED <<mem, in, out, room, left, removing, Data>>

(* ringbuffer_get_count, or ringbuffer_is_empty for one byte. *)
ringbuffer_get_count ==
    /\ removing = "no"
    /\ left' \in 0 .. sount
    /\ UNCHANGED <<mem, in, out, sount, room, inserting, removing, Data>>

RemoveRead ==
    /\ removing = "no" /\ left > 0
    /\ Data' = mem[out]
    /\ left' = left - 1
    /\ removing' = "read"
    /\ UNCHANGED <<mem, in, out, sount, room, inserting>>

RemoveAdvance ==
    /\ removing = "read"
    /\ out' = After(out)
    /\ removing' = "advanced"
    /\ UNCHANGED <<mem, in, sount, room, inserting, left, Data>>

RemoveCount ==
    /\ removing = "advanced"
    /\ sount' = sount - 1
    /\ removing' = "no"
    /\ UNCHANGED <<mem, in, out, room, inserting, left, Data>>

RingNext ==
    \/ ringbuffer_get_free_count
    \/ \E b \in Byte : InsertStore(b)
    \/ InsertAdvance \/ InsertCount
    \/ ringbuffer_get_count
    \/ RemoveRead \/ RemoveAdvance \/ RemoveCount

RingSpec == RingInit /\ [][RingNext]_ringVars
-----------------------------------------------------------------------------
RingTypeOK ==
    /\ mem \in [Place -> Byte]
    /\ in \in Place /\ out \in Place
    /\ sount \in 0 .. size
    /\ room \in 0 .. size /\ left \in 0 .. size
    /\ inserting \in {"no", "stored", "advanced"}
    /\ removing \in {"no", "read", "advanced"}
    /\ Data \in Byte

(* The bytes stored, without the one that is just being removed. *)
First == IF removing = "read" THEN After(out) ELSE out

Number == IF removing = "no" THEN sount ELSE sount - 1

PlaceOf(p, i) == IF p + i < size THEN p + i ELSE p + i - size

Stored == [i \in 1 .. Number |-> mem[PlaceOf(First, i - 1)]]

Ring == INSTANCE Fifo WITH
    Item <- Byte, Capacity <- size, queue <- Stored, taken <- Data

(* However the two threads interleave, without a lock around the pointers, the
   bytes come out in the order in which they went in, each once, and none is
   overwritten before it is read (ringbuffer.h:134-190). *)
RingIsFifo == Ring!Spec
=============================================================================
