---------------------------- MODULE ManagedMemory ----------------------------
(***************************************************************************)
(* The allocator of src/common/mmem.c, which has no holes: as a block is   *)
(* freed, those above it are moved down.  The owner of a block writes      *)
(* through the pointer in its struct mmem.                                 *)
(***************************************************************************)
EXTENDS PtrList

CONSTANT MMEM_SIZE

VARIABLES
    mmemlist, avail_memory, memory,
    ptr, bytes,  \* of a struct mmem: ptr, an index into memory, and size
    contents     \* what a block in use was handed out with and its owner wrote

mmemVars == <<mmemlist, avail_memory, memory, ptr, bytes, contents>>

ASSUME MmemAssumption == MMEM_SIZE \in Nat

Address == 0 .. MMEM_SIZE - 1

(* mmem_init; the array is zero as the program starts. *)
MmemInit ==
    /\ mmemlist = list_init
    /\ avail_memory = MMEM_SIZE
    /\ memory = [p \in Address |-> 0]
    /\ ptr = [m \in ListItem |-> 0] /\ bytes = [m \in ListItem |-> 0]
    /\ contents = [m \in ListItem |-> << >>]

(* The n bytes from s, as a sequence. *)
BytesAt(s, n) == [k \in 1 .. n |-> memory[s + k - 1]]

(* Only a block that is not in the list is allocated, and one that is is freed.
   An allocation that fails changes nothing. *)
mmem_alloc(m, n) ==
    /\ ~In(mmemlist, m)
    /\ avail_memory >= n
    /\ mmemlist' = list_add(mmemlist, m)
    /\ ptr' = [ptr EXCEPT ![m] = MMEM_SIZE - avail_memory]
    /\ bytes' = [bytes EXCEPT ![m] = n]
    /\ avail_memory' = avail_memory - n
    /\ contents' = [contents EXCEPT ![m] = BytesAt(MMEM_SIZE - avail_memory, n)]
    /\ UNCHANGED memory

(* string.c's memmove copies upwards, as it may where the bytes go down. *)
MovedDown(to, from, n) ==
    [p \in Address |->
        IF p \in to .. to + n - 1 THEN memory[from + p - to] ELSE memory[p]]

BlocksAbove(m) ==
    LET c == Chain(mmemlist) IN
    {c[k] : k \in {k \in DOMAIN c : \E j \in 1 .. k - 1 : c[j] = m}}

(* Mutant: only the pointer of the next block is updated. *)
CompactNext(m) ==
    LET next == mmemlist.next[m] IN
    IF next = NULL THEN UNCHANGED <<memory, ptr>>
    ELSE /\ memory' = MovedDown(ptr[m], ptr[next], MMEM_SIZE - avail_memory - ptr[next])
         /\ ptr' = [ptr EXCEPT ![next] = @ - bytes[m]]

Compact(m) ==
    LET next == mmemlist.next[m] IN
    IF next = NULL THEN UNCHANGED <<memory, ptr>>
    ELSE /\ memory' = MovedDown(ptr[m], ptr[next], MMEM_SIZE - avail_memory - ptr[next])
         /\ ptr' = [b \in ListItem |-> IF b \in BlocksAbove(m)
                                       THEN ptr[b] - bytes[m] ELSE ptr[b]]

mmem_free(m) ==
    /\ In(mmemlist, m)
    /\ Compact(m)
    /\ avail_memory' = avail_memory + bytes[m]
    /\ mmemlist' = list_remove(mmemlist, m)
    /\ contents' = [contents EXCEPT ![m] = << >>]
    /\ UNCHANGED bytes

(* The owner writes a byte of its block. *)
Write(m, k, byte) ==
    /\ In(mmemlist, m) /\ k \in 1 .. bytes[m]
    /\ memory' = [memory EXCEPT ![ptr[m] + k - 1] = byte]
    /\ contents' = [contents EXCEPT ![m][k] = byte]
    /\ UNCHANGED <<mmemlist, avail_memory, ptr, bytes>>

MmemNext ==
    \E m \in ListItem :
        \/ \E n \in 0 .. MMEM_SIZE : mmem_alloc(m, n)
        \/ mmem_free(m)
        \/ \E k \in 1 .. MMEM_SIZE, byte \in 0 .. 1 : Write(m, k, byte)

MmemSpec == MmemInit /\ [][MmemNext]_mmemVars
-----------------------------------------------------------------------------
MmemTypeOK ==
    /\ mmemlist \in List
    /\ avail_memory \in 0 .. MMEM_SIZE
    /\ memory \in [Address -> 0 .. 1]
    /\ ptr \in [ListItem -> 0 .. MMEM_SIZE] /\ bytes \in [ListItem -> 0 .. MMEM_SIZE]

(* Whatever blocks are allocated, freed and moved, a block in use holds what its
   owner wrote, though the owner's bytes were copied and its pointer changed by
   others' calls; and there are no holes: the blocks in use lie behind one another
   in the order of the list, and all that is behind them is available
   (mmem.c:40-99). *)
BlocksKept ==
    LET c == Chain(mmemlist)
        end(k) == IF k = 0 THEN 0 ELSE ptr[c[k]] + bytes[c[k]]
    IN
    /\ \A m \in ListItem : In(mmemlist, m) => BytesAt(ptr[m], bytes[m]) = contents[m]
    /\ \A k \in DOMAIN c : ptr[c[k]] = end(k - 1)
    /\ MMEM_SIZE - avail_memory = end(Len(c))
=============================================================================
