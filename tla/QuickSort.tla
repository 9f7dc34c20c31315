------------------------------ MODULE QuickSort ------------------------------
(***************************************************************************)
(* qsort of src/common/qsort.c, one turn of its loop at a time: it takes a *)
(* part of the array from its stack, splits it at a pivot, and sorts each  *)
(* side by insertion if it is short and puts it on the stack otherwise.    *)
(*                                                                         *)
(* Items are what compare sees of them; their size is a power of two, as   *)
(* the computation of the pivot needs, and the array is not empty.         *)
(***************************************************************************)
EXTENDS Integers, Sequences, FiniteSets

CONSTANTS
    Key,        \* what items are compared by
    MaxLength,  \* of the array
    threshold   \* in items; 4 unless INSERTION_SORT_THRESHOLD_SHIFT is given

VARIABLES
    array,
    stack,  \* of the parts of the array, both ends inclusive
    given   \* the array that qsort was called with

sortVars == <<array, stack, given>>

ASSUME SortAssumption ==
    Key \subseteq Int /\ MaxLength \in Nat \ {0} /\ threshold \in Nat \ {0}

SortInit ==
    /\ \E n \in 1 .. MaxLength : array \in [1 .. n -> Key]
    /\ stack = <<[left |-> 1, right |-> Len(array)]>>
    /\ given = array

Swap(a, i, j) == [a EXCEPT ![i] = a[j], ![j] = a[i]]

(* The items less than the pivot go to the left, the pivot next to them, at
   store. *)
Partition(a, left, right) ==
    LET pivoted == Swap(a, left + (right - left) \div 2, right)
        seen[i \in left .. right] ==
            IF i = left THEN [a |-> pivoted, store |-> left]
            ELSE LET s == seen[i - 1] IN
                 IF s.a[right] > s.a[i - 1]
                 THEN [a |-> Swap(s.a, i - 1, s.store), store |-> s.store + 1]
                 ELSE s
        s == seen[right]
    IN [s EXCEPT !.a = Swap(@, right, s.store)]

(* INSERTION_SORT_LOOP: item i goes left of the greater ones next to it. *)
Inserted(a, left, i) ==
    LET to == CHOOSE j \in left .. i :
                 /\ \A k \in j .. i - 1 : a[k] > a[i]
                 /\ j > left => a[j - 1] <= a[i]
    IN [k \in DOMAIN a |-> IF k = to THEN a[i]
                           ELSE IF k \in to + 1 .. i THEN a[k - 1] ELSE a[k]]

InsertionSort(a, left, right) ==
    LET sorted[i \in left .. right + 1] ==
            IF i <= left + 1 THEN a ELSE Inserted(sorted[i - 1], left, i - 1)
    IN IF left < right THEN sorted[right + 1] ELSE a

Short(part) == part.right - part.left + 1 <= threshold

SortShort(a, part) == IF Short(part) THEN InsertionSort(a, part.left, part.right) ELSE a

PushLong(s, part) == IF Short(part) THEN s ELSE Append(s, part)

(* Mutant: the right side is always put on the stack last. *)
PushRightLast(s, l, r) == PushLong(PushLong(s, l), r)

(* The smaller side is put on the stack last. *)
PushSides(s, l, r) ==
    IF l.right - l.left + 1 < r.right - r.left + 1
    THEN PushLong(PushLong(s, r), l)
    ELSE PushLong(PushLong(s, l), r)

SortPart ==
    LET top == stack[Len(stack)]
        p == Partition(array, top.left, top.right)
        l == [left |-> top.left, right |-> p.store - 1]
        r == [left |-> p.store + 1, right |-> top.right]
    IN
    /\ stack # << >>
    /\ array' = SortShort(SortShort(p.a, l), r)
    /\ stack' = PushSides(SubSeq(stack, 1, Len(stack) - 1), l, r)
    /\ UNCHANGED given

(* qsort has returned. *)
Sorted == stack = << >> /\ UNCHANGED sortVars

SortNext == SortPart \/ Sorted

SortSpec == SortInit /\ [][SortNext]_sortVars
-----------------------------------------------------------------------------
SortTypeOK ==
    /\ array \in [1 .. Len(given) -> Key]
    /\ \A k \in 1 .. Len(stack) : stack[k].left \in 1 .. stack[k].right

(* qsort keeps the items, and when it is done they are in order.  It puts the
   smaller side last on its stack, so that what is on top halves with every
   further part below it: the stack of 32 is enough (qsort.c:90-92). *)
SortsWell ==
    /\ \A x \in Key : Cardinality({i \in DOMAIN array : array[i] = x})
                      = Cardinality({i \in DOMAIN given : given[i] = x})
    /\ stack = << >> => \A i \in 2 .. Len(array) : array[i - 1] <= array[i]
    /\ stack # << >> =>
         LET top == stack[Len(stack)] IN
         (top.right - top.left + 1) * 2^(Len(stack) - 1) <= Len(array)
=============================================================================
