------------------------------- MODULE PtrList -------------------------------
(***************************************************************************)
(* The linked lists of src/common/list.c and src/common/tn_list.c as       *)
(* operators.  A list is the pointer to its first item and the next field  *)
(* of every item, in a list or not.                                        *)
(***************************************************************************)
EXTENDS Integers, Sequences, FiniteSets

CONSTANTS
    ListItem,
    NULL

ASSUME NullAssumption == NULL \notin ListItem /\ IsFiniteSet(ListItem)

List == [head : ListItem \cup {NULL}, next : [ListItem -> ListItem \cup {NULL}]]

list_init == [head |-> NULL, next |-> [x \in ListItem |-> NULL]]

(* The items that a loop over the list comes by, in turn; one that goes round in
   a circle is cut off after one item too many. *)
Chain(l) ==
    LET walk[n \in 1 .. Cardinality(ListItem) + 1] ==
            [x \in ListItem |->
                IF n = 1 \/ l.next[x] = NULL THEN <<x>> ELSE <<x>> \o walk[n - 1][l.next[x]]]
    IN IF l.head = NULL THEN << >> ELSE walk[Cardinality(ListItem) + 1][l.head]

Link(l, x, y) == [l EXCEPT !.next[x] = y]

list_tail(l) == LET c == Chain(l) IN IF c = << >> THEN NULL ELSE c[Len(c)]

(* The item before x in the list, NULL if x is the first. *)
Before(l, x) ==
    LET c == Chain(l)
        k == CHOOSE k \in DOMAIN c : c[k] = x
    IN IF k = 1 THEN NULL ELSE c[k - 1]

(* y takes x's place in the link that leads to x. *)
Relink(l, x, y) ==
    IF Before(l, x) = NULL THEN [l EXCEPT !.head = y] ELSE Link(l, Before(l, x), y)

In(l, x) == LET c == Chain(l) IN \E k \in DOMAIN c : c[k] = x
-----------------------------------------------------------------------------
list_add(l, x) ==
    LET ended == Link(l, x, NULL)
        t == list_tail(ended)
    IN IF t = NULL THEN [ended EXCEPT !.head = x] ELSE Link(ended, t, x)

list_push(l, x) == [Link(l, x, l.head) EXCEPT !.head = x]

list_chop(l) == IF l.head = NULL THEN l ELSE Relink(l, list_tail(l), NULL)

list_pop(l) == IF l.head = NULL THEN l ELSE [l EXCEPT !.head = l.next[l.head]]

list_remove(l, x) ==
    IF In(l, x) THEN Link(Relink(l, x, l.next[x]), x, NULL) ELSE l

list_insert(l, prev, x) ==
    IF prev = NULL THEN list_push(l, x) ELSE Link(Link(l, x, l.next[prev]), prev, x)

(* Mutant: tn_list_add forgets that the item may be in the list. *)
AddTwice(l, x) == list_add(l, x)

(* tn_list.c takes an item out of the list before it adds it. *)
tn_list_add(l, x) == list_add(list_remove(l, x), x)

tn_list_push(l, x) == list_push(list_remove(l, x), x)

tn_list_insert(l, prev, x) ==
    IF prev = NULL THEN tn_list_push(l, x) ELSE Link(Link(l, x, l.next[prev]), prev, x)
=============================================================================
