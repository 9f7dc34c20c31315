------------------------------- MODULE SeqList -------------------------------
(***************************************************************************)
(* What a linked list promises: a sequence of items without repetition.    *)
(***************************************************************************)
EXTENDS Integers, SequencesExt

CONSTANTS
    ListItem,
    NULL

VARIABLES
    list,
    call  \* the last call and what it returned

IsCall(op, x, prev, ret) ==
    call' = [op |-> op, item |-> x, prev |-> prev, ret |-> ret]

Without(x) ==
    IF x \in Range(list) THEN RemoveAt(list, CHOOSE i \in DOMAIN list : list[i] = x) ELSE list

First(s) == IF s = << >> THEN NULL ELSE Head(s)

Add(x) ==
    /\ IsCall("add", x, NULL, NULL)
    /\ list' = Append(Without(x), x)

Push(x) ==
    /\ IsCall("push", x, NULL, NULL)
    /\ list' = <<x>> \o Without(x)

Chop ==
    /\ IsCall("chop", NULL, NULL, IF list = << >> THEN NULL ELSE list[Len(list)])
    /\ list' = IF list = << >> THEN list ELSE SubSeq(list, 1, Len(list) - 1)

(* One of the two pops returns the item removed, the other the new first one. *)
Pop ==
    /\ list' = IF list = << >> THEN list ELSE Tail(list)
    /\ \E ret \in {First(list), First(list')} : IsCall("pop", NULL, NULL, ret)

RemoveItem(x) ==
    /\ IsCall("remove", x, NULL, NULL)
    /\ list' = Without(x)

Insert(prev, x) ==
    /\ IsCall("insert", x, prev, NULL)
    /\ IF prev = NULL THEN list' = <<x>> \o Without(x)
       ELSE \E i \in DOMAIN list : list[i] = prev /\ list' = InsertAt(list, i + 1, x)

Init == list = << >> /\ call = [op |-> "init", item |-> NULL, prev |-> NULL, ret |-> NULL]

Next ==
    \/ \E x \in ListItem : Add(x) \/ Push(x) \/ RemoveItem(x)
    \/ Chop \/ Pop
    \/ \E prev \in ListItem \cup {NULL}, x \in ListItem : Insert(prev, x)

Spec == Init /\ [][Next]_<<list, call>>
=============================================================================
