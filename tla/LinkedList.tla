----------------------------- MODULE LinkedList -----------------------------
(***************************************************************************)
(* A list of src/common/list.c or src/common/tn_list.c and the calls that  *)
(* its user may make.  tn_list.c lets an item be added that is in the list *)
(* already, and moves it; with list.c that would make a circle, or cut the *)
(* list short, and no user does so.  Nor is an item inserted behind        *)
(* another one while it is in the list, with either.                       *)
(***************************************************************************)
EXTENDS PtrList

VARIABLES
    kind,  \* of the list: "list" or "tn_list"
    list,
    call   \* the last call and what it returned

listVars == <<kind, list, call>>

Called(op, x, prev, ret) ==
    /\ call' = [op |-> op, item |-> x, prev |-> prev, ret |-> ret]
    /\ UNCHANGED kind

Addable(x) == kind = "tn_list" \/ ~In(list, x)

ListInit ==
    /\ kind \in {"list", "tn_list"}
    /\ list = list_init
    /\ call = [op |-> "init", item |-> NULL, prev |-> NULL, ret |-> NULL]

Add(x) ==
    /\ Addable(x)
    /\ list' = IF kind = "list" THEN list_add(list, x) ELSE tn_list_add(list, x)
    /\ Called("add", x, NULL, NULL)

Push(x) ==
    /\ Addable(x)
    /\ list' = IF kind = "list" THEN list_push(list, x) ELSE tn_list_push(list, x)
    /\ Called("push", x, NULL, NULL)

Chop ==
    /\ list' = list_chop(list)
    /\ Called("chop", NULL, NULL, list_tail(list))

(* list_pop returns the new head, tn_list_pop the item removed. *)
Pop ==
    /\ list' = list_pop(list)
    /\ Called("pop", NULL, NULL, IF kind = "list" THEN list'.head ELSE list.head)

RemoveItem(x) ==
    /\ list' = list_remove(list, x)
    /\ Called("remove", x, NULL, NULL)

Insert(prev, x) ==
    /\ IF prev = NULL THEN Addable(x) ELSE In(list, prev) /\ ~In(list, x)
    /\ list' = IF kind = "list" THEN list_insert(list, prev, x)
                                ELSE tn_list_insert(list, prev, x)
    /\ Called("insert", x, prev, NULL)

ListNext ==
    \/ \E x \in ListItem : Add(x) \/ Push(x) \/ RemoveItem(x)
    \/ Chop \/ Pop
    \/ \E prev \in ListItem \cup {NULL}, x \in ListItem : Insert(prev, x)

ListSpec == ListInit /\ [][ListNext]_listVars
-----------------------------------------------------------------------------
ListTypeOK == kind \in {"list", "tn_list"} /\ list \in List

Sequence == INSTANCE SeqList WITH list <- Chain(list)

(* After any sequence of legal calls the items that a loop over the list comes
   by are those of a sequence to which the same calls were made, and the calls
   return what they would there: no call loses or repeats the items behind the
   one that it moves, whatever an item's link still holds from a list it was
   taken out of (list.c:92-259, tn_list.c:38-150). *)
ListIsSequence == Sequence!Spec
=============================================================================
