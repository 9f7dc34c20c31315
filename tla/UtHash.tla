------------------------------- MODULE UtHash -------------------------------
(***************************************************************************)
(* The hash table of src/common/hash.h.  An item has two handles, hh and   *)
(* alt, and may so be in two tables: one that items are added to, and one  *)
(* that HASH_SELECT fills from it.  A table chains its items twice, in the *)
(* order in which they were added, and in the bucket of their hash value.  *)
(*                                                                         *)
(* As the macros expect, an item that is added is not in the table, one    *)
(* that is deleted is, and a table selected into is empty.  The key of an  *)
(* item is the item; an allocation that fails ends the program.  The Bloom *)
(* filter, which is off unless configured, is left out.                    *)
(***************************************************************************)
EXTENDS UtList

CONSTANTS
    HashItem,                  \* the items that are put into tables
    Hashv,                     \* the hash value of an item
    InitialBuckets,            \* HASH_INITIAL_NUM_BUCKETS
    HASH_BKT_CAPACITY_THRESH,
    MaxBuckets                 \* bound: a table grows no more beyond it

ASSUME HashAssumption ==
    /\ HashItem \subseteq ListItem /\ Hashv \in [HashItem -> Nat]
    /\ InitialBuckets \in Nat \ {0} /\ HASH_BKT_CAPACITY_THRESH \in Nat \ {0}

VARIABLES
    table,    \* of each handle: UT_hash_table and the handles of its items
    added,    \* history: the items of each table, in the order that it promises
    misled    \* history: a call has used the tail that HASH_SELECT left behind

hashVars == <<table, added, misled>>

Handle == {"hh", "alt"}

(* The chain of a bucket, from hh_head on by hh_next, with the items in it;
   hh_prev and count say the same once more. *)
NoLinks == [x \in HashItem |-> NULL]
Bucket == [chain |-> << >>, count |-> 0, expand_mult |-> 0]

(* The table of an empty head: HASH_MAKE_TABLE finds it all zero.  app is the
   list in the order added. *)
NoTable == [app |-> [head |-> NULL, next |-> NoLinks, prev |-> NoLinks],
            tail |-> NULL, buckets |-> << >>, num_items |-> 0,
            hh_prev |-> NoLinks, ineff_expands |-> 0, noexpand |-> FALSE]

HASH_MAKE_TABLE(x) ==
    [NoTable EXCEPT !.app.head = x, !.tail = x,
                    !.buckets = [b \in 0 .. InitialBuckets - 1 |-> Bucket]]

num_buckets(t) == Cardinality(DOMAIN t.buckets)

HASH_TO_BKT(hashv, num_bkts) == hashv % num_bkts

(* An item at the head of the chain of bucket b. *)
Chained(t, b, x) ==
    LET c == t.buckets[b].chain
    IN [t EXCEPT !.buckets[b].chain = <<x>> \o c,
                 !.hh_prev = [y \in HashItem |-> CASE y = x -> NULL
                                                   [] y # x /\ c # << >> /\ y = c[1] -> x
                                                   [] OTHER -> @[y]]]

(* Mutant: the bucket is counted as if there were no more of them. *)
OldBucket(hashv, n) == HASH_TO_BKT(hashv, n)

NewBucket(hashv, n) == HASH_TO_BKT(hashv, 2 * n)

(* Every bucket in turn, each from its head, into twice as many buckets. *)
HASH_EXPAND_BUCKETS(t) ==
    LET n == num_buckets(t)
        ideal == t.num_items \div (2 * n) + (IF t.num_items % (2 * n) # 0 THEN 1 ELSE 0)
        all == FoldLeft(LAMBDA s, b : s \o t.buckets[b].chain, << >>, [i \in 1 .. n |-> i - 1])
        moved(s, x) ==
            LET b == NewBucket(Hashv[x], n)
                count == s.t.buckets[b].count + 1
                put == Chained([s.t EXCEPT !.buckets[b].count = count], b, x)
            IN IF count > ideal
               THEN [t |-> [put EXCEPT !.buckets[b].expand_mult = count \div ideal],
                     nonideal_items |-> s.nonideal_items + 1]
               ELSE [s EXCEPT !.t = put]
        s == FoldLeft(moved, [t |-> [t EXCEPT !.buckets = [b \in 0 .. 2 * n - 1 |-> Bucket]],
                              nonideal_items |-> 0], all)
        ineff == IF s.nonideal_items > t.num_items \div 2 THEN t.ineff_expands + 1 ELSE 0
    IN [s.t EXCEPT !.ineff_expands = ineff, !.noexpand = @ \/ ineff > 1]

HASH_ADD_TO_BKT(t, b, x) ==
    LET put == Chained([t EXCEPT !.buckets[b].count = @ + 1], b, x)
    IN IF put.buckets[b].count >= (put.buckets[b].expand_mult + 1) * HASH_BKT_CAPACITY_THRESH
          /\ ~put.noexpand
       THEN HASH_EXPAND_BUCKETS(put) ELSE put

BucketOf(t, x) == HASH_TO_BKT(Hashv[x], num_buckets(t))

HASH_ADD(t, x) ==
    LET made == IF t.app.head = NULL THEN HASH_MAKE_TABLE(x)
                ELSE [t EXCEPT !.app = Back(Link(Link(@, x, NULL), t.tail, x), x, t.tail),
                               !.tail = x]
    IN HASH_ADD_TO_BKT([made EXCEPT !.num_items = @ + 1], BucketOf(made, x), x)

(* Those who point to x in the chain of its bucket point past it. *)
HASH_DEL_IN_BKT(t, b, x) ==
    LET c == t.buckets[b].chain
        after == {i \in DOMAIN c : i > 1 /\ c[i - 1] = x}
    IN [t EXCEPT !.buckets[b].count = @ - 1, !.buckets[b].chain = Remove(c, x),
                 !.hh_prev = [y \in HashItem |-> IF \E i \in after : c[i] = y
                                                 THEN t.hh_prev[x] ELSE @[y]]]

(* The handle of an item that is in no table: all of it is set before it is read. *)
Forgotten(t, x) ==
    [t EXCEPT !.app = Back(Link(@, x, NULL), x, NULL), !.hh_prev[x] = NULL]

HASH_DELETE(t, x) ==
    LET p == t.app.prev[x]
        n == t.app.next[x]
        past == IF p = NULL THEN Headed(t.app, n) ELSE Link(t.app, p, n)
    IN IF p = NULL /\ n = NULL THEN NoTable
       ELSE Forgotten(HASH_DEL_IN_BKT([t EXCEPT !.tail = IF @ = x THEN p ELSE @,
                                                !.app = IF n = NULL THEN past
                                                        ELSE Back(past, n, p),
                                                !.num_items = @ - 1],
                                      BucketOf(t, x), x), x)

(* HASH_SRT: the sort of utlist.h, for this list. *)
HASH_SORT(t) ==
    IF t.app.head = NULL THEN t
    ELSE LET l == SORT(t.app, "HASH") IN [t EXCEPT !.app = l, !.tail = Last(Chain(l))]

(* HASH_SELECT: the items of cond, bucket by bucket.  The tail stays at the
   first of them. *)
Selected(src, cond) ==
    SelectSeq(FoldLeft(LAMBDA s, b : s \o src.buckets[b].chain, << >>,
                       [i \in 1 .. num_buckets(src) |-> i - 1]),
              LAMBDA x : x \in cond)

HASH_SELECT(src, cond) ==
    LET take(s, x) ==
            LET made == IF s.last = NULL THEN HASH_MAKE_TABLE(x)
                        ELSE [s.dst EXCEPT !.app = Back(Link(@, s.last, x), x, s.last)]
                put == HASH_ADD_TO_BKT(made, BucketOf(made, x), x)
            IN [dst |-> [put EXCEPT !.num_items = @ + 1], last |-> x]
    IN FoldLeft(take, [dst |-> NoTable, last |-> NULL], Selected(src, cond)).dst

(* HASH_FIND_IN_BKT and HASH_FIND *)
HASH_FIND(t, x) ==
    /\ t.app.head # NULL
    /\ x \in ToSet(t.buckets[BucketOf(t, x)].chain)

(* HASH_ITER *)
HASH_ITER(t) == Chain(t.app)
-----------------------------------------------------------------------------
HashInit ==
    /\ table = [h \in Handle |-> NoTable]
    /\ added = [h \in Handle |-> << >>]
    /\ misled = [h \in Handle |-> FALSE]

Becomes(h, t, items) ==
    /\ table' = [table EXCEPT ![h] = t]
    /\ added' = [added EXCEPT ![h] = items]

TailIsLast(h) == added[h] = << >> \/ table[h].tail = Last(added[h])

(* A table whose list was spoilt is only searched and cleared. *)
HashAdd(h, x) ==
    /\ ~misled[h] /\ x \notin ToSet(added[h])
    /\ num_buckets(table[h]) < MaxBuckets
    /\ Becomes(h, HASH_ADD(table[h], x), Append(added[h], x))
    /\ misled' = [misled EXCEPT ![h] = ~TailIsLast(h)]

HashDelete(h, x) ==
    /\ ~misled[h] /\ x \in ToSet(added[h])
    /\ Becomes(h, HASH_DELETE(table[h], x), Remove(added[h], x))
    /\ misled' = [misled EXCEPT ![h] = ~TailIsLast(h) /\ table[h].tail = x]

HashSort(h) ==
    /\ ~misled[h]
    /\ Becomes(h, HASH_SORT(table[h]), StablySorted(added[h]))
    /\ UNCHANGED misled

HashSelect(cond) ==
    /\ ~misled["hh"] /\ added["alt"] = << >>
    /\ Becomes("alt", HASH_SELECT(table["hh"], cond), Selected(table["hh"], cond))
    /\ UNCHANGED misled

HASH_CLEAR(h) ==
    /\ Becomes(h, NoTable, << >>)
    /\ misled' = [misled EXCEPT ![h] = FALSE]

HashNext ==
    \/ \E h \in Handle, x \in HashItem : HashAdd(h, x) \/ HashDelete(h, x)
    \/ \E h \in Handle : HashSort(h) \/ HASH_CLEAR(h)
    \/ \E cond \in SUBSET ToSet(added["hh"]) : HashSelect(cond)
-----------------------------------------------------------------------------
HashTypeOK ==
    \A h \in Handle :
        /\ table[h].app.head \in HashItem \cup {NULL}
        /\ table[h].tail \in HashItem \cup {NULL}
        /\ table[h].num_items \in 0 .. Cardinality(HashItem)
        /\ added[h] \in Seq(HashItem) /\ misled[h] \in BOOLEAN

(* HASH_FSCK, of the buckets *)
BucketsRight(t) ==
    /\ \A b \in DOMAIN t.buckets :
         LET c == t.buckets[b].chain
         IN /\ t.buckets[b].count = Len(c)
            /\ \A i \in DOMAIN c : t.hh_prev[c[i]] = IF i = 1 THEN NULL ELSE c[i - 1]
    /\ t.num_items = FoldFunction(LAMBDA b, n : b.count + n, 0, t.buckets)

(* HASH_FSCK, of the list in the order added *)
ListRight(t) ==
    LET c == Chain(t.app)
    IN /\ Len(c) = t.num_items
       /\ \A i \in DOMAIN c : t.app.prev[c[i]] = IF i = 1 THEN NULL ELSE c[i - 1]

(* A table finds the items that are in it and no others, also when its buckets
   have doubled, and what HASH_FSCK checks is so; a loop over it comes by its
   items in the order in which they were added or sorted, unless the table
   comes from HASH_SELECT: that leaves the tail at the first item, an item
   added next takes the place of all the others in the list, and only a sort
   sets it right (hash.h:98-815). *)
HashIsMap ==
    \A h \in Handle :
        LET t == table[h]
        IN /\ BucketsRight(t)
           /\ {x \in HashItem : HASH_FIND(t, x)} = ToSet(added[h])
           /\ ~misled[h] => ListRight(t) /\ HASH_ITER(t) = added[h]
=============================================================================
