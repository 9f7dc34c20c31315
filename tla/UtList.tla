------------------------------- MODULE UtList -------------------------------
(***************************************************************************)
(* The linked lists of src/common/utlist.h: singly linked (LL), doubly     *)
(* linked (DL) and circular ones (CDL), with the macros that work on them. *)
(* A macro is an operator on a list, which is the pointer to its first     *)
(* item and the links of every item, in the list or not.  In a DL the prev *)
(* of the first item leads to the last one.                                *)
(*                                                                         *)
(* As the macros expect, an item is put into a list that it is not in, and *)
(* the item named as the place of a call is in the list.                   *)
(***************************************************************************)
EXTENDS PtrList, SequencesExt

CONSTANT Rank   \* what the comparison functions compare

ASSUME RankAssumption == Rank \in [ListItem -> Int]

VARIABLES
    flavour,  \* of the list: "LL", "DL" or "CDL"
    ut,       \* the list
    order     \* what should be in it: a history of the calls

utVars == <<flavour, ut, order>>

Flavour == {"LL", "DL", "CDL"}

UtList == [head : ListItem \cup {NULL},
           next : [ListItem -> ListItem \cup {NULL}],
           prev : [ListItem -> ListItem \cup {NULL}]]

(* x->prev = y *)
Back(l, x, y) == [l EXCEPT !.prev[x] = y]

(* x and then y: x->next = y, y->prev = x *)
Joined(l, x, y) == Back(Link(l, x, y), y, x)

Headed(l, x) == [l EXCEPT !.head = x]
-----------------------------------------------------------------------------
LL_PREPEND(l, x) == Headed(Link(l, x, l.head), x)

LL_APPEND(l, x) == list_add(l, x)

(* An item that is not in the list is looked for in vain. *)
LL_DELETE(l, x) == IF In(l, x) THEN Relink(l, x, l.next[x]) ELSE l

LL_CONCAT(l, head2) ==
    IF l.head = NULL THEN Headed(l, head2) ELSE Link(l, list_tail(l), head2)

LL_REPLACE_ELEM(l, el, x) == Relink(Link(l, x, l.next[el]), el, x)

LL_PREPEND_ELEM(l, el, x) == Relink(Link(l, x, el), el, x)
-----------------------------------------------------------------------------
DL_PREPEND(l, x) ==
    LET linked == Link(l, x, l.head)
    IN Headed(IF l.head = NULL THEN Back(linked, x, x)
              ELSE Back(Back(linked, x, l.prev[l.head]), l.head, x), x)

DL_APPEND(l, x) ==
    IF l.head = NULL THEN Headed(Link(Back(l, x, x), x, NULL), x)
    ELSE Link(Back(Joined(l, l.prev[l.head], x), l.head, x), x, NULL)

DL_CONCAT(l, head2) ==
    CASE head2 = NULL -> l
      [] head2 # NULL /\ l.head = NULL -> Headed(l, head2)
      [] head2 # NULL /\ l.head # NULL ->
           Back(Joined(l, l.prev[l.head], head2), l.head, l.prev[head2])

DL_DELETE(l, x) ==
    LET n == l.next[x]
    IN CASE l.prev[x] = x -> Headed(l, NULL)
         [] l.prev[x] # x /\ x = l.head -> Headed(Back(l, n, l.prev[x]), n)
         [] l.prev[x] # x /\ x # l.head ->
              Back(Link(l, l.prev[x], n), IF n = NULL THEN l.head ELSE n, l.prev[x])

DL_REPLACE_ELEM(l, el, x) ==
    LET n == l.next[el]
        linked == Link(l, x, n)
    IN IF l.head = el
       THEN Headed(IF n = NULL THEN Back(linked, x, x)
                   ELSE Back(Back(linked, x, l.prev[el]), n, x), x)
       ELSE Back(Joined(linked, l.prev[el], x), IF n = NULL THEN l.head ELSE n, x)

DL_PREPEND_ELEM(l, el, x) ==
    LET placed == Back(Joined(l, x, el), x, l.prev[el])
    IN IF l.head = el THEN Headed(placed, x) ELSE Link(placed, l.prev[el], x)
-----------------------------------------------------------------------------
CDL_PREPEND(l, x) ==
    Headed(IF l.head = NULL THEN Joined(l, x, x)
           ELSE Joined(Joined(l, x, l.head), l.prev[l.head], x), x)

CDL_DELETE(l, x) ==
    IF l.head = x /\ l.next[x] = x THEN Headed(l, NULL)
    ELSE LET cut == Joined(l, l.prev[x], l.next[x])
         IN IF x = l.head THEN Headed(cut, l.next[x]) ELSE cut

CDL_REPLACE_ELEM(l, el, x) ==
    IF l.next[el] = el THEN Headed(Joined(l, x, x), x)
    ELSE LET placed == Joined(Joined(l, x, l.next[el]), l.prev[el], x)
         IN IF l.head = el THEN Headed(placed, x) ELSE placed

CDL_PREPEND_ELEM(l, el, x) ==
    LET placed == Joined(Joined(l, x, el), l.prev[el], x)
    IN IF l.head = el THEN Headed(placed, x) ELSE placed
-----------------------------------------------------------------------------
(***************************************************************************)
(* LL_SORT, DL_SORT, CDL_SORT: a merge sort from the bottom up.  A pass    *)
(* takes the list off its head, old, and merges every two runs of insize   *)
(* items, p and q, behind tail.                                            *)
(***************************************************************************)
NextOf(l, x, fl, old) == IF fl = "CDL" /\ l.next[x] = old THEN NULL ELSE l.next[x]

(* Up to n items from x on. *)
RECURSIVE RunFrom(_, _, _, _, _)
RunFrom(l, x, n, fl, old) ==
    IF x = NULL \/ n = 0 THEN << >>
    ELSE <<x>> \o RunFrom(l, NextOf(l, x, fl, old), n - 1, fl, old)

GoesFirst(p, q) == Rank[p] =< Rank[q]

RECURSIVE Merge(_, _, _)
Merge(s, fl, old) ==
    IF s.psize = 0 /\ (s.qsize = 0 \/ s.q = NULL) THEN s
    ELSE LET fromP == s.psize > 0
                      /\ (s.qsize = 0 \/ s.q = NULL \/ GoesFirst(s.p, s.q))
             e == IF fromP THEN s.p ELSE s.q
             after == NextOf(s.l, e, fl, old)
             put == IF s.tail = NULL THEN Headed(s.l, e) ELSE Link(s.l, s.tail, e)
             t == [s EXCEPT !.l = IF fl = "LL" THEN put ELSE Back(put, e, s.tail),
                            !.tail = e]
         IN Merge(IF fromP THEN [t EXCEPT !.p = after, !.psize = @ - 1]
                  ELSE [t EXCEPT !.q = after, !.qsize = @ - 1], fl, old)

RECURSIVE MergeRuns(_, _, _, _)
MergeRuns(s, insize, fl, old) ==
    IF s.p = NULL THEN s
    ELSE LET run == RunFrom(s.l, s.p, insize, fl, old)
             t == Merge([s EXCEPT !.nmerges = @ + 1, !.psize = Len(run), !.qsize = insize,
                                  !.q = NextOf(s.l, Last(run), fl, old)], fl, old)
         IN MergeRuns([t EXCEPT !.p = t.q], insize, fl, old)

(* How a pass ends; "HASH" is the list of hash.h, see UtHash. *)
Closed(l, tail, fl) ==
    CASE fl \in {"LL", "HASH"} -> Link(l, tail, NULL)
      [] fl = "DL"  -> Link(Back(l, l.head, tail), tail, NULL)
      [] fl = "CDL" -> Link(Back(l, l.head, tail), tail, l.head)

RECURSIVE Passes(_, _, _)
Passes(l, insize, fl) ==
    LET s == MergeRuns([l |-> Headed(l, NULL), p |-> l.head, q |-> NULL, psize |-> 0,
                        qsize |-> 0, tail |-> NULL, nmerges |-> 0], insize, fl, l.head)
        passed == Closed(s.l, s.tail, fl)
    IN IF s.nmerges =< 1 THEN passed ELSE Passes(passed, 2 * insize, fl)

SORT(l, fl) == IF l.head = NULL THEN l ELSE Passes(l, 1, fl)
-----------------------------------------------------------------------------
(* The macro of this list. *)
Of(ll, dl, cdl) ==
    CASE flavour = "LL" -> ll [] flavour = "DL" -> dl [] flavour = "CDL" -> cdl

DELETE(l, x) == Of(LL_DELETE(l, x), DL_DELETE(l, x), CDL_DELETE(l, x))

(* The items that FOREACH comes by. *)
FOREACH(l) ==
    IF flavour = "CDL" THEN RunFrom(l, l.head, Cardinality(ListItem) + 1, "CDL", l.head)
    ELSE Chain(l)

(* FOREACH_SAFE, with a body that deletes the items of gone; last is tmp1 of the
   circular one, the last item before the loop began. *)
RECURSIVE FOREACH_SAFE(_, _, _, _)
FOREACH_SAFE(l, el, last, gone) ==
    IF el = NULL THEN l
    ELSE FOREACH_SAFE(IF el \in gone THEN DELETE(l, el) ELSE l,
                      IF flavour = "CDL" /\ el = last THEN NULL ELSE l.next[el],
                      last, gone)

(* SEARCH_SCALAR: the first item with the value. *)
SEARCH(l, val) ==
    LET found == SelectSeq(FOREACH(l), LAMBDA x : Rank[x] = val)
    IN IF found = << >> THEN NULL ELSE Head(found)
-----------------------------------------------------------------------------
Outside == ListItem \ ToSet(order)

UtInit ==
    /\ flavour \in Flavour
    /\ ut = [head |-> NULL, next |-> [x \in ListItem |-> NULL],
             prev |-> [x \in ListItem |-> NULL]]
    /\ order = << >>

Makes(l, o) == ut' = l /\ order' = o /\ UNCHANGED flavour

Prepend(x) ==
    Makes(Of(LL_PREPEND(ut, x), DL_PREPEND(ut, x), CDL_PREPEND(ut, x)), <<x>> \o order)

AppendItem(x) ==
    /\ flavour # "CDL"
    /\ Makes(Of(LL_APPEND(ut, x), DL_APPEND(ut, x), ut), Append(order, x))

Delete(x) == Makes(DELETE(ut, x), Remove(order, x))

(* LL_DELETE of an item that is in no list. *)
DeleteAbsent(x) == flavour = "LL" /\ order # << >> /\ Makes(LL_DELETE(ut, x), order)

(* A second list, of the items of second, is made and put behind. *)
Concat(second) ==
    /\ flavour # "CDL"
    /\ LET add(l, x) == Of(LL_APPEND(l, x), DL_APPEND(l, x), l)
           made == FoldLeft(add, Headed(ut, NULL), second)
           both == Headed(made, ut.head)
       IN Makes(Of(LL_CONCAT(both, made.head), DL_CONCAT(both, made.head), ut),
                order \o second)

Replace(el, x) ==
    Makes(Of(LL_REPLACE_ELEM(ut, el, x), DL_REPLACE_ELEM(ut, el, x),
             CDL_REPLACE_ELEM(ut, el, x)),
          ReplaceAll(order, el, x))

PrependElem(el, x) ==
    Makes(Of(LL_PREPEND_ELEM(ut, el, x), DL_PREPEND_ELEM(ut, el, x),
             CDL_PREPEND_ELEM(ut, el, x)),
          LET i == CHOOSE i \in DOMAIN order : order[i] = el IN InsertAt(order, i, x))

(* Sorted, and equal items as they were. *)
StablySorted(o) ==
    LET before(i, j) == Rank[o[i]] < Rank[o[j]] \/ (Rank[o[i]] = Rank[o[j]] /\ i < j)
        by == SetToSortSeq(DOMAIN o, before)
    IN [i \in DOMAIN o |-> o[by[i]]]

Sort == Makes(SORT(ut, flavour), StablySorted(order))

Purge(gone) ==
    Makes(FOREACH_SAFE(ut, ut.head, IF ut.head = NULL THEN NULL ELSE ut.prev[ut.head], gone),
          SelectSeq(order, LAMBDA x : x \notin gone))

UtNext ==
    \/ \E x \in Outside : Prepend(x) \/ AppendItem(x) \/ DeleteAbsent(x)
    \/ \E x \in ToSet(order) : Delete(x)
    \/ \E some \in SUBSET Outside : \E second \in SetToSeqs(some) : Concat(second)
    \/ \E el \in ToSet(order), x \in Outside : Replace(el, x) \/ PrependElem(el, x)
    \/ Sort
    \/ \E gone \in SUBSET ToSet(order) : Purge(gone)
-----------------------------------------------------------------------------
UtTypeOK == flavour \in Flavour /\ ut \in UtList

(* The links back lead to the item before, and from the first to the last;
   a circle is closed. *)
BackLinks ==
    LET n == Len(order)
    IN \A i \in 1 .. n :
         /\ ut.prev[order[i]] = order[IF i = 1 THEN n ELSE i - 1]
         /\ flavour = "CDL" => ut.next[order[i]] = order[IF i = n THEN 1 ELSE i + 1]

(* A loop over a list comes by the items that the calls so far should have put
   there, in that order, forwards and backwards, and a search finds the first
   of those that match: in each flavour, in whatever order calls are made, with
   items whose links are left over from another place, when items are deleted
   in a loop over the list, and when it is sorted, where equal items must keep
   their order (utlist.h:96-740). *)
UtListIsOrder ==
    /\ FOREACH(ut) = order
    /\ flavour # "LL" => BackLinks
    /\ \A x \in ToSet(order) :
         SEARCH(ut, Rank[x]) = SelectSeq(order, LAMBDA y : Rank[y] = Rank[x])[1]
=============================================================================
