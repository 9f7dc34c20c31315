--------------------------- MODULE KeyboardProofs ---------------------------
(***************************************************************************)
(* No key is left down, neither by the scan of a key matrix nor by the     *)
(* reports to the host, for every matrix, for every size of the two        *)
(* buffers from two on, and however long a contact is remembered, if it is *)
(* for three passes at least.                                              *)
(***************************************************************************)
EXTENDS Keyboard, SequenceTheorems, TLAPS

(***************************************************************************)
(* Both buffers have N places and pointers that run through 2 * N values.  *)
(***************************************************************************)
(* How many entries lie between the pointers, and the place of the i-th. *)
Used(w, r, N) == (w + 2 * N - r) % (2 * N)
Ahead(p, N) == (p + 1) % (2 * N)
PlaceOf(r, i, N) == (r + i - 1) % N

LEMMA UsedIs ==
    ASSUME NEW N \in Nat \ {0}, NEW w \in 0 .. 2 * N - 1, NEW r \in 0 .. 2 * N - 1
    PROVE  /\ Used(w, r, N) = IF w >= r THEN w - r ELSE w + 2 * N - r
           /\ Ahead(w, N) = IF w + 1 = 2 * N THEN 0 ELSE w + 1
           /\ Used(w, r, N) \in 0 .. 2 * N - 1 /\ Ahead(w, N) \in 0 .. 2 * N - 1
<1>1. (w + 2 * N - r) % (2 * N)
        = IF w + 2 * N - r < 2 * N THEN w + 2 * N - r ELSE w + 2 * N - r - 2 * N
  OBVIOUS
<1>2. (w + 1) % (2 * N) = IF w + 1 < 2 * N THEN w + 1 ELSE w + 1 - 2 * N
  OBVIOUS
<1> QED
  BY <1>1, <1>2 DEF Used, Ahead

(* An entry is put behind the last, unless there is no more room ... *)
LEMMA PutBehind ==
    ASSUME NEW N \in Nat \ {0, 1}, NEW w \in 0 .. 2 * N - 1, NEW r \in 0 .. 2 * N - 1,
           Used(w, r, N) <= N
    PROVE  /\ Used(Ahead(w, N), r, N) = Used(w, r, N) + 1
           /\ w % N = PlaceOf(r, Used(w, r, N) + 1, N)
           /\ Ahead(w, N) # r
           /\ Used(w, r, N) = N => (Ahead(w, N) + 2 * N - N) % (2 * N) = Ahead(r, N)
<1>1. Used(w, r, N) = IF w >= r THEN w - r ELSE w + 2 * N - r
  BY UsedIs
<1>2. Ahead(w, N) = IF w + 1 = 2 * N THEN 0 ELSE w + 1
  BY UsedIs
<1>3. Used(Ahead(w, N), r, N)
        = IF Ahead(w, N) >= r THEN Ahead(w, N) - r ELSE Ahead(w, N) + 2 * N - r
  BY UsedIs
<1>4. w % N = IF w < N THEN w ELSE w - N
  OBVIOUS
<1>5. LET x == r + Used(w, r, N)
      IN x % N = IF x < N THEN x ELSE IF x < 2 * N THEN x - N ELSE x - 2 * N
  BY <1>1
<1>6. Ahead(r, N) = IF r + 1 = 2 * N THEN 0 ELSE r + 1
  BY UsedIs
<1>7. (Ahead(w, N) + 2 * N - N) % (2 * N)
        = IF Ahead(w, N) + N < 2 * N THEN Ahead(w, N) + N ELSE Ahead(w, N) - N
  BY <1>2
<1> QED
  BY <1>1, <1>2, <1>3, <1>4, <1>5, <1>6, <1>7 DEF PlaceOf

(* ... and the first one is taken out. *)
LEMMA TakeFirst ==
    ASSUME NEW N \in Nat \ {0, 1}, NEW w \in 0 .. 2 * N - 1, NEW r \in 0 .. 2 * N - 1,
           w # r
    PROVE  /\ Used(w, r, N) >= 1
           /\ Used(w, Ahead(r, N), N) = Used(w, r, N) - 1
<1>1. Used(w, r, N) = IF w >= r THEN w - r ELSE w + 2 * N - r
  BY UsedIs
<1>2. Ahead(r, N) = IF r + 1 = 2 * N THEN 0 ELSE r + 1
  BY UsedIs
<1>3. Used(w, Ahead(r, N), N)
        = IF w >= Ahead(r, N) THEN w - Ahead(r, N) ELSE w + 2 * N - Ahead(r, N)
  BY UsedIs
<1> QED
  BY <1>1, <1>2, <1>3

LEMMA Places ==
    ASSUME NEW N \in Nat \ {0, 1}, NEW r \in 0 .. 2 * N - 1, NEW i \in 1 .. N
    PROVE  /\ PlaceOf(r, i, N) \in 0 .. N - 1
           /\ PlaceOf(Ahead(r, N), i, N) = PlaceOf(r, i + 1, N)
           /\ \A j \in 1 .. N : PlaceOf(r, i, N) = PlaceOf(r, j, N) => i = j
<1>1. ASSUME NEW j \in 1 .. N + 1
      PROVE  LET x == r + j - 1
             IN PlaceOf(r, j, N) = IF x < N THEN x ELSE IF x < 2 * N THEN x - N ELSE x - 2 * N
  BY DEF PlaceOf
<1>2. Ahead(r, N) = IF r + 1 = 2 * N THEN 0 ELSE r + 1
  BY UsedIs
<1>3. LET x == Ahead(r, N) + i - 1
      IN PlaceOf(Ahead(r, N), i, N)
           = IF x < N THEN x ELSE IF x < 2 * N THEN x - N ELSE x - 2 * N
  BY <1>2 DEF PlaceOf
<1> QED
  BY <1>1, <1>2, <1>3
(* Where the newest entry is when one more is written, and the oldest given up
   if there is no room ... *)
WrittenFrom(w, r, N) ==
    IF Used(Ahead(w, N), r, N) > N THEN (Ahead(w, N) + 2 * N - N) % (2 * N) ELSE r

LEMMA Written ==
    ASSUME NEW N \in Nat \ {0, 1}, NEW w \in 0 .. 2 * N - 1, NEW r \in 0 .. 2 * N - 1,
           Used(w, r, N) <= N
    PROVE  /\ Ahead(w, N) \in 0 .. 2 * N - 1 /\ WrittenFrom(w, r, N) \in 0 .. 2 * N - 1
           /\ Ahead(w, N) # WrittenFrom(w, r, N)
           /\ Used(Ahead(w, N), WrittenFrom(w, r, N), N) \in 1 .. N
           /\ PlaceOf(WrittenFrom(w, r, N), Used(Ahead(w, N), WrittenFrom(w, r, N), N), N)
                = w % N
           /\ w % N \in 0 .. N - 1
<1> DEFINE from == WrittenFrom(w, r, N)
           up == Ahead(w, N)
           n == Used(w, r, N)
<1>1. up \in 0 .. 2 * N - 1 /\ n \in 0 .. N
  BY UsedIs
<1>2. /\ Used(up, r, N) = n + 1 /\ w % N = PlaceOf(r, n + 1, N) /\ up # r
      /\ n = N => (up + 2 * N - N) % (2 * N) = Ahead(r, N)
  BY PutBehind
<1>3. w % N \in 0 .. N - 1
  OBVIOUS
<1> HIDE DEF up, n, from
<1>4. CASE n < N
  <2>1. from = r
    BY <1>1, <1>2, <1>4 DEF up, from, WrittenFrom
  <2> QED
    BY <1>1, <1>2, <1>3, <1>4, <2>1 DEF up, from
<1>5. CASE n = N
  <2>1. from = Ahead(r, N)
    BY <1>1, <1>2, <1>5 DEF up, from, WrittenFrom
  <2>2. from \in 0 .. 2 * N - 1
    BY <2>1, UsedIs
  <2>3. Used(up, from, N) = n
    BY <1>1, <1>2, <2>1, TakeFirst
  <2>4. PlaceOf(from, n, N) = PlaceOf(r, n + 1, N)
    <3>1. PlaceOf(Ahead(r, N), N, N) = PlaceOf(r, N + 1, N)
      BY Places
    <3> QED
      BY <1>5, <2>1, <3>1
  <2>5. up # from
    <3>1. Used(up, up, N) = 0
      BY <1>1, UsedIs
    <3> QED
      BY <1>5, <2>3, <3>1
  <2> QED
    BY <1>1, <1>2, <1>3, <1>5, <2>2, <2>3, <2>4, <2>5 DEF up, from
<1> QED
  BY <1>1, <1>4, <1>5

(* ... and when the oldest is read. *)
LEMMA Read ==
    ASSUME NEW N \in Nat \ {0, 1}, NEW w \in 0 .. 2 * N - 1, NEW r \in 0 .. 2 * N - 1,
           w # r, Used(w, r, N) <= N,
           NEW buff, NEW x, buff[PlaceOf(r, Used(w, r, N), N)] = x
    PROVE  /\ Ahead(r, N) \in 0 .. 2 * N - 1 /\ Used(w, Ahead(r, N), N) <= N
           /\ w # Ahead(r, N) => buff[PlaceOf(Ahead(r, N), Used(w, Ahead(r, N), N), N)] = x
           /\ w = Ahead(r, N) => buff[r % N] = x
<1> DEFINE from == Ahead(r, N)
           n == Used(w, r, N)
<1>1. n \in 1 .. N /\ Used(w, from, N) = n - 1 /\ from \in 0 .. 2 * N - 1
  BY UsedIs, TakeFirst
<1> HIDE DEF from, n
<1>2. CASE w # from
  <2>1. n - 1 \in 1 .. N
    <3>1. Used(w, from, N) >= 1
      BY <1>1, <1>2, TakeFirst
    <3> QED
      BY <1>1, <3>1
  <2>2. PlaceOf(from, n - 1, N) = PlaceOf(r, n - 1 + 1, N)
    BY <2>1, Places DEF from
  <2>3. n - 1 + 1 = n
    BY <1>1
  <2> QED
    BY <1>1, <1>2, <2>2, <2>3 DEF from, n
<1>3. CASE w = from
  <2>1. n = 1
    <3>1. Used(w, from, N) = 0
      BY <1>1, <1>3, UsedIs
    <3> QED
      BY <1>1, <3>1
  <2>2. PlaceOf(r, 1, N) = r % N
    BY DEF PlaceOf
  <2> QED
    BY <1>1, <1>3, <2>1, <2>2 DEF from, n
<1> QED
  BY <1>2, <1>3
-----------------------------------------------------------------------------
(***************************************************************************)
(* The scan of the matrix.                                                 *)
(***************************************************************************)
(* For how many passes after this one the contact that was seen last will still
   be remembered, this one included while it lasts. *)
PassesLeft == IF scanning THEN release_cnt + 1 ELSE release_cnt

(* The filter sees the last key go up before the scans end: a pass without a
   contact empties the last reading, the next one what the filter lets through,
   and a contact that is closed for the reading only takes as many again. *)
Settles ==
    /\ scanning \in BOOLEAN /\ (scanning => scan_pin_need # {})
    /\ contact # {} => scanning /\ release_cnt = ReleaseCnt - 1
    /\ release_cnt > 0 => ret_last # {}
    /\ contact = {} =>
         /\ PassesLeft <= ReleaseCnt - 2 /\ stray < 2 => mtrx_pre = {}
         /\ PassesLeft <= ReleaseCnt - 3 /\ stray = 0 => mtrx_last = {}
    /\ scan_pin_need = {} /\ stray = 0 => mtrx_last = {}

(* The last change is the newest entry of the buffer, or it was read. *)
NewestKept ==
    LET n == Used(matrix_wptr, matrix_rptr, BuffNum)
    IN /\ emptied \in BOOLEAN /\ n <= BuffNum
       /\ matrix_wptr # matrix_rptr =>
             matrix_buff[PlaceOf(matrix_rptr, n, BuffNum)] = mtrx_last
       /\ matrix_wptr = matrix_rptr /\ ~emptied => event = mtrx_last

ScanInv == ScanTypeOK /\ Settles /\ NewestKept

LEMMA ScanInvInit == ScanInit => ScanInv
<1> SUFFICES ASSUME ScanInit PROVE ScanInv
  OBVIOUS
<1>1. /\ contact = {} /\ scan_pin_need = {} /\ ret_last = {} /\ release_cnt = 0 /\ stray = 0
      /\ mtrx_pre = {} /\ mtrx_last = {} /\ event = {}
      /\ matrix_wptr = 0 /\ matrix_rptr = 0
      /\ matrix_buff = [i \in 0 .. BuffNum - 1 |-> {}]
  BY DEF ScanInit
<1>2. scanning \in BOOLEAN /\ ~scanning /\ emptied \in BOOLEAN
  BY DEF ScanInit
<1>3. Used(matrix_wptr, matrix_rptr, BuffNum) = 0
  BY <1>1, KeyScanAssumption, UsedIs
<1>4. ScanTypeOK
  BY <1>1, KeyScanAssumption DEF ScanTypeOK, PtrMod8
<1>5. Settles
  BY <1>1, <1>2 DEF Settles
<1>6. NewestKept
  BY <1>1, <1>2, <1>3, KeyScanAssumption DEF NewestKept
<1> QED
  BY <1>4, <1>5, <1>6 DEF ScanInv

LEMMA PressedKeeps == ScanInv /\ kb_key_pressed => ScanInv'
<1> SUFFICES ASSUME ScanInv, kb_key_pressed PROVE ScanInv'
  OBVIOUS
<1> USE KeyScanAssumption DEF ScanInv, ScanTypeOK
<1>1. PICK seen \in SUBSET ScanPin :
        LET last == IF seen # {} THEN seen ELSE ret_last
            cnt == Remembered(seen)
            ret == IF cnt > 0 THEN last ELSE seen
        IN /\ contact' = seen
           /\ ret_last' = last
           /\ release_cnt' = IF cnt > 0 THEN cnt - 1 ELSE 0
           /\ scan_pin_need' = ret
           /\ scanning' = (ret # {})
  BY DEF kb_key_pressed
<1>3. /\ ~scanning /\ contact = {}
      /\ UNCHANGED <<mtrx_pre, mtrx_last, matrix_buff, matrix_wptr, matrix_rptr, event,
                     emptied, stray>>
  BY DEF kb_key_pressed, Settles
<1>4. NewestKept'
  BY <1>3 DEF NewestKept, Used, PlaceOf
<1>5. ScanTypeOK'
  <2>1. contact' \subseteq ScanPin
    BY <1>1
  <2>2. release_cnt' \in 0 .. ReleaseCnt
    BY <1>1 DEF Remembered
  <2> QED
    BY <1>1, <1>3, <2>1, <2>2
<1>6. CASE seen = {}
  <2>1. /\ contact' = {} /\ ret_last' = ret_last
        /\ release_cnt > 0 => release_cnt' = release_cnt - 1 /\ scan_pin_need' = ret_last
        /\ release_cnt = 0 => release_cnt' = 0 /\ scan_pin_need' = {}
    BY <1>1, <1>6 DEF Remembered
  <2>2. scanning' \in BOOLEAN /\ (scanning' <=> scan_pin_need' # {})
    BY <1>1
  <2>3. Settles'
    BY <1>3, <2>1, <2>2 DEF Settles, PassesLeft
  <2> QED
    BY <1>4, <1>5, <2>3
<1>7. CASE seen # {}
  <2>1. /\ contact' # {} /\ ret_last' # {} /\ release_cnt' = ReleaseCnt - 1
        /\ scan_pin_need' = ret_last'
    BY <1>1, <1>7 DEF Remembered
  <2>2. scanning' \in BOOLEAN /\ (scanning' <=> scan_pin_need' # {})
    BY <1>1
  <2>3. Settles'
    BY <2>1, <2>2 DEF Settles
  <2> QED
    BY <1>4, <1>5, <2>3
<1> QED
  BY <1>6, <1>7

(* A change is written, or nothing is; then the oldest change may be read. *)
LEMMA ValueKeeps ==
    ScanInv /\ (\E numlock \in {"VALID", "POWERON", "INVALID"}, read_key \in BOOLEAN :
                   kb_scan_key_value(numlock, read_key)) => ScanInv'
<1> SUFFICES ASSUME ScanInv, NEW numlock \in {"VALID", "POWERON", "INVALID"},
                    NEW read_key \in BOOLEAN, kb_scan_key_value(numlock, read_key)
             PROVE  ScanInv'
  OBVIOUS
<1>1. PICK pressed_matrix \in SUBSET {k \in MatrixKey : k[2] \in scan_pin_need} :
        LET cur == Filtered(pressed_matrix, numlock # "POWERON")
            changed == cur # mtrx_last
            wptr == IF changed THEN (matrix_wptr + 1) % PtrMod8 ELSE matrix_wptr
            rptr == IF changed THEN ReadFrom(wptr) ELSE matrix_rptr
            buff == IF changed THEN [matrix_buff EXCEPT ![matrix_wptr % BuffNum] = cur]
                    ELSE matrix_buff
            reads == numlock # "INVALID" /\ read_key /\ wptr # rptr
        IN /\ mtrx_pre' = pressed_matrix
           /\ mtrx_last' = cur
           /\ matrix_wptr' = wptr
           /\ matrix_buff' = buff
           /\ matrix_rptr' = IF reads THEN (rptr + 1) % PtrMod8 ELSE rptr
           /\ event' = IF reads THEN buff[rptr % BuffNum]
                       ELSE IF numlock = "INVALID" THEN {} ELSE event
           /\ emptied' = ((emptied /\ ~reads) \/ numlock = "INVALID")
           /\ stray' = IF contact # {} THEN 0
                       ELSE IF pressed_matrix # {} THEN 2 ELSE IF stray > 0 THEN stray - 1 ELSE 0
  BY DEF kb_scan_key_value
<1> DEFINE cur == Filtered(pressed_matrix, numlock # "POWERON")
           wptr == IF cur # mtrx_last THEN Ahead(matrix_wptr, BuffNum) ELSE matrix_wptr
           rptr == IF cur # mtrx_last THEN ReadFrom(wptr) ELSE matrix_rptr
           reads == numlock # "INVALID" /\ read_key /\ wptr # rptr
<1>2. /\ scanning /\ scanning' = FALSE /\ contact' = {}
      /\ UNCHANGED <<scan_pin_need, ret_last, release_cnt>>
  BY DEF kb_scan_key_value
<1>3. /\ ScanTypeOK /\ Settles /\ NewestKept
      /\ BuffNum \in Nat \ {0, 1} /\ ReleaseCnt \in Nat /\ ReleaseCnt >= 3
  BY KeyScanAssumption DEF ScanInv
<1>4. /\ mtrx_pre' = pressed_matrix /\ mtrx_last' = cur
      /\ matrix_wptr' = wptr
      /\ matrix_buff' = IF cur # mtrx_last
                        THEN [matrix_buff EXCEPT ![matrix_wptr % BuffNum] = cur]
                        ELSE matrix_buff
      /\ matrix_rptr' = IF reads THEN Ahead(rptr, BuffNum) ELSE rptr
      /\ event' = IF reads THEN matrix_buff'[rptr % BuffNum]
                  ELSE IF numlock = "INVALID" THEN {} ELSE event
      /\ emptied' = ((emptied /\ ~reads) \/ numlock = "INVALID")
      /\ stray' = IF contact # {} THEN 0
                  ELSE IF pressed_matrix # {} THEN 2 ELSE IF stray > 0 THEN stray - 1 ELSE 0
  BY <1>1 DEF Ahead, PtrMod8
<1>5. /\ pressed_matrix \subseteq MatrixKey /\ cur \subseteq MatrixKey
      /\ pressed_matrix = {} /\ mtrx_pre = {} => cur = {}
      /\ stray \in 0 .. 2 /\ stray' \in 0 .. 2
  BY <1>3, <1>4 DEF Filtered, ScanTypeOK
<1>6. Settles'
  <2>1. scan_pin_need' # {} /\ scanning' \in BOOLEAN /\ ~scanning' /\ contact' = {}
    BY <1>2, <1>3 DEF Settles
  <2>2. CASE contact # {}
    <3>1. release_cnt' = ReleaseCnt - 1
      BY <1>2, <1>3, <2>2 DEF Settles
    <3> QED
      BY <1>2, <1>3, <2>1, <3>1 DEF Settles, PassesLeft
  <2>3. CASE contact = {} /\ pressed_matrix # {}
    <3>1. stray' = 2
      BY <1>4, <2>3
    <3> QED
      BY <1>2, <1>3, <2>1, <3>1 DEF Settles, PassesLeft
  <2>4. CASE contact = {} /\ pressed_matrix = {}
    <3>1. mtrx_pre' = {} /\ (mtrx_pre = {} => mtrx_last' = {})
      BY <1>4, <1>5, <2>4
    <3>2. stray' = 0 => stray < 2
      BY <1>4, <1>5, <2>4
    <3>3. release_cnt <= ReleaseCnt - 3 /\ stray' = 0 => mtrx_pre = {}
      BY <1>2, <1>3, <2>4, <3>2 DEF Settles, PassesLeft, ScanTypeOK
    <3> QED
      BY <1>2, <1>3, <2>1, <3>1, <3>3 DEF Settles, PassesLeft
  <2> QED
    BY <2>2, <2>3, <2>4
<1>7. /\ matrix_wptr \in 0 .. 2 * BuffNum - 1 /\ matrix_rptr \in 0 .. 2 * BuffNum - 1
      /\ Used(matrix_wptr, matrix_rptr, BuffNum) <= BuffNum
      /\ matrix_buff \in [0 .. BuffNum - 1 -> SUBSET MatrixKey]
  BY <1>3 DEF ScanTypeOK, NewestKept, PtrMod8
<1> HIDE DEF cur
<1>8. /\ wptr \in 0 .. 2 * BuffNum - 1 /\ rptr \in 0 .. 2 * BuffNum - 1
      /\ Used(wptr, rptr, BuffNum) <= BuffNum
      /\ wptr # rptr => matrix_buff'[PlaceOf(rptr, Used(wptr, rptr, BuffNum), BuffNum)] = cur
      /\ wptr = rptr => cur = mtrx_last /\ matrix_wptr = matrix_rptr
      /\ matrix_buff' \in [0 .. BuffNum - 1 -> SUBSET MatrixKey]
  <2>1. CASE cur = mtrx_last
    BY <1>3, <1>4, <1>7, <2>1 DEF NewestKept
  <2>2. CASE cur # mtrx_last
    <3>1. /\ wptr = Ahead(matrix_wptr, BuffNum)
          /\ rptr = WrittenFrom(matrix_wptr, matrix_rptr, BuffNum)
          /\ matrix_buff' = [matrix_buff EXCEPT ![matrix_wptr % BuffNum] = cur]
      BY <1>4, <2>2 DEF ReadFrom, WrittenFrom, Used, PtrMod8
    <3> HIDE DEF wptr, rptr
    <3>2. /\ wptr \in 0 .. 2 * BuffNum - 1 /\ rptr \in 0 .. 2 * BuffNum - 1
          /\ wptr # rptr /\ Used(wptr, rptr, BuffNum) \in 1 .. BuffNum
          /\ PlaceOf(rptr, Used(wptr, rptr, BuffNum), BuffNum) = matrix_wptr % BuffNum
          /\ matrix_wptr % BuffNum \in 0 .. BuffNum - 1
      BY <1>3, <1>7, <3>1, Written
    <3> QED
      BY <1>3, <1>5, <1>7, <3>1, <3>2
  <2> QED
    BY <2>1, <2>2
<1> HIDE DEF wptr, rptr
<1>9. CASE reads
  <2>1. /\ wptr # rptr /\ matrix_rptr' = Ahead(rptr, BuffNum)
        /\ event' = matrix_buff'[rptr % BuffNum]
    BY <1>4, <1>9
  <2>2. /\ matrix_rptr' \in 0 .. 2 * BuffNum - 1 /\ Used(wptr, matrix_rptr', BuffNum) <= BuffNum
        /\ wptr # matrix_rptr' =>
             matrix_buff'[PlaceOf(matrix_rptr', Used(wptr, matrix_rptr', BuffNum), BuffNum)] = cur
        /\ wptr = matrix_rptr' => event' = cur
    BY <1>3, <1>8, <2>1, Read
  <2>3. event' \subseteq MatrixKey /\ emptied' \in BOOLEAN
    <3>1. rptr % BuffNum \in 0 .. BuffNum - 1
      BY <1>3, <1>8
    <3>2. event' \subseteq MatrixKey
      BY <1>8, <2>1, <3>1
    <3>3. emptied' \in BOOLEAN
      BY <1>4
    <3> QED
      BY <3>2, <3>3
  <2>4. mtrx_last' = cur /\ matrix_wptr' = wptr
    BY <1>4
  <2>5. NewestKept'
    BY <2>2, <2>3, <2>4 DEF NewestKept
  <2>6. ScanTypeOK'
    BY <1>2, <1>3, <1>4, <1>5, <1>8, <2>2, <2>3 DEF ScanTypeOK, PtrMod8
  <2> QED
    BY <1>6, <2>5, <2>6 DEF ScanInv
<1>10. CASE ~reads
  <2>1. matrix_rptr' = rptr /\ emptied' \in BOOLEAN
    BY <1>4, <1>10
  <2>2. event' \subseteq MatrixKey
    BY <1>3, <1>4, <1>10 DEF ScanTypeOK
  <2>3. ~emptied' => ~emptied /\ event' = event
    BY <1>4, <1>10
  <2>4. mtrx_last' = cur /\ matrix_wptr' = wptr
    BY <1>4
  <2>5. wptr = rptr /\ ~emptied' => event' = cur
    BY <1>3, <1>8, <2>3 DEF NewestKept
  <2>6. NewestKept'
    BY <1>8, <2>1, <2>4, <2>5 DEF NewestKept
  <2>7. ScanTypeOK'
    BY <1>2, <1>3, <1>4, <1>5, <1>8, <2>1, <2>2 DEF ScanTypeOK, PtrMod8
  <2> QED
    BY <1>6, <2>6, <2>7 DEF ScanInv
<1> QED
  BY <1>9, <1>10

LEMMA ScanInvStep == ScanInv /\ [ScanNext]_scanVars => ScanInv'
<1>1. ScanInv /\ UNCHANGED scanVars => ScanInv'
  <2> SUFFICES ASSUME ScanInv, UNCHANGED scanVars PROVE ScanInv'
    OBVIOUS
  <2>1. ScanTypeOK'
    BY DEF ScanInv, ScanTypeOK, scanVars
  <2>2. Settles'
    BY DEF ScanInv, Settles, PassesLeft, scanVars
  <2>3. NewestKept'
    BY DEF ScanInv, NewestKept, scanVars
  <2> QED
    BY <2>1, <2>2, <2>3 DEF ScanInv
<1> QED
  BY <1>1, PressedKeeps, ValueKeeps DEF ScanNext
-----------------------------------------------------------------------------
(***************************************************************************)
(* The reports.                                                            *)
(***************************************************************************)
HidRecord ==
    [ep : [Endpoint -> Report \cup {NoReport}],
     usb_fifo : [0 .. USB_FIFO_NUM - 1 -> Report \cup {NoReport}],
     usb_ff_wptr : 0 .. PtrMod - 1, usb_ff_rptr : 0 .. PtrMod - 1,
     usbkb_not_released : SUBSET KeyboardKind,
     waiting : Seq(Report \cup {NoReport}), queued : BOOLEAN, pressQueued : SUBSET Kind]

InUse(h) == Used(h.usb_ff_wptr, h.usb_ff_rptr, USB_FIFO_NUM)
Entry(h, i) == PlaceOf(h.usb_ff_rptr, i, USB_FIFO_NUM)

(* Every report is at the endpoint of its key.  The fifo holds what waits, and
   no press that was not queued. *)
FifoRight(h) ==
    /\ h \in HidRecord
    /\ \A e \in Endpoint : h.ep[e] # NoReport => EndpointOf(h.ep[e].kind) = e
    /\ InUse(h) <= USB_FIFO_NUM
    /\ h.waiting = [i \in 1 .. InUse(h) |-> h.usb_fifo[Entry(h, i)]]
    /\ ~h.queued => h.usb_ff_wptr = h.usb_ff_rptr
    /\ \A i \in 0 .. USB_FIFO_NUM - 1 : h.usb_fifo[i].down => h.usb_fifo[i].kind \in h.pressQueued

(* No entry but the newest is where the newest is put. *)
LEMMA OthersKept ==
    ASSUME NEW N \in Nat \ {0, 1}, NEW w \in 0 .. 2 * N - 1, NEW r \in 0 .. 2 * N - 1,
           Used(w, r, N) <= N
    PROVE  /\ Used(w, r, N) < N => \A i \in 1 .. Used(w, r, N) : PlaceOf(r, i, N) # w % N
           /\ Used(w, r, N) = N => \A i \in 2 .. N : PlaceOf(r, i, N) # w % N
           /\ w % N = PlaceOf(r, Used(w, r, N) + 1, N)
<1>1. w % N = PlaceOf(r, Used(w, r, N) + 1, N) /\ Used(w, r, N) \in 0 .. N
  BY PutBehind, UsedIs
<1>2. PlaceOf(r, N + 1, N) = PlaceOf(r, 1, N)
  <2>1. LET x == r + N
        IN x % N = IF x < 2 * N THEN x - N ELSE x - 2 * N
    OBVIOUS
  <2>2. r % N = IF r < N THEN r ELSE r - N
    OBVIOUS
  <2> QED
    BY <2>1, <2>2 DEF PlaceOf
<1>3. \A i, j \in 1 .. N : PlaceOf(r, i, N) = PlaceOf(r, j, N) => i = j
  BY Places
<1>4. CASE Used(w, r, N) < N
  BY <1>1, <1>3, <1>4
<1>5. CASE Used(w, r, N) = N
  <2>1. w % N = PlaceOf(r, 1, N)
    BY <1>1, <1>2, <1>5
  <2>2. 1 \in 1 .. N
    OBVIOUS
  <2> QED
    BY <1>1, <1>3, <1>5, <2>1, <2>2
<1> QED
  BY <1>1, <1>4, <1>5

(* The oldest entry when one more is put into the fifo. *)
KeptFrom(w, r, N) == IF Used(Ahead(w, N), r, N) > N THEN Ahead(r, N) ELSE r

(* The entries of a buffer from the oldest on. *)
Entries(buff, n, r, N) == [i \in 1 .. n |-> buff[PlaceOf(r, i, N)]]

(* What waits when one more is put behind it. *)
PutWaits(wait, x, N) ==
    IF Len(Append(wait, x)) > N THEN Tail(Append(wait, x)) ELSE Append(wait, x)

RightAfterPut(buff, wait, x, w, r, N) ==
    LET up == Ahead(w, N)
        kept == KeptFrom(w, r, N)
    IN /\ up \in 0 .. 2 * N - 1 /\ kept \in 0 .. 2 * N - 1 /\ Used(up, kept, N) <= N
       /\ PutWaits(wait, x, N) = Entries([buff EXCEPT ![w % N] = x], Used(up, kept, N), kept, N)

(* What waits is what the buffer holds, also when one more is put into it. *)
LEMMA OneMoreWaits ==
    ASSUME NEW N \in Nat \ {0, 1}, NEW w \in 0 .. 2 * N - 1, NEW r \in 0 .. 2 * N - 1,
           Used(w, r, N) <= N,
           NEW Rep, NEW buff \in [0 .. N - 1 -> Rep], NEW x \in Rep,
           NEW wait \in Seq(Rep), wait = Entries(buff, Used(w, r, N), r, N)
    PROVE  RightAfterPut(buff, wait, x, w, r, N)
<1>0. PICK n : n = Used(w, r, N)
  OBVIOUS
<1>1. /\ n \in 0 .. N /\ Ahead(w, N) \in 0 .. 2 * N - 1 /\ Ahead(r, N) \in 0 .. 2 * N - 1
  BY <1>0, UsedIs
<1>2. Used(Ahead(w, N), r, N) = n + 1 /\ Ahead(w, N) # r
  BY <1>0, PutBehind
<1>3. w % N \in 0 .. N - 1
  OBVIOUS
<1>4. /\ n < N => \A i \in 1 .. n : PlaceOf(r, i, N) # w % N
      /\ n = N => \A i \in 2 .. N : PlaceOf(r, i, N) # w % N
      /\ w % N = PlaceOf(r, n + 1, N)
  BY <1>0, OthersKept
<1>5. \A i \in 1 .. N : /\ PlaceOf(r, i, N) \in 0 .. N - 1
                        /\ PlaceOf(Ahead(r, N), i, N) = PlaceOf(r, i + 1, N)
  BY Places
<1> DEFINE all == Append(wait, x)
           new == [buff EXCEPT ![w % N] = x]
<1>6. /\ all \in Seq(Rep) /\ Len(all) = n + 1
      /\ \A i \in 1 .. n + 1 : all[i] = IF i <= n THEN buff[PlaceOf(r, i, N)] ELSE x
  <2>1. Len(wait) = n /\ \A i \in 1 .. n : wait[i] = buff[PlaceOf(r, i, N)]
    BY <1>0, <1>1 DEF Entries
  <2> QED
    BY <1>1, <2>1
<1>9. new[w % N] = x /\ \A j \in 0 .. N - 1 : j # w % N => new[j] = buff[j]
  BY <1>3
<1> HIDE DEF all, new, PutWaits, RightAfterPut
<1>7. CASE n < N
  <2>1. KeptFrom(w, r, N) = r
    BY <1>1, <1>2, <1>7 DEF KeptFrom
  <2>2. \A i \in 1 .. n + 1 : all[i] = new[PlaceOf(r, i, N)]
    <3> SUFFICES ASSUME NEW i \in 1 .. n + 1 PROVE all[i] = new[PlaceOf(r, i, N)]
      OBVIOUS
    <3>1. PlaceOf(r, i, N) \in 0 .. N - 1 /\ i \in 1 .. N
      BY <1>1, <1>5, <1>7
    <3>2. CASE i <= n
      <4>1. i \in 1 .. n /\ all[i] = buff[PlaceOf(r, i, N)]
        BY <1>1, <1>6, <3>2
      <4>2. PlaceOf(r, i, N) # w % N
        BY <1>4, <1>7, <4>1
      <4> QED
        BY <1>9, <3>1, <4>1, <4>2
    <3>3. CASE i = n + 1
      <4>1. all[n + 1] = x
        BY <1>1, <1>6
      <4> QED
        BY <1>4, <1>9, <3>3, <4>1
    <3> QED
      BY <1>1, <3>2, <3>3
  <2>3. all = Entries(new, n + 1, r, N)
    <3>1. all = [i \in 1 .. n + 1 |-> all[i]]
      BY <1>1, <1>6
    <3> QED
      BY <2>2, <3>1 DEF Entries
  <2>4. ~(Len(all) > N) /\ n + 1 <= N
    BY <1>1, <1>6, <1>7
  <2> QED
    BY <1>1, <1>2, <2>1, <2>3, <2>4 DEF all, new, PutWaits, RightAfterPut
<1>8. CASE n = N
  <2>1. KeptFrom(w, r, N) = Ahead(r, N)
    BY <1>1, <1>2, <1>8 DEF KeptFrom
  <2>2. Used(Ahead(w, N), Ahead(r, N), N) = N
    BY <1>1, <1>2, <1>8, TakeFirst
  <2>3. \A i \in 1 .. N : all[i + 1] = new[PlaceOf(Ahead(r, N), i, N)]
    <3> SUFFICES ASSUME NEW i \in 1 .. N
                 PROVE  all[i + 1] = new[PlaceOf(Ahead(r, N), i, N)]
      OBVIOUS
    <3>1. PlaceOf(Ahead(r, N), i, N) = PlaceOf(r, i + 1, N)
      BY <1>5
    <3>2. CASE i = N
      <4>1. i + 1 = n + 1 /\ all[n + 1] = x
        BY <1>1, <1>6, <1>8, <3>2
      <4> QED
        BY <1>4, <1>9, <3>1, <4>1
    <3>3. CASE i < N
      <4>1. i + 1 \in 2 .. N
        BY <3>3
      <4>2. PlaceOf(r, i + 1, N) \in 0 .. N - 1 /\ PlaceOf(r, i + 1, N) # w % N
        BY <1>4, <1>5, <1>8, <4>1
      <4> QED
        BY <1>6, <1>8, <1>9, <3>1, <4>1, <4>2
    <3> QED
      BY <3>2, <3>3
  <2>4. Tail(all) = Entries(new, N, Ahead(r, N), N)
    <3> DEFINE rest == Tail(all)
    <3>1. rest \in Seq(Rep) /\ Len(rest) = N /\ \A i \in 1 .. N : rest[i] = all[i + 1]
      <4>1. all # <<>> /\ Len(all) - 1 = N
        BY <1>1, <1>6, <1>8
      <4> QED
        BY <1>6, <4>1, HeadTailProperties
    <3> HIDE DEF rest
    <3>2. rest = [i \in 1 .. N |-> rest[i]]
      BY <3>1
    <3>3. rest = Entries(new, N, Ahead(r, N), N)
      BY <2>3, <3>1, <3>2 DEF Entries
    <3> QED
      BY <3>3 DEF rest
  <2>5. Len(all) > N
    BY <1>1, <1>6, <1>8
  <2>6. KeptFrom(w, r, N) \in 0 .. 2 * N - 1 /\ Used(Ahead(w, N), KeptFrom(w, r, N), N) = N
    BY <1>1, <2>1, <2>2
  <2>7. Entries(new, Used(Ahead(w, N), KeptFrom(w, r, N), N), KeptFrom(w, r, N), N)
          = Entries(new, N, Ahead(r, N), N)
    BY <2>1, <2>6
  <2>8. (IF Len(all) > N THEN Tail(all) ELSE all)
          = Entries(new, Used(Ahead(w, N), KeptFrom(w, r, N), N), KeptFrom(w, r, N), N)
    BY <2>4, <2>5, <2>7
  <2>9. Used(Ahead(w, N), KeptFrom(w, r, N), N) <= N
    BY <2>6
  <2> QED
    BY <1>1, <2>6, <2>8, <2>9 DEF all, new, PutWaits, RightAfterPut
<1>10. n < N \/ n = N
  BY <1>1
<1> QED
  BY <1>7, <1>8, <1>10, Zenon

(* A report that is queued changes nothing but the fifo. *)
LEMMA QueueRight ==
    ASSUME NEW h, FifoRight(h), NEW r \in Report
    PROVE  /\ FifoRight(Queue(h, r)) /\ Queue(h, r).queued = TRUE
           /\ Queue(h, r).ep = h.ep
           /\ Queue(h, r).usbkb_not_released = h.usbkb_not_released
           /\ h.pressQueued \subseteq Queue(h, r).pressQueued
           /\ r.down => r.kind \in Queue(h, r).pressQueued
<1> DEFINE w == h.usb_ff_wptr
           from == h.usb_ff_rptr
           N == USB_FIFO_NUM
           q == Queue(h, r)
           all == Append(h.waiting, r)
<1>1. /\ N \in Nat \ {0, 1} /\ h \in HidRecord
      /\ w \in 0 .. 2 * N - 1 /\ from \in 0 .. 2 * N - 1
      /\ Used(w, from, N) <= N
  BY UsbFifoAssumption DEF FifoRight, HidRecord, PtrMod, InUse
<1>2. /\ h.waiting = Entries(h.usb_fifo, Used(w, from, N), from, N)
      /\ h.waiting \in Seq(Report \cup {NoReport}) /\ r \in Report \cup {NoReport}
      /\ h.usb_fifo \in [0 .. N - 1 -> Report \cup {NoReport}]
      /\ h.pressQueued \subseteq Kind
      /\ \A i \in 0 .. N - 1 : h.usb_fifo[i].down => h.usb_fifo[i].kind \in h.pressQueued
  BY DEF FifoRight, HidRecord, InUse, Entry, Entries
<1>3. (w + 1) % PtrMod = Ahead(w, N) /\ (from + 1) % PtrMod = Ahead(from, N)
      /\ (((w + 1) % PtrMod) + PtrMod - from) % PtrMod = Used(Ahead(w, N), from, N)
  BY DEF Ahead, Used, PtrMod
<1>4. q = [h EXCEPT !.usb_fifo[w % N] = r, !.usb_ff_wptr = Ahead(w, N),
                    !.usb_ff_rptr = KeptFrom(w, from, N),
                    !.waiting = IF Len(all) > N THEN Tail(all) ELSE all,
                    !.queued = TRUE,
                    !.pressQueued = IF r.down THEN @ \cup {r.kind} ELSE @]
  BY <1>3, Zenon DEF Queue, Overwrites, KeptFrom
<1> DEFINE up == Ahead(w, N)
           kept == KeptFrom(w, from, N)
           new == [h.usb_fifo EXCEPT ![w % N] = r]
           wait == IF Len(all) > N THEN Tail(all) ELSE all
<1>5. /\ up \in 0 .. 2 * N - 1 /\ kept \in 0 .. 2 * N - 1 /\ Used(up, kept, N) <= N
      /\ wait = Entries(new, Used(up, kept, N), kept, N)
  <2> DEFINE Rep == Report \cup {NoReport}
             old == h.usb_fifo
             waits == h.waiting
  <2>1. /\ N \in Nat \ {0, 1} /\ w \in 0 .. 2 * N - 1 /\ from \in 0 .. 2 * N - 1
        /\ Used(w, from, N) <= N /\ old \in [0 .. N - 1 -> Rep] /\ r \in Rep
        /\ waits \in Seq(Rep) /\ waits = Entries(old, Used(w, from, N), from, N)
    BY <1>1, <1>2
  <2> HIDE DEF N, w, from, Rep, old, waits
  <2>2. RightAfterPut(old, waits, r, w, from, N)
    BY <2>1, OneMoreWaits
  <2> QED
    BY <2>2, Zenon DEF old, waits, RightAfterPut, PutWaits
<1>6. /\ new \in [0 .. N - 1 -> Report \cup {NoReport}] /\ w % N \in 0 .. N - 1
      /\ new[w % N] = r /\ \A i \in 0 .. N - 1 : i # w % N => new[i] = h.usb_fifo[i]
  BY <1>1, <1>2
<1>7. all \in Seq(Report \cup {NoReport}) /\ wait \in Seq(Report \cup {NoReport})
  <2>1. all \in Seq(Report \cup {NoReport}) /\ all # <<>>
    BY <1>2
  <2> HIDE DEF all
  <2>2. Tail(all) \in Seq(Report \cup {NoReport})
    BY <2>1, HeadTailProperties
  <2> QED
    BY <2>1, <2>2
<1> HIDE DEF up, kept, new, wait, all
<1>8. q = [h EXCEPT !.usb_fifo = new, !.usb_ff_wptr = up, !.usb_ff_rptr = kept,
                    !.waiting = wait, !.queued = TRUE,
                    !.pressQueued = IF r.down THEN @ \cup {r.kind} ELSE @]
  BY <1>1, <1>4 DEF up, kept, new, wait, HidRecord
<1> HIDE DEF q
<1>9. /\ q.usb_fifo = new /\ q.usb_ff_wptr = up /\ q.usb_ff_rptr = kept /\ q.waiting = wait
      /\ q.queued = TRUE /\ q.ep = h.ep /\ q.usbkb_not_released = h.usbkb_not_released
      /\ q.pressQueued = IF r.down THEN h.pressQueued \cup {r.kind} ELSE h.pressQueued
  BY <1>1, <1>8 DEF HidRecord
<1>10. r.kind \in Kind /\ q.pressQueued \subseteq Kind
  BY <1>2, <1>9 DEF Report
<1>11. q \in HidRecord
  BY <1>1, <1>5, <1>6, <1>7, <1>8, <1>9, <1>10 DEF HidRecord, PtrMod
<1>12. \A i \in 0 .. N - 1 : q.usb_fifo[i].down => q.usb_fifo[i].kind \in q.pressQueued
  BY <1>2, <1>6, <1>9, <1>10
<1>13. InUse(q) <= N /\ q.waiting = [i \in 1 .. InUse(q) |-> q.usb_fifo[Entry(q, i)]]
  BY <1>5, <1>9 DEF InUse, Entry, Entries
<1>14. FifoRight(q)
  <2>1. \A e \in Endpoint : q.ep[e] # NoReport => EndpointOf(q.ep[e].kind) = e
    BY <1>9 DEF FifoRight
  <2> QED
    BY <1>9, <1>11, <1>12, <1>13, <2>1 DEF FifoRight
<1> QED
  BY <1>9, <1>14 DEF q

RightAfterTake(buff, wait, x, w, r, N) ==
    LET ahead == Ahead(r, N)
    IN /\ ahead \in 0 .. 2 * N - 1 /\ Used(w, ahead, N) <= N
       /\ Tail(wait) = Entries([buff EXCEPT ![r % N] = x], Used(w, ahead, N), ahead, N)

(* What waits is what the buffer holds, also when the oldest is taken out. *)
LEMMA OneLessWaits ==
    ASSUME NEW N \in Nat \ {0, 1}, NEW w \in 0 .. 2 * N - 1, NEW r \in 0 .. 2 * N - 1,
           w # r, Used(w, r, N) <= N,
           NEW Rep, NEW buff \in [0 .. N - 1 -> Rep], NEW x \in Rep,
           NEW wait \in Seq(Rep), wait = Entries(buff, Used(w, r, N), r, N)
    PROVE  RightAfterTake(buff, wait, x, w, r, N) /\ Tail(wait) \in Seq(Rep)
<1>0. PICK n : n = Used(w, r, N)
  OBVIOUS
<1>1. n \in 1 .. N /\ Used(w, Ahead(r, N), N) = n - 1 /\ Ahead(r, N) \in 0 .. 2 * N - 1
  BY <1>0, UsedIs, TakeFirst
<1>2. PlaceOf(r, 1, N) = r % N /\ r % N \in 0 .. N - 1
  BY DEF PlaceOf
<1>3. \A i \in 1 .. N : /\ PlaceOf(r, i, N) \in 0 .. N - 1
                        /\ PlaceOf(Ahead(r, N), i, N) = PlaceOf(r, i + 1, N)
                        /\ \A j \in 1 .. N : PlaceOf(r, i, N) = PlaceOf(r, j, N) => i = j
  BY Places
<1> DEFINE new == [buff EXCEPT ![r % N] = x]
           rest == Tail(wait)
<1>4. \A j \in 0 .. N - 1 : j # r % N => new[j] = buff[j]
  BY <1>2
<1>5. Len(wait) = n /\ \A i \in 1 .. n : wait[i] = buff[PlaceOf(r, i, N)]
  BY <1>0, <1>1 DEF Entries
<1>6. wait # <<>> /\ rest \in Seq(Rep) /\ Len(rest) = n - 1
      /\ \A i \in 1 .. n - 1 : rest[i] = wait[i + 1]
  <2>1. wait # <<>>
    BY <1>1, <1>5
  <2> QED
    BY <1>1, <1>5, <2>1, HeadTailProperties
<1> HIDE DEF new, rest
<1>7. \A i \in 1 .. n - 1 : rest[i] = new[PlaceOf(Ahead(r, N), i, N)]
  <2> SUFFICES ASSUME NEW i \in 1 .. n - 1
               PROVE  rest[i] = new[PlaceOf(Ahead(r, N), i, N)]
    OBVIOUS
  <2>1. i \in 1 .. N /\ i + 1 \in 1 .. N /\ i + 1 \in 1 .. n /\ i + 1 # 1 /\ 1 \in 1 .. N
    BY <1>1
  <2>2. PlaceOf(r, i + 1, N) \in 0 .. N - 1 /\ PlaceOf(r, i + 1, N) # r % N
    BY <1>2, <1>3, <2>1, Zenon
  <2>3. new[PlaceOf(r, i + 1, N)] = buff[PlaceOf(r, i + 1, N)]
    BY <1>4, <2>2, Zenon
  <2>4. rest[i] = buff[PlaceOf(r, i + 1, N)]
    BY <1>5, <1>6, <2>1
  <2>5. PlaceOf(Ahead(r, N), i, N) = PlaceOf(r, i + 1, N)
    BY <1>3, <2>1, Zenon
  <2> QED
    BY <2>3, <2>4, <2>5
<1>8. rest = Entries(new, n - 1, Ahead(r, N), N)
  <2>1. rest = [i \in 1 .. n - 1 |-> rest[i]]
    BY <1>1, <1>6
  <2> QED
    BY <1>7, <2>1 DEF Entries
<1>9. n - 1 <= N
  BY <1>1
<1> QED
  BY <1>1, <1>6, <1>8, <1>9, Zenon DEF rest, new, RightAfterTake

(* The keys that the host will believe to be down when it has fetched what is
   at the endpoints. *)
Shown(h, keys) ==
    {k \in Kind : LET r == h.ep[EndpointOf(k)]
                  IN IF r.kind = k THEN r.down ELSE k \in keys}

(* No key is left down but one that the mask names, or whose press was queued. *)
Covered(h, keys) == Shown(h, keys) \subseteq h.usbkb_not_released \cup h.pressQueued

(* A report that finds its endpoint free is shown to the host. *)
LEMMA SentIsShown ==
    ASSUME NEW h, FifoRight(h), NEW r \in Report, ~Busy(h, r.kind), NEW keys
    PROVE  /\ FifoRight(hid_report(h, r))
           /\ hid_report(h, r) = [h EXCEPT !.ep[EndpointOf(r.kind)] = r]
           /\ hid_report(h, r).queued = h.queued
           /\ hid_report(h, r).usbkb_not_released = h.usbkb_not_released
           /\ hid_report(h, r).pressQueued = h.pressQueued
           /\ Shown(hid_report(h, r), keys)
                = IF r.down THEN Shown(h, keys) \cup {r.kind} ELSE Shown(h, keys) \ {r.kind}
<1> DEFINE e == EndpointOf(r.kind)
           g == hid_report(h, r)
<1>1. g = [h EXCEPT !.ep[e] = r] /\ h \in HidRecord /\ e \in Endpoint /\ h.ep[e] = NoReport
  BY DEF hid_report, FifoRight, Busy, EndpointOf, Endpoint
<1>2. r.kind \in Kind /\ r.down \in BOOLEAN /\ r # NoReport
  BY DEF Report, NoReport, Kind
<1> HIDE DEF g
<1>3. /\ g.ep = [h.ep EXCEPT ![e] = r] /\ g \in HidRecord
      /\ g.usb_fifo = h.usb_fifo /\ g.usb_ff_wptr = h.usb_ff_wptr
      /\ g.usb_ff_rptr = h.usb_ff_rptr /\ g.waiting = h.waiting /\ g.queued = h.queued
      /\ g.usbkb_not_released = h.usbkb_not_released /\ g.pressQueued = h.pressQueued
  BY <1>1 DEF HidRecord
<1>4. g.ep[e] = r /\ \A d \in Endpoint : d # e => g.ep[d] = h.ep[d]
  BY <1>1, <1>3 DEF HidRecord
<1>5. FifoRight(g)
  <2>1. \A d \in Endpoint : g.ep[d] # NoReport => EndpointOf(g.ep[d].kind) = d
    BY <1>4 DEF FifoRight
  <2> QED
    BY <1>3, <2>1 DEF FifoRight, InUse, Entry
<1>6. \A k \in Kind : k \in Shown(g, keys)
         <=> (IF r.down THEN k \in Shown(h, keys) \cup {r.kind}
              ELSE k \in Shown(h, keys) \ {r.kind})
  <2> SUFFICES ASSUME NEW k \in Kind
               PROVE  k \in Shown(g, keys)
                        <=> (IF r.down THEN k \in Shown(h, keys) \cup {r.kind}
                             ELSE k \in Shown(h, keys) \ {r.kind})
    OBVIOUS
  <2>1. EndpointOf(k) \in Endpoint
    BY DEF EndpointOf, Endpoint
  <2>2. CASE k = r.kind
    BY <1>2, <1>4, <2>2 DEF Shown
  <2>3. CASE k # r.kind /\ EndpointOf(k) # e
    BY <1>4, <2>1, <2>3 DEF Shown
  <2>4. CASE k # r.kind /\ EndpointOf(k) = e
    <3>1. h.ep[EndpointOf(k)].kind # k
      BY <1>1, <2>4 DEF NoReport, Kind
    <3> QED
      BY <1>4, <2>4, <3>1 DEF Shown
  <2> QED
    BY <2>2, <2>3, <2>4
<1>7. Shown(g, keys) \subseteq Kind /\ Shown(h, keys) \subseteq Kind
  BY DEF Shown
<1> QED
  BY <1>1, <1>2, <1>3, <1>5, <1>6, <1>7 DEF g

LEMMA MaskChanged ==
    ASSUME NEW h, FifoRight(h), NEW mask \in SUBSET KeyboardKind
    PROVE  LET g == [h EXCEPT !.usbkb_not_released = mask]
           IN /\ FifoRight(g) /\ g.usbkb_not_released = mask
              /\ g.queued = h.queued /\ g.pressQueued = h.pressQueued
              /\ \A keys : Shown(g, keys) = Shown(h, keys)
<1> DEFINE g == [h EXCEPT !.usbkb_not_released = mask]
<1>1. /\ g \in HidRecord /\ g.ep = h.ep /\ g.usb_fifo = h.usb_fifo
      /\ g.usb_ff_wptr = h.usb_ff_wptr /\ g.usb_ff_rptr = h.usb_ff_rptr
      /\ g.waiting = h.waiting /\ g.queued = h.queued /\ g.pressQueued = h.pressQueued
      /\ g.usbkb_not_released = mask
  BY DEF FifoRight, HidRecord
<1> HIDE DEF g
<1>2. FifoRight(g)
  BY <1>1 DEF FifoRight, InUse, Entry
<1>3. \A keys : Shown(g, keys) = Shown(h, keys)
  BY <1>1 DEF Shown
<1> QED
  BY <1>1, <1>2, <1>3 DEF g

(* What becomes of one key, when h becomes g. *)
KeyDone(h, g, k, pressed, keys) ==
    /\ FifoRight(g)
    /\ ~g.queued => ~h.queued
    /\ Covered(h, keys) => Covered(g, keys)
    /\ ~g.queued =>
         /\ g.usbkb_not_released = IF pressed THEN h.usbkb_not_released \cup {k}
                                   ELSE h.usbkb_not_released \ {k}
         /\ Shown(h, keys) = h.usbkb_not_released => Shown(g, keys) = g.usbkb_not_released

(* A key is pressed or released, and the mask changed if its endpoint is free. *)
Sent(h, r) ==
    [hid_report(h, r) EXCEPT !.usbkb_not_released =
        IF Busy(h, r.kind) THEN @ ELSE IF r.down THEN @ \cup {r.kind} ELSE @ \ {r.kind}]

LEMMA SentDone ==
    ASSUME NEW h, FifoRight(h), NEW r \in Report, r.kind \in KeyboardKind, NEW keys
    PROVE  KeyDone(h, Sent(h, r), r.kind, r.down, keys)
<1> DEFINE s == hid_report(h, r)
           mask == IF Busy(h, r.kind) THEN s.usbkb_not_released
                   ELSE IF r.down THEN s.usbkb_not_released \cup {r.kind}
                   ELSE s.usbkb_not_released \ {r.kind}
           g == [s EXCEPT !.usbkb_not_released = mask]
<1>1. FifoRight(s) /\ s.usbkb_not_released = h.usbkb_not_released
      /\ h.usbkb_not_released \subseteq KeyboardKind
      /\ r.down \in BOOLEAN
  <2>1. h.usbkb_not_released \subseteq KeyboardKind /\ r.down \in BOOLEAN
    BY DEF FifoRight, HidRecord, Report
  <2>2. CASE Busy(h, r.kind)
    BY <2>1, <2>2, QueueRight DEF hid_report
  <2>3. CASE ~Busy(h, r.kind)
    BY <2>1, <2>3, SentIsShown
  <2> QED
    BY <2>2, <2>3
<1>2. mask \subseteq KeyboardKind
  BY <1>1
<1>3. CASE Busy(h, r.kind)
  <2>1. s = Queue(h, r)
    BY <1>3 DEF hid_report
  <2>2. /\ s.queued = TRUE /\ s.ep = h.ep /\ h.pressQueued \subseteq s.pressQueued
    BY <2>1, QueueRight
  <2>3. \A key : Shown(s, key) = Shown(h, key)
    BY <2>2 DEF Shown
  <2> HIDE DEF s, mask
  <2>4. /\ FifoRight(g) /\ g.queued = s.queued /\ g.pressQueued = s.pressQueued
        /\ g.usbkb_not_released = mask /\ Shown(g, keys) = Shown(s, keys)
    BY <1>1, <1>2, MaskChanged
  <2>5. mask = h.usbkb_not_released
    BY <1>1, <1>3 DEF mask
  <2> HIDE DEF g
  <2>6. KeyDone(h, g, r.kind, r.down, keys)
    BY <2>2, <2>3, <2>4, <2>5 DEF KeyDone, Covered
  <2> QED
    BY <2>6 DEF g, s, mask, Sent
<1>4. CASE ~Busy(h, r.kind)
  <2>1. /\ s.queued = h.queued /\ s.pressQueued = h.pressQueued
        /\ Shown(s, keys)
             = IF r.down THEN Shown(h, keys) \cup {r.kind} ELSE Shown(h, keys) \ {r.kind}
    BY <1>4, SentIsShown
  <2> HIDE DEF s, mask
  <2>2. /\ FifoRight(g) /\ g.queued = s.queued /\ g.pressQueued = s.pressQueued
        /\ g.usbkb_not_released = mask /\ Shown(g, keys) = Shown(s, keys)
    BY <1>1, <1>2, MaskChanged
  <2>3. mask = IF r.down THEN h.usbkb_not_released \cup {r.kind}
               ELSE h.usbkb_not_released \ {r.kind}
    BY <1>1, <1>4 DEF mask
  <2> HIDE DEF g
  <2>4. KeyDone(h, g, r.kind, r.down, keys)
    BY <2>1, <2>2, <2>3 DEF KeyDone, Covered
  <2> QED
    BY <2>4 DEF g, s, mask, Sent
<1> QED
  BY <1>3, <1>4

LEMMA ReleaseDone ==
    ASSUME NEW h, FifoRight(h), NEW k \in KeyboardKind, NEW keys
    PROVE  KeyDone(h, release_key(h, k), k, FALSE, keys)
<1>1. CASE k \notin h.usbkb_not_released
  BY <1>1 DEF release_key, KeyDone
<1>2. CASE k \in h.usbkb_not_released
  <2>1. Release(k) \in Report /\ Release(k).kind = k /\ Release(k).down = FALSE
    BY DEF Release, Report, KeyboardKind
  <2>2. release_key(h, k) = Sent(h, Release(k))
    BY <1>2, <2>1, Zenon DEF release_key, Sent
  <2>3. KeyDone(h, Sent(h, Release(k)), Release(k).kind, Release(k).down, keys)
    BY <2>1, SentDone
  <2> QED
    BY <2>1, <2>2, <2>3 DEF KeyDone
<1> QED
  BY <1>1, <1>2

LEMMA ReportDone ==
    ASSUME NEW h, FifoRight(h), NEW k \in KeyboardKind, NEW data, NEW keys
    PROVE  KeyDone(h, report_key(h, k, data), k, k \in data, keys)
<1>1. CASE k \notin data
  <2>1. report_key(h, k, data) = release_key(h, k)
    BY <1>1 DEF report_key
  <2>2. KeyDone(h, release_key(h, k), k, FALSE, keys)
    BY ReleaseDone
  <2> QED
    BY <1>1, <2>1, <2>2 DEF KeyDone
<1>2. CASE k \in data
  <2>1. Press(k) \in Report /\ Press(k).kind = k /\ Press(k).down = TRUE
    BY DEF Press, Report, KeyboardKind
  <2>2. report_key(h, k, data) = Sent(h, Press(k))
    BY <1>2, <2>1, Zenon DEF report_key, Sent
  <2>3. KeyDone(h, Sent(h, Press(k)), Press(k).kind, Press(k).down, keys)
    BY <2>1, SentDone
  <2> QED
    BY <1>2, <2>1, <2>2, <2>3 DEF KeyDone
<1> QED
  BY <1>1, <1>2

(* As long as nothing was queued the host is shown what was asked for, and the
   mask of a keyboard names just that. *)
AsAsked ==
    ~hid.queued =>
        /\ Shown(hid, host_keys) = asked
        /\ caller = "keyboard" =>
             /\ hid.usbkb_not_released = asked
             /\ asked # {} => last_data = asked
        /\ caller # "keyboard" => asked \subseteq {AppKind}

HidInv ==
    /\ FifoRight(hid)
    /\ host_keys \subseteq Kind /\ asked \subseteq Kind
    /\ caller = "keyboard" => Covered(hid, host_keys)
    /\ AsAsked

LEMMA HidInvInit == HidInit => HidInv
<1> SUFFICES ASSUME HidInit PROVE HidInv
  OBVIOUS
<1>1. /\ USB_FIFO_NUM \in Nat \ {0, 1}
      /\ hid = [ep |-> [e \in Endpoint |-> NoReport],
                usb_fifo |-> [i \in 0 .. USB_FIFO_NUM - 1 |-> NoReport],
                usb_ff_wptr |-> 0, usb_ff_rptr |-> 0, usbkb_not_released |-> {},
                waiting |-> <<>>, queued |-> FALSE, pressQueued |-> {}]
      /\ host_keys = {} /\ asked = {}
  BY UsbFifoAssumption DEF HidInit
<1>2. hid \in HidRecord
  BY <1>1 DEF HidRecord, PtrMod
<1>3. InUse(hid) = 0
  BY <1>1, UsedIs DEF InUse
<1>4. FifoRight(hid)
  <2>1. hid.waiting = [i \in 1 .. InUse(hid) |-> hid.usb_fifo[Entry(hid, i)]]
    <3> DEFINE entries == [i \in 1 .. InUse(hid) |-> hid.usb_fifo[Entry(hid, i)]]
    <3>1. 1 .. InUse(hid) = {} /\ 1 .. 0 = {}
      BY <1>3
    <3>2. entries \in Seq({}) /\ Len(entries) = 0
      <4>1. DOMAIN entries = 1 .. 0 /\ \A i \in 1 .. 0 : entries[i] \in {}
        BY <3>1
      <4>2. entries = [i \in 1 .. 0 |-> entries[i]]
        BY <3>1
      <4> HIDE DEF entries
      <4> QED
        BY <4>1, <4>2
    <3> HIDE DEF entries
    <3>3. entries = <<>>
      BY <3>2, EmptySeq
    <3> QED
      BY <1>1, <3>3 DEF entries
  <2>2. /\ hid.queued = FALSE /\ hid.usb_ff_wptr = hid.usb_ff_rptr
        /\ \A e \in Endpoint : hid.ep[e] = NoReport
        /\ \A i \in 0 .. USB_FIFO_NUM - 1 : hid.usb_fifo[i] = NoReport
    BY <1>1
  <2>3. NoReport.down = FALSE /\ InUse(hid) <= USB_FIFO_NUM
    BY <1>1, <1>3 DEF NoReport
  <2> QED
    BY <1>2, <2>1, <2>2, <2>3 DEF FifoRight
<1>5. Shown(hid, host_keys) = {}
  <2>1. \A k \in Kind : EndpointOf(k) \in Endpoint /\ k # "none"
    BY DEF EndpointOf, Endpoint, Kind
  <2> QED
    BY <1>1, <2>1 DEF Shown, NoReport
<1> QED
  BY <1>1, <1>4, <1>5 DEF HidInv, AsAsked, Covered

LEMMA KeyboardReports ==
    ASSUME HidInv, NEW data \in KbData, usbkb_hid_report(data)
    PROVE  HidInv'
<1>1. /\ FifoRight(hid) /\ caller = "keyboard" /\ Covered(hid, host_keys) /\ AsAsked
      /\ UNCHANGED <<caller, host_keys>> /\ host_keys \subseteq Kind
      /\ data \subseteq KeyboardKind
      /\ KeyboardKind = {"normal", "sys", "media"} /\ KeyboardKind \subseteq Kind
  BY KbDataAssumption DEF HidInv, usbkb_hid_report, KeyboardKind, Kind
<1>2. /\ last_data' = IF data = {} THEN last_data ELSE data
      /\ asked' = IF hid'.queued THEN {} ELSE data
  BY DEF usbkb_hid_report, Asks
<1>3. asked' \subseteq Kind
  BY <1>1, <1>2
<1>4. CASE Repeated(data)
  <2>1. hid' = hid
    BY <1>4 DEF usbkb_hid_report
  <2>2. FifoRight(hid)' /\ Covered(hid, host_keys)'
    BY <1>1, <2>1
  <2>3. ~hid'.queued => asked' = data /\ data = asked
    BY <1>1, <1>2, <1>4, <2>1 DEF AsAsked, Repeated
  <2>4. AsAsked'
    BY <1>1, <1>2, <1>4, <2>1, <2>3 DEF AsAsked, Repeated
  <2> QED
    BY <1>1, <1>3, <2>2, <2>4 DEF HidInv
<1>5. CASE ~Repeated(data)
  <2> DEFINE h1 == report_key(hid, "normal", data)
             h2 == report_key(h1, "sys", data)
             h3 == report_key(h2, "media", data)
  <2>1. hid' = h3
    BY <1>5 DEF usbkb_hid_report
  <2>2. KeyDone(hid, h1, "normal", "normal" \in data, host_keys)
    BY <1>1, ReportDone
  <2> HIDE DEF h1
  <2>3. KeyDone(h1, h2, "sys", "sys" \in data, host_keys)
    BY <1>1, <2>2, ReportDone DEF KeyDone
  <2> HIDE DEF h2
  <2>4. KeyDone(h2, h3, "media", "media" \in data, host_keys)
    BY <1>1, <2>3, ReportDone DEF KeyDone
  <2> HIDE DEF h3
  <2>5. FifoRight(h3) /\ Covered(h3, host_keys)
    BY <1>1, <2>2, <2>3, <2>4 DEF KeyDone
  <2>6. ASSUME ~h3.queued
        PROVE  h3.usbkb_not_released = data /\ Shown(h3, host_keys) = data
    <3>1. ~h2.queued /\ ~h1.queued /\ ~hid.queued
      BY <2>2, <2>3, <2>4, <2>6 DEF KeyDone
    <3>2. Shown(hid, host_keys) = hid.usbkb_not_released
      BY <1>1, <3>1 DEF AsAsked
    <3>3. Shown(h3, host_keys) = h3.usbkb_not_released
      BY <2>2, <2>3, <2>4, <2>6, <3>1, <3>2 DEF KeyDone
    <3>4. hid.usbkb_not_released \subseteq KeyboardKind
      BY <1>1 DEF FifoRight, HidRecord
    <3>5. h3.usbkb_not_released = data
      <4>1. /\ h1.usbkb_not_released = IF "normal" \in data
                                       THEN hid.usbkb_not_released \cup {"normal"}
                                       ELSE hid.usbkb_not_released \ {"normal"}
            /\ h2.usbkb_not_released = IF "sys" \in data
                                       THEN h1.usbkb_not_released \cup {"sys"}
                                       ELSE h1.usbkb_not_released \ {"sys"}
            /\ h3.usbkb_not_released = IF "media" \in data
                                       THEN h2.usbkb_not_released \cup {"media"}
                                       ELSE h2.usbkb_not_released \ {"media"}
        BY <2>2, <2>3, <2>4, <2>6, <3>1 DEF KeyDone
      <4> QED
        BY <1>1, <3>4, <4>1
    <3> QED
      BY <3>3, <3>5
  <2>7. FifoRight(hid)' /\ Covered(hid, host_keys)'
    BY <1>1, <2>1, <2>5
  <2>8. AsAsked'
    BY <1>1, <1>2, <2>1, <2>6 DEF AsAsked
  <2> QED
    BY <1>1, <1>3, <2>7, <2>8 DEF HidInv
<1> QED
  BY <1>4, <1>5

LEMMA KeyboardReleases ==
    ASSUME HidInv, usbkb_release_check
    PROVE  HidInv'
<1>1. /\ FifoRight(hid) /\ caller = "keyboard" /\ Covered(hid, host_keys) /\ AsAsked
      /\ UNCHANGED <<caller, host_keys>> /\ host_keys \subseteq Kind
      /\ KeyboardKind = {"normal", "sys", "media"}
  BY DEF HidInv, usbkb_release_check, KeyboardKind, Kind
<1>2. asked' = {}
  BY DEF usbkb_release_check, Asks
<1> DEFINE h1 == release_key(hid, "sys")
           h2 == release_key(h1, "normal")
           h3 == release_key(h2, "media")
<1>3. hid' = h3
  BY DEF usbkb_release_check
<1>4. KeyDone(hid, h1, "sys", FALSE, host_keys)
  BY <1>1, ReleaseDone
<1> HIDE DEF h1
<1>5. KeyDone(h1, h2, "normal", FALSE, host_keys)
  BY <1>1, <1>4, ReleaseDone DEF KeyDone
<1> HIDE DEF h2
<1>6. KeyDone(h2, h3, "media", FALSE, host_keys)
  BY <1>1, <1>5, ReleaseDone DEF KeyDone
<1> HIDE DEF h3
<1>7. FifoRight(h3) /\ Covered(h3, host_keys)
  BY <1>1, <1>4, <1>5, <1>6 DEF KeyDone
<1>8. ASSUME ~h3.queued
      PROVE  h3.usbkb_not_released = {} /\ Shown(h3, host_keys) = {}
  <2>1. ~h2.queued /\ ~h1.queued /\ ~hid.queued
    BY <1>4, <1>5, <1>6, <1>8 DEF KeyDone
  <2>2. Shown(hid, host_keys) = hid.usbkb_not_released
    BY <1>1, <2>1 DEF AsAsked
  <2>3. Shown(h3, host_keys) = h3.usbkb_not_released
    BY <1>4, <1>5, <1>6, <1>8, <2>1, <2>2 DEF KeyDone
  <2>4. hid.usbkb_not_released \subseteq KeyboardKind
    BY <1>1 DEF FifoRight, HidRecord
  <2>5. /\ h1.usbkb_not_released = hid.usbkb_not_released \ {"sys"}
        /\ h2.usbkb_not_released = h1.usbkb_not_released \ {"normal"}
        /\ h3.usbkb_not_released = h2.usbkb_not_released \ {"media"}
    BY <1>4, <1>5, <1>6, <1>8, <2>1 DEF KeyDone
  <2> QED
    BY <1>1, <2>3, <2>4, <2>5
<1>9. FifoRight(hid)' /\ Covered(hid, host_keys)'
  BY <1>1, <1>3, <1>7
<1>10. AsAsked'
  BY <1>1, <1>2, <1>3, <1>8 DEF AsAsked
<1> QED
  BY <1>1, <1>2, <1>9, <1>10 DEF HidInv

LEMMA FifoSends ==
    ASSUME HidInv, usb_hid_report_fifo_proc
    PROVE  HidInv'
<1> DEFINE w == hid.usb_ff_wptr
           from == hid.usb_ff_rptr
           N == USB_FIFO_NUM
           r == hid.usb_fifo[from % N]
           g == hid_report(hid, r)
<1>1. /\ FifoRight(hid) /\ caller = "keyboard" /\ Covered(hid, host_keys)
      /\ UNCHANGED <<caller, last_data, host_keys, asked>>
      /\ host_keys \subseteq Kind /\ asked \subseteq Kind
      /\ w # from /\ ~Busy(hid, r.kind)
      /\ hid' = [g EXCEPT !.usb_fifo[from % N] = NoReport,
                          !.usb_ff_rptr = (@ + 1) % PtrMod, !.waiting = Tail(@)]
  BY DEF HidInv, usb_hid_report_fifo_proc
<1>2. /\ N \in Nat \ {0, 1} /\ hid \in HidRecord
      /\ w \in 0 .. 2 * N - 1 /\ from \in 0 .. 2 * N - 1 /\ Used(w, from, N) <= N
      /\ hid.usb_fifo \in [0 .. N - 1 -> Report \cup {NoReport}]
      /\ hid.waiting \in Seq(Report \cup {NoReport})
      /\ hid.waiting = Entries(hid.usb_fifo, Used(w, from, N), from, N)
  BY <1>1, UsbFifoAssumption DEF FifoRight, HidRecord, PtrMod, InUse, Entry, Entries
<1>3. from % N \in 0 .. N - 1 /\ r \in Report \cup {NoReport}
  <2>1. from % N \in 0 .. N - 1
    BY <1>2
  <2> QED
    BY <1>2, <2>1
<1>4. r.down => r.kind \in hid.pressQueued
  BY <1>1, <1>3 DEF FifoRight
<1>5. hid.queued = TRUE
  BY <1>1 DEF FifoRight, HidRecord
<1>6. /\ FifoRight(g) /\ Covered(g, host_keys)
      /\ g.usb_fifo = hid.usb_fifo /\ g.usb_ff_wptr = w /\ g.usb_ff_rptr = from
      /\ g.waiting = hid.waiting /\ g.queued = hid.queued
      /\ g.usbkb_not_released = hid.usbkb_not_released /\ g.pressQueued = hid.pressQueued
  <2>1. CASE r = NoReport
    <3>1. EndpointOf(r.kind) \in Endpoint /\ hid.ep[EndpointOf(r.kind)] = NoReport
      BY <1>1 DEF EndpointOf, Endpoint, Busy
    <3>2. g = [hid EXCEPT !.ep[EndpointOf(r.kind)] = NoReport]
      BY <1>1, <2>1 DEF hid_report
    <3>3. [hid.ep EXCEPT ![EndpointOf(r.kind)] = NoReport] = hid.ep
      BY <1>2, <3>1 DEF HidRecord
    <3>4. g = hid
      BY <1>2, <3>1, <3>2, <3>3 DEF HidRecord
    <3> QED
      BY <1>1, <3>4
  <2>2. CASE r \in Report
    <3>1. /\ FifoRight(g) /\ g = [hid EXCEPT !.ep[EndpointOf(r.kind)] = r]
          /\ g.queued = hid.queued /\ g.usbkb_not_released = hid.usbkb_not_released
          /\ g.pressQueued = hid.pressQueued
          /\ Shown(g, host_keys) = IF r.down THEN Shown(hid, host_keys) \cup {r.kind}
                                   ELSE Shown(hid, host_keys) \ {r.kind}
      <4> HIDE DEF r
      <4> QED
        BY <1>1, <2>2, SentIsShown
    <3>2. /\ g.usb_fifo = hid.usb_fifo /\ g.usb_ff_wptr = w /\ g.usb_ff_rptr = from
          /\ g.waiting = hid.waiting
      BY <1>2, <3>1 DEF HidRecord
    <3>3. Covered(g, host_keys)
      BY <1>1, <1>4, <3>1 DEF Covered
    <3> QED
      BY <3>1, <3>2, <3>3
  <2> QED
    BY <1>3, <2>1, <2>2
<1>7. (from + 1) % PtrMod = Ahead(from, N)
  BY DEF Ahead, PtrMod
<1> HIDE DEF g
<1> DEFINE ahead == Ahead(from, N)
           new == [hid.usb_fifo EXCEPT ![from % N] = NoReport]
           rest == Tail(hid.waiting)
<1>8. /\ ahead \in 0 .. 2 * N - 1 /\ Used(w, ahead, N) <= N
      /\ rest \in Seq(Report \cup {NoReport})
      /\ rest = Entries(new, Used(w, ahead, N), ahead, N)
  <2> DEFINE Rep == Report \cup {NoReport}
             old == hid.usb_fifo
             waits == hid.waiting
  <2>1. /\ N \in Nat \ {0, 1} /\ w \in 0 .. 2 * N - 1 /\ from \in 0 .. 2 * N - 1
        /\ w # from /\ Used(w, from, N) <= N
        /\ old \in [0 .. N - 1 -> Rep] /\ NoReport \in Rep
        /\ waits \in Seq(Rep) /\ waits = Entries(old, Used(w, from, N), from, N)
    BY <1>1, <1>2
  <2> HIDE DEF N, w, from, Rep, old, waits
  <2>2. RightAfterTake(old, waits, NoReport, w, from, N) /\ Tail(waits) \in Seq(Rep)
    BY <2>1, OneLessWaits
  <2> QED
    BY <2>2, Zenon DEF old, waits, Rep, RightAfterTake
<1>9. /\ new \in [0 .. N - 1 -> Report \cup {NoReport}]
      /\ \A i \in 0 .. N - 1 : new[i].down => new[i].kind \in hid.pressQueued
  <2>1. new \in [0 .. N - 1 -> Report \cup {NoReport}]
    BY <1>2, <1>3
  <2>2. \A i \in 0 .. N - 1 : new[i] = IF i = from % N THEN NoReport ELSE hid.usb_fifo[i]
    BY <1>2, <1>3
  <2> QED
    BY <1>1, <2>1, <2>2 DEF FifoRight, NoReport
<1> HIDE DEF ahead, new, rest
<1>10. hid' = [g EXCEPT !.usb_fifo = new, !.usb_ff_rptr = ahead, !.waiting = rest]
  BY <1>1, <1>2, <1>6, <1>7 DEF ahead, new, rest, FifoRight, HidRecord
<1>11. /\ hid'.usb_fifo = new /\ hid'.usb_ff_rptr = ahead /\ hid'.waiting = rest
       /\ hid'.usb_ff_wptr = w /\ hid'.ep = g.ep /\ hid'.queued = TRUE
       /\ hid'.usbkb_not_released = g.usbkb_not_released
       /\ hid'.pressQueued = hid.pressQueued /\ g.pressQueued = hid.pressQueued
       /\ hid' \in HidRecord
  BY <1>5, <1>6, <1>8, <1>9, <1>10 DEF FifoRight, HidRecord, PtrMod
<1>12. FifoRight(hid)'
  <2>1. \A e \in Endpoint : hid'.ep[e] # NoReport => EndpointOf(hid'.ep[e].kind) = e
    BY <1>6, <1>11 DEF FifoRight
  <2>2. InUse(hid)' <= N /\ hid'.waiting = [i \in 1 .. InUse(hid)' |-> hid'.usb_fifo[Entry(hid, i)']]
    BY <1>8, <1>11 DEF InUse, Entry, Entries
  <2> QED
    BY <1>9, <1>11, <2>1, <2>2 DEF FifoRight
<1>13. Covered(hid, host_keys)'
  BY <1>1, <1>6, <1>11 DEF Covered, Shown
<1>14. AsAsked'
  BY <1>11 DEF AsAsked
<1> QED
  BY <1>1, <1>12, <1>13, <1>14 DEF HidInv

LEMMA AppReports ==
    ASSUME HidInv, NEW down \in BOOLEAN, AppButton(down)
    PROVE  HidInv'
<1> DEFINE r == [kind |-> AppKind, down |-> down]
           g == hid_report(hid, r)
<1>1. /\ FifoRight(hid) /\ caller # "keyboard" /\ AsAsked
      /\ UNCHANGED <<caller, last_data, host_keys>> /\ host_keys \subseteq Kind
      /\ hid' = g /\ asked' = IF g.queued THEN {} ELSE IF down THEN {AppKind} ELSE {}
  BY DEF HidInv, AppButton, Asks
<1>2. r \in Report /\ r.kind = AppKind /\ r.down = down /\ AppKind \in Kind
  BY DEF Report, AppKind, Kind
<1>3. asked' \subseteq Kind /\ AppKind' = AppKind
  BY <1>1, <1>2 DEF AppKind
<1> HIDE DEF r
<1>4. CASE Busy(hid, r.kind)
  <2>1. FifoRight(g) /\ g.queued = TRUE
    BY <1>1, <1>2, <1>4, QueueRight DEF hid_report
  <2>2. AsAsked'
    BY <1>1, <2>1 DEF AsAsked
  <2> QED
    BY <1>1, <1>3, <2>1, <2>2 DEF HidInv
<1>5. CASE ~Busy(hid, r.kind)
  <2>1. /\ FifoRight(g) /\ g.queued = hid.queued
        /\ Shown(g, host_keys) = IF r.down THEN Shown(hid, host_keys) \cup {r.kind}
                                 ELSE Shown(hid, host_keys) \ {r.kind}
    BY <1>1, <1>2, <1>5, SentIsShown
  <2>2. ~hid.queued => Shown(hid, host_keys) \subseteq {AppKind}
    BY <1>1 DEF AsAsked
  <2> HIDE DEF g
  <2>3. ~hid'.queued => Shown(hid, host_keys)' = asked' /\ asked' \subseteq {AppKind}
    BY <1>1, <1>2, <2>1, <2>2
  <2>4. AsAsked'
    BY <1>1, <1>3, <2>3 DEF AsAsked
  <2> QED
    BY <1>1, <1>3, <2>1, <2>4 DEF HidInv
<1> QED
  BY <1>4, <1>5

LEMMA HostFetches ==
    ASSUME HidInv, NEW e \in Endpoint, HostPolls(e)
    PROVE  HidInv'
<1> DEFINE r == hid.ep[e]
<1>1. /\ FifoRight(hid) /\ hid \in HidRecord
      /\ host_keys \subseteq Kind /\ asked \subseteq Kind
      /\ caller = "keyboard" => Covered(hid, host_keys)
      /\ r # NoReport /\ EndpointOf(r.kind) = e
      /\ host_keys' = IF r.down THEN host_keys \cup {r.kind} ELSE host_keys \ {r.kind}
      /\ hid' = [hid EXCEPT !.ep[e] = NoReport]
      /\ UNCHANGED <<caller, last_data, asked>>
  BY DEF HidInv, HostPolls, FifoRight
<1>2. r \in Report /\ r.kind \in Kind
  <2>1. r \in Report
    BY <1>1 DEF HidRecord
  <2> QED
    BY <2>1 DEF Report
<1>3. /\ hid'.ep = [hid.ep EXCEPT ![e] = NoReport] /\ hid' \in HidRecord
      /\ hid'.usb_fifo = hid.usb_fifo /\ hid'.usb_ff_wptr = hid.usb_ff_wptr
      /\ hid'.usb_ff_rptr = hid.usb_ff_rptr /\ hid'.waiting = hid.waiting
      /\ hid'.queued = hid.queued /\ hid'.usbkb_not_released = hid.usbkb_not_released
      /\ hid'.pressQueued = hid.pressQueued
  BY <1>1 DEF HidRecord
<1>4. hid'.ep[e] = NoReport /\ \A d \in Endpoint : d # e => hid'.ep[d] = hid.ep[d]
  BY <1>1, <1>3 DEF HidRecord
<1>5. FifoRight(hid)'
  <2>1. \A d \in Endpoint : hid'.ep[d] # NoReport => EndpointOf(hid'.ep[d].kind) = d
    BY <1>1, <1>4 DEF FifoRight
  <2> QED
    BY <1>1, <1>3, <2>1 DEF FifoRight, InUse, Entry
<1>6. Shown(hid, host_keys)' = Shown(hid, host_keys)
  <2>1. \A k \in Kind : k \in Shown(hid', host_keys') <=> k \in Shown(hid, host_keys)
    <3> SUFFICES ASSUME NEW k \in Kind
                 PROVE  k \in Shown(hid', host_keys') <=> k \in Shown(hid, host_keys)
      OBVIOUS
    <3>1. EndpointOf(k) \in Endpoint /\ NoReport.kind # k
      BY DEF EndpointOf, Endpoint, NoReport, Kind
    <3>2. CASE k = r.kind
      <4>1. k \in host_keys' <=> r.down
        BY <1>1, <3>2
      <4> QED
        BY <1>1, <1>4, <3>1, <3>2, <4>1 DEF Shown
    <3>3. CASE k # r.kind
      <4>1. k \in host_keys' <=> k \in host_keys
        BY <1>1, <3>3
      <4>2. CASE EndpointOf(k) = e
        BY <1>4, <3>1, <3>3, <4>1, <4>2 DEF Shown
      <4>3. CASE EndpointOf(k) # e
        BY <1>4, <3>1, <4>1, <4>3 DEF Shown
      <4> QED
        BY <4>2, <4>3
    <3> QED
      BY <3>2, <3>3
  <2>2. Shown(hid', host_keys') \subseteq Kind /\ Shown(hid, host_keys) \subseteq Kind
    BY DEF Shown
  <2> QED
    BY <2>1, <2>2
<1>7. (caller = "keyboard" => Covered(hid, host_keys))'
  BY <1>1, <1>3, <1>6 DEF Covered
<1>8. AsAsked'
  BY <1>1, <1>3, <1>6 DEF HidInv, AsAsked, AppKind
<1>9. host_keys' \subseteq Kind
  BY <1>1, <1>2
<1> QED
  BY <1>1, <1>5, <1>7, <1>8, <1>9 DEF HidInv

LEMMA HidInvStep == HidInv /\ [HidNext]_hidVars => HidInv'
<1> SUFFICES ASSUME HidInv, [HidNext]_hidVars PROVE HidInv'
  OBVIOUS
<1>1. CASE \E data \in KbData : usbkb_hid_report(data)
  BY <1>1, KeyboardReports
<1>2. CASE usbkb_release_check
  BY <1>2, KeyboardReleases
<1>3. CASE usb_hid_report_fifo_proc
  BY <1>3, FifoSends
<1>4. CASE \E down \in BOOLEAN : AppButton(down)
  BY <1>4, AppReports
<1>5. CASE \E e \in Endpoint : HostPolls(e)
  BY <1>5, HostFetches
<1>6. CASE UNCHANGED hidVars
  BY <1>6 DEF hidVars, HidInv, AsAsked, AppKind
<1> QED
  BY <1>1, <1>2, <1>3, <1>4, <1>5, <1>6 DEF HidNext

LEMMA HostSees == HidInv => HostSeesKeys
<1> SUFFICES ASSUME HidInv PROVE HostSeesKeys
  OBVIOUS
<1>1. Fetched => Shown(hid, host_keys) = host_keys
  <2>1. \A k \in Kind : EndpointOf(k) \in Endpoint /\ NoReport.kind # k
    BY DEF EndpointOf, Endpoint, NoReport, Kind
  <2> QED
    BY <2>1 DEF HidInv, Fetched, Shown
<1>2. ~hid.queued /\ Fetched => host_keys = asked
  BY <1>1 DEF HidInv, AsAsked
<1>3. NoStuckKey
  BY <1>1 DEF HidInv, Covered, NoStuckKey
<1>4. NewestWait
  BY DEF HidInv, FifoRight, NewestWait, InUse, Entry, Used, PlaceOf, PtrMod
<1> QED
  BY <1>2, <1>3, <1>4 DEF HostSeesKeys
-----------------------------------------------------------------------------
(* No key is left down by the reports of a keyboard, however its calls, the
   timeout and the polls of the host follow each other (usbkb.c, usbmouse.c). *)
THEOREM HostSeesWhatIsPressed == HidInit /\ [][HidNext]_hidVars => []HostSeesKeys
<1>1. HidInv => HostSeesKeys
  BY HostSees
<1> QED
  BY <1>1, HidInvInit, HidInvStep, PTL

(* No key is left down, from the contact to the host (keyboard.c, usbkb.c), but
   for a contact that closed in one of the last two readings of the matrix and
   for no test of the pins, and a press that had to wait for the endpoint. *)
THEOREM KeyboardReportsKeys == KeyboardSpec => []KeysAsPressed
<1> DEFINE Inv == HidInv /\ ScanInv
<1>1. KeyboardInit => Inv
  BY HidInvInit, ScanInvInit DEF KeyboardInit
<1>2. Inv /\ [KeyboardNext]_<<hidVars, scanVars>> => Inv'
  <2>1. [KeyboardNext]_<<hidVars, scanVars>> => [HidNext]_hidVars /\ [ScanNext]_scanVars
    BY DEF KeyboardNext
  <2> QED
    BY <2>1, HidInvStep, ScanInvStep
<1>3. Inv => KeysAsPressed
  <2>1. ScanInv => KeysGoUp
    BY DEF ScanInv, Settles, NewestKept, KeysGoUp
  <2> QED
    BY <2>1, HostSees DEF KeysAsPressed
<1> QED
  BY <1>1, <1>2, <1>3, PTL DEF KeyboardSpec
=============================================================================
