------------------------------ MODULE Keyboard ------------------------------
(***************************************************************************)
(* A keyboard, from the contact of a key to the report that the host       *)
(* fetches: HidReport's reports beside the key matrix of                   *)
(* src/vendor/usb_demo/application/keyboard/keyboard.c.  The repository    *)
(* has no application that joins them, so that each makes its steps on its *)
(* own.                                                                    *)
(*                                                                         *)
(* A call of kb_scan_key asks kb_key_pressed which scan pins have a closed *)
(* contact and, if there is one, lets kb_scan_key_value read the matrix,   *)
(* filter it, put a change into matrix_buff and take one change out.  The  *)
(* file is built only for a board with a key matrix.  Repeated keys and    *)
(* ghost removal, which are off unless configured, and the mapping of keys *)
(* to codes are left out.                                                  *)
(*                                                                         *)
(* Contacts bounce and keys move at any time: kb_scan_key_value reads the  *)
(* pins again, so that it may find open what kb_key_pressed found closed,  *)
(* and closed what that found open, if the pin is one that it remembers.   *)
(***************************************************************************)
EXTENDS HidReport

CONSTANTS
    Drive, ScanPin, \* drive_pins and scan_pins
    ReleaseCnt,     \* for how many calls kb_key_pressed remembers a contact
    BuffNum         \* places of matrix_buff

(* Of the passes that a contact is remembered for, the first may see it closed
   and the filter takes two more to see it open. *)
ASSUME KeyScanAssumption ==
    ReleaseCnt \in Nat /\ ReleaseCnt >= 3 /\ BuffNum \in Nat \ {0, 1}

VARIABLES
    contact,        \* the scan pins that kb_key_pressed found closed in this pass
    scan_pin_need,
    scanning,       \* kb_scan_key_value is called next
    ret_last, release_cnt,       \* static in kb_key_pressed
    mtrx_pre, mtrx_last,         \* static in key_debounce_filter
    matrix_buff, matrix_wptr, matrix_rptr,
    event,          \* the keys that were read out last
    emptied,        \* the event is the empty one of an invalid NUMLOCK status
    stray           \* for how many readings more the filter may hold on to a contact
                    \* that was closed for the reading only

scanVars == <<contact, scan_pin_need, scanning, ret_last, release_cnt, mtrx_pre,
              mtrx_last, matrix_buff, matrix_wptr, matrix_rptr, event, emptied, stray>>

MatrixKey == Drive \X ScanPin

PtrMod8 == 2 * BuffNum

ScanInit ==
    /\ contact = {} /\ scan_pin_need = {} /\ scanning = FALSE
    /\ ret_last = {} /\ release_cnt = 0
    /\ mtrx_pre = {} /\ mtrx_last = {}
    /\ matrix_buff = [i \in 0 .. BuffNum - 1 |-> {}]
    /\ matrix_wptr = 0 /\ matrix_rptr = 0
    /\ event = {} /\ emptied = FALSE /\ stray = 0

Remembered(seen) == IF seen # {} THEN ReleaseCnt ELSE release_cnt

kb_key_pressed ==
    /\ ~scanning
    /\ \E seen \in SUBSET ScanPin :
        LET last == IF seen # {} THEN seen ELSE ret_last
            cnt == Remembered(seen)
            ret == IF cnt > 0 THEN last ELSE seen
        IN /\ contact' = seen
           /\ ret_last' = last
           /\ release_cnt' = IF cnt > 0 THEN cnt - 1 ELSE 0
           /\ scan_pin_need' = ret
           /\ scanning' = (ret # {})
    /\ UNCHANGED <<mtrx_pre, mtrx_last, matrix_buff, matrix_wptr, matrix_rptr,
                   event, emptied, stray>>

(* key_debounce_filter: a key changes when two readings of it agree. *)
Filtered(cur, filt_en) ==
    IF ~filt_en THEN cur
    ELSE ((mtrx_pre \cap cur) \ mtrx_last) \cup (mtrx_last \cap (mtrx_pre \cup cur))

(* Where to read on when a change was written: the oldest is overwritten. *)
ReadFrom(wptr) ==
    IF (wptr + PtrMod8 - matrix_rptr) % PtrMod8 > BuffNum
    THEN (wptr + PtrMod8 - BuffNum) % PtrMod8
    ELSE matrix_rptr

(* numlock is what the NUMLOCK status says: the first call after power-on is
   not filtered, and an invalid status empties the event. *)
kb_scan_key_value(numlock, read_key) ==
    /\ scanning
    /\ scanning' = FALSE
    /\ \E pressed_matrix \in SUBSET {k \in MatrixKey : k[2] \in scan_pin_need} :
        LET cur == Filtered(pressed_matrix, numlock # "POWERON")
            changed == cur # mtrx_last
            wptr == IF changed THEN (matrix_wptr + 1) % PtrMod8 ELSE matrix_wptr
            rptr == IF changed THEN ReadFrom(wptr) ELSE matrix_rptr
            buff == IF changed THEN [matrix_buff EXCEPT ![matrix_wptr % BuffNum] = cur]
                    ELSE matrix_buff
            reads == numlock # "INVALID" /\ read_key /\ wptr # rptr
        IN /\ mtrx_pre' = pressed_matrix
           /\ mtrx_last' = cur
           /\ matrix_wptr' = wptr
           /\ matrix_buff' = buff
           /\ matrix_rptr' = IF reads THEN (rptr + 1) % PtrMod8 ELSE rptr
           /\ event' = IF reads THEN buff[rptr % BuffNum]
                       ELSE IF numlock = "INVALID" THEN {} ELSE event
           /\ emptied' = ((emptied /\ ~reads) \/ numlock = "INVALID")
           /\ stray' = IF contact # {} THEN 0
                       ELSE IF pressed_matrix # {} THEN 2 ELSE IF stray > 0 THEN stray - 1 ELSE 0
    /\ contact' = {}
    /\ UNCHANGED <<scan_pin_need, ret_last, release_cnt>>

ScanNext ==
    \/ kb_key_pressed
    \/ \E numlock \in {"VALID", "POWERON", "INVALID"}, read_key \in BOOLEAN :
        kb_scan_key_value(numlock, read_key)
-----------------------------------------------------------------------------
ScanTypeOK ==
    /\ contact \subseteq ScanPin /\ scan_pin_need \subseteq ScanPin /\ ret_last \subseteq ScanPin
    /\ release_cnt \in 0 .. ReleaseCnt /\ stray \in 0 .. 2
    /\ mtrx_pre \subseteq MatrixKey /\ mtrx_last \subseteq MatrixKey /\ event \subseteq MatrixKey
    /\ matrix_buff \in [0 .. BuffNum - 1 -> SUBSET MatrixKey]
    /\ matrix_wptr \in 0 .. PtrMod8 - 1 /\ matrix_rptr \in 0 .. PtrMod8 - 1

(* When kb_key_pressed stops asking for scans, which it does on its own, the
   filter has seen every key go up.  The exception is a contact that closes for
   the reading of the matrix, in one of the last two passes, and for no test of
   the pins: the filter cannot see it open any more.  And whoever reads until
   there is nothing left has the keys as the filter has them, although a full
   buffer drops changes. *)
KeysGoUp ==
    /\ scan_pin_need = {} /\ stray = 0 => mtrx_last = {}
    /\ matrix_wptr = matrix_rptr /\ ~emptied => event = mtrx_last
-----------------------------------------------------------------------------
KeyboardInit == HidInit /\ ScanInit

KeyboardNext ==
    \/ HidNext /\ UNCHANGED scanVars
    \/ ScanNext /\ UNCHANGED hidVars

KeyboardSpec == KeyboardInit /\ [][KeyboardNext]_<<hidVars, scanVars>>

(* From the contact to the host: no key is left down, neither by the scan of the
   matrix, but for a contact that closed for the last readings only, nor by the
   reports, but for one whose press had to wait for the endpoint (keyboard.c,
   usbkb.c). *)
KeysAsPressed == HostSeesKeys /\ KeysGoUp
=============================================================================
